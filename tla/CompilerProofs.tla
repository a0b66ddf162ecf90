--------------------------- MODULE CompilerProofs ---------------------------
(***************************************************************************)
(* For any programs that their registry accepts: compile_func either stops *)
(* or writes regions that the MLIR verifier accepts, except for the loops  *)
(* that RefusedLoop describes.  The first traversal finds exactly what the *)
(* second one visits, which gives every block its terminator; the second   *)
(* one keeps every jump of the region as long as its target declares.      *)
(* What compiles then runs as the interpreter runs the program: every      *)
(* register of a block stands for a variable of its statement, a depth     *)
(* counter for the frames that its loop replaced, and each native step is  *)
(* a Sierra step or none.                                                  *)
(***************************************************************************)
EXTENDS CompiledProgram, FiniteSetTheorems, TLAPS

-----------------------------------------------------------------------------
(* Finite sets of identifiers, and their enumeration.                      *)

Increasing(s) == \A i, j \in DOMAIN s : i < j => s[i] < s[j]

\* A set of identifiers has a least one.
LEMMA LeastExists ==
  ASSUME NEW T \in SUBSET Nat, T # {}
  PROVE  \E m \in T : \A k \in T : m <= k
<1> DEFINE R == OpToRel(<, Nat)
<1>1. IsWellFoundedOn(R, Nat)
  BY NatLessThanWellFounded
<1>2. \A m, k \in Nat : m < k => <<m, k>> \in R
  BY DEF OpToRel
<1> HIDE DEF R
<1>3. PICK m \in T : \A k \in T : ~(<<k, m>> \in R)
  BY <1>1, WFMin
<1>4. \A k \in T : m <= k
  <2> SUFFICES ASSUME NEW k \in T PROVE m <= k
    OBVIOUS
  <2>1. m \in Nat /\ k \in Nat /\ ~(k < m)
    BY <1>2, <1>3
  <2> QED
    BY <2>1
<1> QED
  BY <1>4

\* Induction on the subsets of a finite set, over a set of subsets.
LEMMA SubsetInduction ==
  ASSUME NEW S, IsFiniteSet(S), NEW A,
         \A s \in SUBSET S : (\A t \in SUBSET s : t # s => t \in A) => s \in A
  PROVE  S \in A
<1> SUFFICES ASSUME S \notin A PROVE FALSE
  OBVIOUS
<1> DEFINE R == StrictSubsetOrdering(S)
           T == (SUBSET S) \ A
<1>1. IsWellFoundedOn(R, SUBSET S)
  <2>1. FiniteSubsetsOf(S) = SUBSET S
    BY FS_FiniteSubsetsOfFinite
  <2>2. IsWellFoundedOn(R, FiniteSubsetsOf(S))
    BY FS_StrictSubsetOrderingWellFounded
  <2> QED
    BY <2>1, <2>2
<1>2. \A s, t \in SUBSET S : (t \subseteq s /\ t # s) => <<t, s>> \in R
  BY DEF StrictSubsetOrdering
<1>3. T \subseteq SUBSET S /\ T # {}
  OBVIOUS
<1>4. \A t : t \in T <=> t \in SUBSET S /\ t \notin A
  OBVIOUS
<1> HIDE DEF T, R
<1>5. PICK x \in T : \A y \in T : ~(<<y, x>> \in R)
  BY <1>1, <1>3, WFMin
<1>6. ASSUME NEW t \in SUBSET x, t # x, t \notin A
      PROVE  FALSE
  <2>1. x \in SUBSET S /\ t \in SUBSET S
    BY <1>4, <1>6
  <2>2. t \in T /\ <<t, x>> \in R
    BY <1>2, <1>4, <1>6, <2>1
  <2> QED
    BY <1>5, <2>2
<1> QED
  BY <1>4, <1>6

\* A finite set of identifiers can be put in order, by induction on it.
LEMMA SortedExists ==
  ASSUME NEW S \in SUBSET Nat, IsFiniteSet(S)
  PROVE  \E s \in [1..Cardinality(S) -> S] : Increasing(s)
<1> DEFINE A == {T \in SUBSET S : \E s \in [1..Cardinality(T) -> T] : Increasing(s)}
<1>1. ASSUME NEW T \in SUBSET S, \A t \in SUBSET T : t # T => t \in A
      PROVE  T \in A
  <2>1. CASE T = {}
    <3>1. Cardinality(T) = 0
      BY <2>1, FS_EmptySet
    <3>2. [i \in 1..0 |-> 0] \in [1..0 -> T] /\ Increasing([i \in 1..0 |-> 0])
      BY DEF Increasing
    <3> QED
      BY <3>1, <3>2
  <2>2. CASE T # {}
    <3>1. PICK m \in T : \A k \in T : m <= k
      BY <2>2, LeastExists
    <3> DEFINE t == T \ {m}
               n == Cardinality(t)
    <3>2. IsFiniteSet(T) /\ IsFiniteSet(t) /\ n \in Nat /\ Cardinality(T) = n + 1
      <4>1. IsFiniteSet(T) /\ IsFiniteSet(t)
        BY FS_Subset
      <4>2. n \in Nat /\ Cardinality(T) \in Nat
        BY <4>1, FS_CardinalityType
      <4>3. n = Cardinality(T) - 1
        BY <3>1, <4>1, FS_RemoveElement
      <4> HIDE DEF n
      <4> QED
        BY <4>1, <4>2, <4>3
    <3>3. t \in A
      BY <1>1
    <3>4. PICK s \in [1..n -> t] : Increasing(s)
      BY <3>3
    <3> DEFINE r == [i \in 1..(n + 1) |-> IF i = 1 THEN m ELSE s[i - 1]]
    <3> HIDE DEF n
    <3>5. \A i \in 1..n : s[i] \in T /\ m < s[i]
      <4> SUFFICES ASSUME NEW i \in 1..n PROVE s[i] \in T /\ m < s[i]
        OBVIOUS
      <4>1. s[i] \in t
        BY <3>4
      <4>2. s[i] \in T /\ s[i] # m /\ s[i] \in Nat /\ m \in Nat
        BY <4>1
      <4> QED
        BY <3>1, <4>2
    <3>6. \A i \in 1..(n + 1) : i # 1 => i - 1 \in 1..n
      BY <3>2
    <3>7. r \in [1..(n + 1) -> T]
      BY <3>5, <3>6
    <3>8. Increasing(r)
      <4> SUFFICES ASSUME NEW i \in 1..(n + 1), NEW j \in 1..(n + 1), i < j
                   PROVE  r[i] < r[j]
        BY DEF Increasing
      <4>1. j # 1 /\ j - 1 \in 1..n /\ r[j] = s[j - 1]
        BY <3>2
      <4>2. CASE i = 1
        BY <3>5, <4>1, <4>2
      <4>3. CASE i # 1
        <5>1. i - 1 \in 1..n /\ r[i] = s[i - 1] /\ i - 1 < j - 1
          BY <3>2, <4>3
        <5> QED
          BY <3>4, <4>1, <5>1 DEF Increasing
      <4> QED
        BY <4>2, <4>3
    <3> HIDE DEF r
    <3> QED
      BY <3>2, <3>7, <3>8
  <2> QED
    BY <2>1, <2>2
<1> HIDE DEF A
<1>2. S \in A
  BY <1>1, SubsetInduction
<1> QED
  BY <1>2 DEF A

\* Sorted(S) is such an enumeration: as long as S has elements.
LEMMA SortedLen ==
  ASSUME NEW S \in SUBSET Nat, IsFiniteSet(S)
  PROVE  /\ Sorted(S) \in [1..Cardinality(S) -> S]
         /\ Increasing(Sorted(S))
         /\ Cardinality(S) \in Nat /\ Len(Sorted(S)) = Cardinality(S)
<1>1. \E s \in [1..Cardinality(S) -> S] : \A i, j \in DOMAIN s : i < j => s[i] < s[j]
  BY SortedExists DEF Increasing
<1>2. Sorted(S) \in [1..Cardinality(S) -> S] /\ Increasing(Sorted(S))
  BY <1>1 DEF Sorted, Increasing
<1>3. Cardinality(S) \in Nat
  BY FS_CardinalityType
<1> QED
  BY <1>2, <1>3

-----------------------------------------------------------------------------
(* Sequences.                                                              *)

IsSequence(s) == Len(s) \in Nat /\ s = [i \in 1..Len(s) |-> s[i]]
Elements(s) == {s[i] : i \in 1..Len(s)}

\* What the elements of a sequence are in.
LEMMA SequenceIn ==
  ASSUME NEW s, IsSequence(s), NEW T, \A i \in 1..Len(s) : s[i] \in T
  PROVE  s \in Seq(T)
<1> DEFINE n == Len(s)
           g == [i \in 1..n |-> s[i]]
<1>1. n \in Nat /\ s = g
  BY DEF IsSequence
<1>2. g \in Seq(T)
  BY <1>1
<1> HIDE DEF g, n
<1> QED
  BY <1>1, <1>2

LEMMA InSequence ==
  ASSUME NEW T, NEW s \in Seq(T)
  PROVE  /\ IsSequence(s) /\ \A i \in 1..Len(s) : s[i] \in T
         /\ Elements(s) \subseteq T
BY DEF IsSequence, Elements

LEMMA SequenceDomain ==
  ASSUME NEW s, IsSequence(s)
  PROVE  Len(s) \in Nat /\ DOMAIN s = 1..Len(s)
BY DEF IsSequence

\* A function on 1..n is a sequence of length n.
LEMMA FunctionIsSequence ==
  ASSUME NEW n \in Nat, NEW f, f = [i \in 1..n |-> f[i]]
  PROVE  IsSequence(f) /\ Len(f) = n
<1> DEFINE T == {f[i] : i \in 1..n}
           g == [i \in 1..n |-> f[i]]
<1>1. g \in Seq(T) /\ Len(g) = n
  OBVIOUS
<1>2. f = g
  OBVIOUS
<1> HIDE DEF g
<1>3. Len(f) = n
  BY <1>1, <1>2
<1> QED
  BY <1>3 DEF IsSequence

LEMMA SameSequence ==
  ASSUME NEW s, NEW t, IsSequence(s), IsSequence(t), Len(s) = Len(t),
         \A i \in 1..Len(s) : s[i] = t[i]
  PROVE  s = t
BY DEF IsSequence

\* Length and elements of a concatenation.
LEMMA Concatenation ==
  ASSUME NEW s, NEW t, IsSequence(s), IsSequence(t)
  PROVE  /\ IsSequence(s \o t) /\ Len(s \o t) = Len(s) + Len(t)
         /\ \A i \in 1..Len(s) : (s \o t)[i] = s[i]
         /\ \A i \in 1..Len(t) : (s \o t)[Len(s) + i] = t[i]
         /\ Elements(s \o t) = Elements(s) \cup Elements(t)
<1> DEFINE T == Elements(s) \cup Elements(t)
           u == s \o t
<1>1. s \in Seq(T) /\ t \in Seq(T)
  <2>1. (\A i \in 1..Len(s) : s[i] \in T) /\ (\A i \in 1..Len(t) : t[i] \in T)
    BY DEF Elements
  <2> HIDE DEF T
  <2> QED
    BY <2>1, SequenceIn
<1> HIDE DEF T
<1>2. /\ u \in Seq(T) /\ Len(u) = Len(s) + Len(t)
      /\ \A i \in 1..Len(u) : u[i] = IF i <= Len(s) THEN s[i] ELSE t[i - Len(s)]
  BY <1>1
<1> HIDE DEF u
<1>3. Len(s) \in Nat /\ Len(t) \in Nat
  BY DEF IsSequence
<1>4. IsSequence(u)
  BY <1>2, InSequence
<1>5. \A i \in 1..Len(s) : u[i] = s[i]
  BY <1>2, <1>3
<1>6. \A i \in 1..Len(t) : u[Len(s) + i] = t[i]
  BY <1>2, <1>3
<1>7. Elements(u) = Elements(s) \cup Elements(t)
  <2>1. \A i \in 1..Len(s) : i \in 1..Len(u)
    BY <1>2, <1>3
  <2>2. \A i \in 1..Len(t) : Len(s) + i \in 1..Len(u)
    BY <1>2, <1>3
  <2>3. Elements(s) \cup Elements(t) \subseteq Elements(u)
    BY <1>5, <1>6, <2>1, <2>2 DEF Elements
  <2>4. \A i \in 1..Len(u) : i \in 1..Len(s) \/ (i - Len(s) \in 1..Len(t) /\ ~(i <= Len(s)))
    BY <1>2, <1>3
  <2>5. \A i \in 1..Len(u) : u[i] \in Elements(s) \cup Elements(t)
    BY <1>2, <1>5, <2>4 DEF Elements
  <2>6. Elements(u) \subseteq Elements(s) \cup Elements(t)
    BY <2>5 DEF Elements
  <2> QED
    BY <2>3, <2>6
<1> QED
  BY <1>2, <1>4, <1>5, <1>6, <1>7 DEF u

LEMMA OneElement ==
  ASSUME NEW x
  PROVE  IsSequence(<<x>>) /\ Len(<<x>>) = 1 /\ <<x>>[1] = x /\ Elements(<<x>>) = {x}
BY DEF IsSequence, Elements

LEMMA Empty == IsSequence(<<>>) /\ Len(<<>>) = 0 /\ Elements(<<>>) = {} /\ DOMAIN <<>> = 1..0
BY DEF IsSequence, Elements

LEMMA EmptyIs ==
  ASSUME NEW s, IsSequence(s)
  PROVE  s = <<>> <=> Len(s) = 0
BY Empty, SameSequence

LEMMA AppendIsConcat ==
  ASSUME NEW s, IsSequence(s), NEW x
  PROVE  Append(s, x) = s \o <<x>>
<1> DEFINE T == Elements(s) \cup {x}
<1>1. \A i \in 1..Len(s) : s[i] \in T
  BY DEF Elements
<1>2. x \in T
  OBVIOUS
<1> HIDE DEF T
<1>3. s \in Seq(T)
  BY <1>1, SequenceIn
<1> QED
  BY <1>2, <1>3

\* A sequence without its last element.
LEMMA FrontLast ==
  ASSUME NEW q, IsSequence(q), q # <<>>
  PROVE  /\ IsSequence(Front(q)) /\ Len(Front(q)) = Len(q) - 1
         /\ \A i \in 1..(Len(q) - 1) : Front(q)[i] = q[i]
         /\ Last(q) = q[Len(q)] /\ Len(q) \in Nat \ {0}
         /\ Elements(q) = Elements(Front(q)) \cup {Last(q)}
<1> DEFINE T == Elements(q)
           n == Len(q)
           r == Front(q)
<1>1. n \in Nat \ {0}
  BY EmptyIs DEF IsSequence
<1>2. q \in Seq(T)
  <2>1. \A i \in 1..Len(q) : q[i] \in T
    BY DEF Elements
  <2> HIDE DEF T
  <2> QED
    BY <2>1, SequenceIn
<1> HIDE DEF T
<1>3. r \in Seq(T) /\ Len(r) = n - 1 /\ \A i \in 1..(n - 1) : r[i] = q[i]
  <2>1. \A m \in 0..Len(q) : /\ SubSeq(q, 1, m) \in Seq(T) /\ Len(SubSeq(q, 1, m)) = m
                            /\ \A i \in 1..m : SubSeq(q, 1, m)[i] = q[i]
    BY <1>2
  <2> QED
    BY <1>1, <2>1 DEF Front
<1>4. IsSequence(r) /\ Elements(r) = {r[i] : i \in 1..(n - 1)}
  BY <1>3, InSequence DEF Elements
<1> HIDE DEF r
<1>5. Elements(r) = {q[i] : i \in 1..(n - 1)}
  BY <1>3, <1>4
<1>6. Elements(q) = {q[i] : i \in 1..(n - 1)} \cup {q[n]}
  BY <1>1 DEF Elements
<1> QED
  BY <1>1, <1>3, <1>4, <1>5, <1>6 DEF r, Last

\* A sequence without its first.
LEMMA HeadTail ==
  ASSUME NEW q, IsSequence(q), q # <<>>
  PROVE  /\ IsSequence(Tail(q)) /\ Len(Tail(q)) = Len(q) - 1 /\ Len(q) \in Nat \ {0}
         /\ \A i \in 1..(Len(q) - 1) : Tail(q)[i] = q[i + 1]
         /\ Head(q) = q[1]
         /\ Elements(q) = Elements(Tail(q)) \cup {Head(q)}
<1> DEFINE T == Elements(q)
           n == Len(q)
           r == Tail(q)
<1>1. n \in Nat \ {0}
  BY EmptyIs DEF IsSequence
<1>2. q \in Seq(T)
  <2>1. \A i \in 1..Len(q) : q[i] \in T
    BY DEF Elements
  <2> HIDE DEF T
  <2> QED
    BY <2>1, SequenceIn
<1> HIDE DEF T
<1>3. r \in Seq(T) /\ Len(r) = n - 1 /\ \A i \in 1..(n - 1) : r[i] = q[i + 1]
  BY <1>1, <1>2
<1>4. IsSequence(r) /\ Elements(r) = {r[i] : i \in 1..(n - 1)}
  BY <1>3, InSequence DEF Elements
<1>5. Head(q) = q[1]
  BY <1>1, <1>2
<1> HIDE DEF r
<1>6. Elements(r) = {q[i + 1] : i \in 1..(n - 1)}
  BY <1>3, <1>4
<1>7. Elements(q) = {q[i + 1] : i \in 1..(n - 1)} \cup {q[1]}
  <2>1. \A i \in 1..n : i = 1 \/ (i - 1 \in 1..(n - 1) /\ i = (i - 1) + 1)
    BY <1>1
  <2>2. \A i \in 1..(n - 1) : i + 1 \in 1..n
    BY <1>1
  <2>3. 1 \in 1..n
    BY <1>1
  <2> QED
    BY <2>1, <2>2, <2>3 DEF Elements
<1> QED
  BY <1>1, <1>3, <1>4, <1>5, <1>6, <1>7 DEF r

\* The queue after its last entry made room for new ones.
LEMMA QueueStep ==
  ASSUME NEW q, IsSequence(q), q # <<>>, NEW new, IsSequence(new)
  PROVE  /\ IsSequence(Front(q) \o new)
         /\ Elements(Front(q) \o new) = Elements(Front(q)) \cup Elements(new)
         /\ Elements(q) = Elements(Front(q)) \cup {Last(q)}
         /\ Last(q) \in Elements(q)
BY FrontLast, Concatenation

-----------------------------------------------------------------------------
(* Programs and traversals.                                                *)

Stmts == DOMAIN program.statements
Targets(at) == {Statement(at).branches[n].target : n \in DOMAIN Statement(at).branches}
Closed(C) == \A at \in C : Targets(at) \subseteq C

\* The statements of C are in every set that contains the entry and what it leads to.
Least(C) == \A D \in SUBSET Stmts : function.entry \in D /\ Closed(D) => C \subseteq D

Waiting == {e.at : e \in Elements(queue)}
Reached == visited \cup Waiting

IsState(state) == DOMAIN state \in SUBSET Nat /\ IsFiniteSet(DOMAIN state)

\* What both traversals keep.
Traversal ==
  /\ IsSequence(queue)
  /\ \A e \in Elements(queue) : IsState(e.state)
  /\ Reached \subseteq Stmts
  /\ function.entry \in Reached
  /\ \A at \in visited : Targets(at) \subseteq Reached

Counted == \A at \in DOMAIN preds : preds[at].vars \in SUBSET Nat /\ IsFiniteSet(preds[at].vars)

StructureInv ==
  /\ Traversal /\ Counted
  /\ DOMAIN preds = Reached /\ Least(Reached)

ProgramInv == program \in Programs
Compiling == todo # <<>> /\ Head(todo) \in DOMAIN program.functions

\* What the registry and the validation of a program leave of a statement.
LEMMA StatementFacts ==
  ASSUME ProgramInv, NEW at \in Stmts
  PROVE  /\ IsSequence(Statement(at).args) /\ Elements(Statement(at).args) \subseteq Nat
         /\ IsSequence(Statement(at).branches)
         /\ \A n \in DOMAIN Statement(at).branches :
              /\ Statement(at).branches[n].target \in Stmts
              /\ IsSequence(Statement(at).branches[n].results)
              /\ Elements(Statement(at).branches[n].results) \subseteq Nat
         /\ Targets(at) \subseteq Stmts
         /\ IsReturn(at) => Targets(at) = {} /\ ~IsCall(at)
         /\ IsCall(at) => /\ Len(Statement(at).branches) = 1
                          /\ Len(Statement(at).args) = Len(program.functions[Statement(at).fn].params)
         /\ at \in Nat \ {0}
<1>1. IsProgram(program)
  BY ProgramsAssumption DEF ProgramInv
<1> DEFINE st == Statement(at)
<1>2. st = program.statements[at] /\ program.statements \in Seq(Range(program.statements))
  BY <1>1 DEF IsProgram, Statement
<1>3. /\ st.args \in Seq(Nat)
      /\ st.branches \in Seq([target : Stmts, results : Seq(Nat)])
      /\ st.fn = "return" => st.branches = <<>>
      /\ st.fn \in DOMAIN program.functions =>
           Len(st.branches) = 1 /\ Len(st.args) = Len(program.functions[st.fn].params)
      /\ "return" \notin DOMAIN program.functions
  BY <1>1, <1>2 DEF IsProgram, Stmts
<1>4. at \in Nat \ {0}
  BY <1>2 DEF Stmts
<1>5. IsReturn(at) = (st.fn = "return") /\ IsCall(at) = (st.fn \in DOMAIN program.functions)
  BY DEF IsReturn, IsCall
<1>6. Targets(at) = {st.branches[n].target : n \in DOMAIN st.branches}
  BY DEF Targets
<1> HIDE DEF st
<1>7. IsSequence(st.args) /\ Elements(st.args) \subseteq Nat
  BY <1>3, InSequence
<1>8. IsSequence(st.branches) /\ DOMAIN st.branches = 1..Len(st.branches)
  BY <1>3, InSequence, SequenceDomain
<1>9. ASSUME NEW n \in DOMAIN st.branches
      PROVE  /\ st.branches[n].target \in Stmts
             /\ IsSequence(st.branches[n].results)
             /\ Elements(st.branches[n].results) \subseteq Nat
  <2>1. st.branches[n] \in [target : Stmts, results : Seq(Nat)]
    BY <1>3, <1>8, <1>9, InSequence
  <2>2. st.branches[n].target \in Stmts /\ st.branches[n].results \in Seq(Nat)
    BY <2>1
  <2> QED
    BY <2>2, InSequence
<1>10. st.branches = <<>> => DOMAIN st.branches = {}
  OBVIOUS
<1> QED
  BY <1>3, <1>4, <1>5, <1>6, <1>7, <1>8, <1>9, <1>10 DEF st

\* And of a function.
LEMMA FunctionFacts ==
  ASSUME ProgramInv, NEW f \in DOMAIN program.functions
  PROVE  /\ program.functions[f].entry \in Stmts
         /\ IsSequence(program.functions[f].params) /\ Elements(program.functions[f].params) \subseteq Nat
         /\ IsSequence(program.functions[f].rets)
         /\ Elements(program.functions[f].rets) \subseteq {"register", "memory", "unit"}
<1>1. IsProgram(program)
  BY ProgramsAssumption DEF ProgramInv
<1>2. /\ program.functions[f].entry \in Stmts
      /\ program.functions[f].params \in Seq(Nat)
      /\ program.functions[f].rets \in Seq({"register", "memory", "unit"})
  BY <1>1 DEF IsProgram, Stmts
<1> QED
  BY <1>2, InSequence

\* The range of a sequence is finite.
LEMMA RangeElements ==
  ASSUME NEW s, IsSequence(s)
  PROVE  Range(s) = Elements(s) /\ IsFiniteSet(Range(s))
<1>1. Range(s) = Elements(s)
  BY SequenceDomain DEF Range, Elements
<1> DEFINE D == 1..Len(s)
<1>2. Len(s) \in Nat /\ IsFiniteSet(D)
  BY SequenceDomain, FS_Interval
<1>3. IsFiniteSet({s[i] : i \in D})
  <2> DEFINE T == {s[i] : i \in D}
  <2>1. s \in Surjection(D, T)
    <3>1. s \in [D -> T]
      BY DEF IsSequence
    <3> QED
      BY <3>1 DEF Surjection
  <2> QED
    BY <1>2, <2>1, FS_Surjection
<1> QED
  BY <1>1, <1>3 DEF Elements

\* The variables alive after a branch.
LEMMA AliveAfter ==
  ASSUME NEW state, IsState(state), NEW args, NEW results, IsSequence(results), Elements(results) \subseteq Nat,
         NEW D, D = (DOMAIN state \ Range(args)) \cup Range(results)
  PROVE  D \in SUBSET Nat /\ IsFiniteSet(D)
<1>1. Range(results) \subseteq Nat /\ IsFiniteSet(Range(results))
  BY RangeElements
<1>2. IsFiniteSet(DOMAIN state \ Range(args)) /\ DOMAIN state \in SUBSET Nat
  BY FS_Subset DEF IsState
<1> QED
  BY <1>1, <1>2, FS_Union

-----------------------------------------------------------------------------
(* One step of a traversal.                                                *)

\* The queue after a statement is taken from it and others are put on it.
LEMMA Visited ==
  ASSUME Traversal, queue # <<>>, NEW new, IsSequence(new),
         queue' = Front(queue) \o new, visited' = visited \cup {current.at},
         UNCHANGED <<program, todo>>,
         {e.at : e \in Elements(new)} = Targets(current.at),
         Targets(current.at) \subseteq Stmts,
         \A e \in Elements(new) : IsState(e.state)
  PROVE  /\ Traversal'
         /\ Reached' = Reached \cup Targets(current.at)
         /\ current.at \in Reached /\ current.at \in Waiting
<1>1. /\ IsSequence(queue') /\ Elements(queue') = Elements(Front(queue)) \cup Elements(new)
      /\ Elements(queue) = Elements(Front(queue)) \cup {current} /\ current \in Elements(queue)
  BY QueueStep DEF Traversal, current
<1>2. Waiting' = {e.at : e \in Elements(Front(queue))} \cup Targets(current.at)
  BY <1>1 DEF Waiting
<1>3. Waiting = {e.at : e \in Elements(Front(queue))} \cup {current.at}
  BY <1>1 DEF Waiting
<1>4. Reached' = Reached \cup Targets(current.at)
  BY <1>2, <1>3 DEF Reached
<1>5. current.at \in Reached /\ current.at \in Waiting
  BY <1>3 DEF Reached
<1>6. \A e \in Elements(queue') : IsState(e.state)
  BY <1>1 DEF Traversal
<1>7. Reached' \subseteq Stmts' /\ (function.entry)' \in Reached'
  BY <1>4 DEF Traversal, Stmts, function, fn
<1>8. \A at \in visited' : (Targets(at))' \subseteq Reached'
  <2>1. \A at : (Targets(at))' = Targets(at)
    BY DEF Targets, Statement
  <2> QED
    BY <1>4, <2>1 DEF Traversal
<1> QED
  BY <1>1, <1>4, <1>5, <1>6, <1>7, <1>8 DEF Traversal, IsState

\* A statement met again.
LEMMA Skipped ==
  ASSUME Traversal, queue # <<>>, queue' = Front(queue), current.at \in visited,
         UNCHANGED <<program, todo, visited>>
  PROVE  Traversal' /\ Reached' = Reached
<1>1. /\ IsSequence(queue') /\ Elements(queue) = Elements(queue') \cup {current}
  BY FrontLast DEF Traversal, current
<1>2. Waiting = Waiting' \cup {current.at}
  BY <1>1 DEF Waiting
<1>3. Reached' = Reached
  BY <1>2 DEF Reached
<1>4. \A at : (Targets(at))' = Targets(at)
  BY DEF Targets, Statement
<1> QED
  BY <1>1, <1>3, <1>4 DEF Traversal, Stmts, function, fn, IsState

\* What is reached stays the least set that holds the entry and is closed under branches.
LEMMA LeastStep ==
  ASSUME Least(Reached), NEW at \in Reached, Reached' = Reached \cup Targets(at),
         UNCHANGED <<program, todo>>
  PROVE  (Least(Reached))'
<1>1. \A C : (Closed(C))' = Closed(C)
  BY DEF Closed, Targets, Statement
<1> QED
  BY <1>1 DEF Least, Closed, Stmts, function, fn

-----------------------------------------------------------------------------
(* The first traversal: predecessors.                                      *)

\* The entries that a statement puts on the queue are its targets.
LEMMA Successors ==
  ASSUME ProgramInv, NEW at \in Stmts, NEW state, IsState(state), NEW new,
         new = [n \in DOMAIN Statement(at).branches |-> new[n]],
         \A n \in DOMAIN Statement(at).branches :
           /\ new[n].at = Statement(at).branches[n].target
           /\ DOMAIN new[n].state
                = (DOMAIN state \ Range(Statement(at).args)) \cup Range(Statement(at).branches[n].results)
  PROVE  /\ IsSequence(new) /\ {e.at : e \in Elements(new)} = Targets(at)
         /\ \A e \in Elements(new) : IsState(e.state)
<1> DEFINE bs == Statement(at).branches
<1>1. IsSequence(bs) /\ DOMAIN bs = 1..Len(bs) /\ Len(bs) \in Nat
  BY StatementFacts, SequenceDomain
<1>2. \A n \in DOMAIN bs : IsSequence(bs[n].results) /\ Elements(bs[n].results) \subseteq Nat
  BY StatementFacts
<1>3. new = [n \in 1..Len(bs) |-> new[n]]
  BY <1>1
<1>4. IsSequence(new) /\ Len(new) = Len(bs)
  BY <1>1, <1>3, FunctionIsSequence
<1>5. Elements(new) = {new[n] : n \in DOMAIN bs}
  BY <1>1, <1>4 DEF Elements
<1>6. {e.at : e \in Elements(new)} = Targets(at)
  <2>1. \A n \in DOMAIN bs : new[n].at = bs[n].target
    OBVIOUS
  <2>2. Targets(at) = {bs[n].target : n \in DOMAIN bs}
    BY DEF Targets
  <2> DEFINE N == DOMAIN bs
             found(n) == new[n].at
             E == Elements(new)
  <2>3. Targets(at) = {found(n) : n \in N}
    BY <2>1, <2>2
  <2>4. E = {new[n] : n \in N}
    BY <1>5
  <2> HIDE DEF bs, N, E
  <2>5. {e.at : e \in E} = {found(n) : n \in N}
    BY <2>4, Zenon
  <2> QED
    BY <2>3, <2>5 DEF E
<1>7. ASSUME NEW n \in DOMAIN bs PROVE IsState(new[n].state)
  <2>1. DOMAIN new[n].state = (DOMAIN state \ Range(Statement(at).args)) \cup Range(bs[n].results)
    OBVIOUS
  <2> DEFINE A == Statement(at).args
             r == bs[n].results
             after == DOMAIN new[n].state
  <2>2. IsSequence(r) /\ Elements(r) \subseteq Nat
    BY <1>2
  <2> HIDE DEF A, r, after
  <2>3. after = (DOMAIN state \ Range(A)) \cup Range(r)
    BY <2>1 DEF A, r, after
  <2>4. after \in SUBSET Nat /\ IsFiniteSet(after)
    BY <2>2, <2>3, AliveAfter
  <2> QED
    BY <2>4 DEF after, IsState
<1> QED
  BY <1>4, <1>5, <1>6, <1>7

\* The first branch that finds a statement is one of those that do.
LEMMA FirstBranch ==
  ASSUME NEW S, NEW n \in S, S \subseteq Nat
  PROVE  Min(S) \in S
<1>1. \E m \in S : \A k \in S : m <= k
  BY LeastExists
<1> QED
  BY <1>1 DEF Min

\* Counting the branches of a statement adds its targets to the predecessors.
LEMMA CountedBranches ==
  ASSUME ProgramInv, NEW at \in Stmts, NEW state, IsState(state), NEW known,
         \A p \in DOMAIN known : known[p].vars \in SUBSET Nat /\ IsFiniteSet(known[p].vars),
         NEW all, all = CountBranches(known, state, Statement(at))
  PROVE  /\ DOMAIN all = DOMAIN known \cup Targets(at)
         /\ \A p \in DOMAIN all : all[p].vars \in SUBSET Nat /\ IsFiniteSet(all[p].vars)
         /\ \A p \in DOMAIN known : all[p].vars = known[p].vars
<1> DEFINE st == Statement(at)
           to(p) == {n \in DOMAIN st.branches : st.branches[n].target = p}
           live(n) == DOMAIN AfterBranch(state, st.args, st.branches[n])
<1>1. all = [p \in DOMAIN known \cup {st.branches[n].target : n \in DOMAIN st.branches} |->
               IF p \in DOMAIN known
               THEN [vars |-> known[p].vars, count |-> known[p].count + Cardinality(to(p))]
               ELSE [vars |-> live(Min(to(p))), count |-> Cardinality(to(p))]]
  BY DEF CountBranches
<1>2. DOMAIN all = DOMAIN known \cup Targets(at)
  BY <1>1 DEF Targets
<1>3. \A p \in DOMAIN known : all[p].vars = known[p].vars
  BY <1>1
<1>4. ASSUME NEW n \in DOMAIN st.branches
      PROVE  live(n) \in SUBSET Nat /\ IsFiniteSet(live(n))
  <2>1. IsSequence(st.branches[n].results) /\ Elements(st.branches[n].results) \subseteq Nat
    BY StatementFacts
  <2>2. live(n) = (DOMAIN state \ Range(st.args)) \cup Range(st.branches[n].results)
    BY DEF AfterBranch
  <2> HIDE DEF st, live
  <2> QED
    BY <2>1, <2>2, AliveAfter
<1>5. ASSUME NEW p \in Targets(at), p \notin DOMAIN known
      PROVE  all[p].vars \in SUBSET Nat /\ IsFiniteSet(all[p].vars)
  <2>1. PICK n \in DOMAIN st.branches : st.branches[n].target = p
    BY DEF Targets
  <2>2. n \in to(p) /\ to(p) \subseteq DOMAIN st.branches /\ DOMAIN st.branches \subseteq Nat
    BY <2>1, StatementFacts, SequenceDomain
  <2> HIDE DEF to, live
  <2>3. Min(to(p)) \in DOMAIN st.branches
    BY <2>2, FirstBranch
  <2>4. all[p].vars = live(Min(to(p)))
    BY <1>1, <1>5 DEF Targets
  <2> QED
    BY <1>4, <2>3, <2>4
<1> QED
  BY <1>2, <1>3, <1>5

\* A statement is visited for the first time.
LEMMA VisitStructureStep ==
  ASSUME ProgramInv, StructureInv, VisitStructure, UNCHANGED program
  PROVE  StructureInv'
<1> DEFINE at == current.at
           st == Statement(at)
           new == [n \in DOMAIN st.branches |->
                     [at |-> st.branches[n].target,
                      state |-> AfterBranch(current.state, st.args, st.branches[n])]]
<1>1. /\ queue # <<>> /\ queue' = Front(queue) \o new /\ visited' = visited \cup {at}
      /\ preds' = CountBranches(preds, current.state, st) /\ UNCHANGED <<program, todo>>
  BY DEF VisitStructure, Visiting
<1>2. at \in Stmts /\ at \in Reached /\ IsState(current.state)
  <2>1. current \in Elements(queue)
    BY <1>1, QueueStep, Empty DEF StructureInv, Traversal, current
  <2> QED
    BY <2>1 DEF StructureInv, Traversal, Reached, Waiting
<1>3. \A n \in DOMAIN st.branches :
        DOMAIN new[n].state
          = (DOMAIN current.state \ Range(st.args)) \cup Range(st.branches[n].results)
  BY DEF AfterBranch
<1>4. /\ IsSequence(new) /\ {e.at : e \in Elements(new)} = Targets(at)
      /\ \A e \in Elements(new) : IsState(e.state)
  <2>1. new = [n \in DOMAIN st.branches |-> new[n]]
    OBVIOUS
  <2>2. \A n \in DOMAIN st.branches : new[n].at = st.branches[n].target
    OBVIOUS
  <2> DEFINE state == current.state
  <2>3. IsState(state) /\ at \in Stmts
    BY <1>2
  <2>4. \A n \in DOMAIN Statement(at).branches :
          /\ new[n].at = Statement(at).branches[n].target
          /\ DOMAIN new[n].state
               = (DOMAIN state \ Range(Statement(at).args)) \cup Range(Statement(at).branches[n].results)
    BY <1>3, <2>2
  <2>5. new = [n \in DOMAIN Statement(at).branches |-> new[n]]
    BY <2>1
  <2> HIDE DEF new, at, state, st
  <2> QED
    BY <2>3, <2>4, <2>5, Successors
<1>5. Targets(at) \subseteq Stmts
  BY <1>2, StatementFacts
<1> HIDE DEF new, st
<1>6. Traversal' /\ Reached' = Reached \cup Targets(at)
  BY <1>1, <1>4, <1>5, Visited DEF StructureInv
<1>7. (Least(Reached))'
  BY <1>1, <1>2, <1>6, LeastStep DEF StructureInv
<1>8. DOMAIN preds' = Reached' /\ Counted'
  <2>1. /\ DOMAIN preds' = DOMAIN preds \cup Targets(at)
        /\ \A p \in DOMAIN preds' : preds'[p].vars \in SUBSET Nat /\ IsFiniteSet(preds'[p].vars)
    <3>1. \A p \in DOMAIN preds : preds[p].vars \in SUBSET Nat /\ IsFiniteSet(preds[p].vars)
      BY DEF StructureInv, Counted
    <3>2. preds' = CountBranches(preds, current.state, Statement(at))
      BY <1>1 DEF st
    <3> DEFINE state == current.state
    <3>3. IsState(state) /\ preds' = CountBranches(preds, state, Statement(at))
      BY <1>2, <3>2
    <3> HIDE DEF at, state
    <3> QED
      BY <1>2, <3>1, <3>3, CountedBranches
  <2> QED
    BY <1>6, <2>1 DEF StructureInv, Counted
<1> QED
  BY <1>6, <1>7, <1>8 DEF StructureInv

\* A statement met again changes nothing.
LEMMA SkipStructureStep ==
  ASSUME StructureInv, pass = "structure", SkipVisited, UNCHANGED program
  PROVE  StructureInv'
<1>1. Traversal' /\ Reached' = Reached
  BY Skipped DEF SkipVisited, StructureInv
<1>2. UNCHANGED <<program, todo, preds>>
  BY DEF SkipVisited
<1>3. (Least(Reached))'
  <2>1. \A C : (Closed(C))' = Closed(C)
    BY <1>2 DEF Closed, Targets, Statement
  <2> QED
    BY <1>1, <1>2, <2>1 DEF StructureInv, Least, Stmts, function, fn
<1> QED
  BY <1>1, <1>2, <1>3 DEF StructureInv, Counted

\* A function's compilation begins at its entry.
Begins ==
  /\ ProgramInv /\ fn \in DOMAIN program.functions
  /\ visited = {} /\ queue = FirstVisit(fn) /\ preds = FirstPreds(fn)

LEMMA FirstStep == Begins => StructureInv
<1> SUFFICES ASSUME Begins PROVE StructureInv
  OBVIOUS
<1> USE DEF Begins
<1> DEFINE fun == program.functions[fn]
           e == [at |-> fun.entry, state |-> [v \in Range(fun.params) |-> Nothing]]
<1>1. /\ fun.entry \in Stmts
      /\ Range(fun.params) \subseteq Nat /\ IsFiniteSet(Range(fun.params))
  BY FunctionFacts, RangeElements
<1>2. queue = <<e>>
  BY DEF FirstVisit
<1>3. DOMAIN e.state = Range(fun.params) /\ e.at = fun.entry
  OBVIOUS
<1>4. function = fun
  BY DEF function
<1>5. DOMAIN preds = {fun.entry} /\ preds[fun.entry].vars = Range(fun.params)
  BY DEF FirstPreds
<1> HIDE DEF e, fun
<1>6. IsSequence(queue) /\ Elements(queue) = {e}
  BY <1>2, OneElement
<1>7. Waiting = {fun.entry} /\ Reached = {fun.entry}
  BY <1>3, <1>6 DEF Waiting, Reached
<1>8. IsState(e.state)
  BY <1>1, <1>3 DEF IsState
<1>9. Traversal
  BY <1>1, <1>4, <1>6, <1>7, <1>8 DEF Traversal
<1>10. Counted
  BY <1>1, <1>5 DEF Counted
<1> QED
  BY <1>4, <1>5, <1>7, <1>9, <1>10 DEF StructureInv, Least


-----------------------------------------------------------------------------
(* The second traversal: blocks.                                           *)

\* The jumps of a terminator fit the blocks they lead to.
Fits(R, end) ==
  \A jump \in JumpsOf(end) : jump.to \in DOMAIN R /\ Len(jump.with) = R[jump.to].params

\* What a return at a positive depth hands over is not what the tail call gives.
Misfit(f) ==
  has_return_ptr(f) # "registers" \/ "unit" \in Range(program.functions[f].rets)

\* The blocks of a region, and what they declare.
Shape(R) ==
  /\ pre_entry_block \in DOMAIN R
  /\ entry_block \in DOMAIN R /\ R[entry_block].params = Len(function.params)
  /\ \A at \in DOMAIN preds :
       /\ libfunc_block(at) \in DOMAIN R
       /\ R[libfunc_block(at)].params = Len(Statement(at).args)
       /\ HasLanding(at) => /\ landing_block(at) \in DOMAIN R
                            /\ R[landing_block(at)].params = Cardinality(preds[at].vars)
       /\ cont_block(at) \in DOMAIN R => R[cont_block(at)].params = Len(function.rets)
  /\ \A b \in DOMAIN R :
       /\ DOMAIN R[b] = {"params", "ends"}
       /\ \/ b \in {pre_entry_block, entry_block}
          \/ \E at \in DOMAIN preds : \/ b \in {libfunc_block(at), cont_block(at)}
                                      \/ b = landing_block(at) /\ HasLanding(at)

\* The terminators of a region fit; back is the tail call whose return block is known.
Jumps(R, back) ==
  \A b \in DOMAIN R :
    /\ IsSequence(R[b].ends)
    /\ \A end \in Elements(R[b].ends) : Fits(R, end) \/ (back # 0 /\ Misfit(fn))

\* How many there are, once the statements of seen are compiled.
Counts(R, seen) ==
  /\ Len(R[pre_entry_block].ends) = 1 /\ Len(R[entry_block].ends) = 1
  /\ \A at \in DOMAIN preds :
       /\ cont_block(at) \in DOMAIN R => Len(R[cont_block(at)].ends) = 1
       /\ Len(R[libfunc_block(at)].ends) = IF at \in seen THEN 1 ELSE 0
       /\ HasLanding(at) =>
            IF IsReturn(at) /\ is_recursive
            THEN at \in seen => Len(R[landing_block(at)].ends) >= 1
            ELSE Len(R[landing_block(at)].ends) = IF at \in seen THEN 1 ELSE 0

BodyInv ==
  /\ Traversal /\ Counted
  /\ DOMAIN preds \subseteq Stmts /\ Reached \subseteq DOMAIN preds
  /\ Closed(DOMAIN preds) /\ Least(DOMAIN preds)
  /\ Shape(code[fn]) /\ Jumps(code[fn], returnTo) /\ Counts(code[fn], visited)
  /\ returnTo # 0 => returnTo \in DOMAIN preds /\ cont_block(returnTo) \in DOMAIN code[fn]
  /\ tailCall[fn] = returnTo
  /\ is_recursive => \A at \in visited : IsReturn(at) => returnTo # 0

Functions == DOMAIN program.functions
Compiled(f) == Verifies(f) \/ RefusedLoop(f)

Pending ==
  /\ IsSequence(todo) /\ Elements(todo) \subseteq Functions
  /\ \A i, j \in 1..Len(todo) : todo[i] = todo[j] => i = j
  /\ DOMAIN code = Functions /\ DOMAIN tailCall = Functions
  /\ pass \in {"structure", "body", "verify", "run", "failed"}

CompilerInv ==
  /\ ProgramInv /\ Pending
  /\ pass = "structure" => /\ todo # <<>> /\ StructureInv /\ returnTo = 0
                           /\ \A f \in Elements(todo) : tailCall[f] = 0
  /\ pass = "body" => /\ todo # <<>> /\ BodyInv
                      /\ \A f \in Elements(Tail(todo)) : tailCall[f] = 0
  /\ pass \in {"verify", "run"} => todo = <<>>
  /\ pass # "failed" => \A f \in Functions \ Elements(todo) : Compiled(f)

-----------------------------------------------------------------------------
(* What is appended to a region.                                           *)

\* Different blocks have different names.
LEMMA BlockNames ==
  ASSUME NEW at, NEW other
  PROVE  /\ pre_entry_block # entry_block
         /\ libfunc_block(at) \notin {pre_entry_block, entry_block, landing_block(other), cont_block(other)}
         /\ landing_block(at) \notin {pre_entry_block, entry_block, libfunc_block(other), cont_block(other)}
         /\ cont_block(at) \notin {pre_entry_block, entry_block, libfunc_block(other), landing_block(other)}
         /\ libfunc_block(at) = libfunc_block(other) => at = other
         /\ landing_block(at) = landing_block(other) => at = other
         /\ cont_block(at) = cont_block(other) => at = other
<1>1. pre_entry_block[1] = "pre_entry" /\ entry_block[1] = "entry"
  BY DEF pre_entry_block, entry_block
<1>2. \A p : /\ libfunc_block(p)[1] = "libfunc" /\ libfunc_block(p)[2] = p
             /\ landing_block(p)[1] = "landing" /\ landing_block(p)[2] = p
             /\ cont_block(p)[1] = "cont" /\ cont_block(p)[2] = p
  BY DEF libfunc_block, landing_block, cont_block
<1> QED
  BY <1>1, <1>2

\* The jumps of each terminator.
LEMMA JumpsOfOps ==
  ASSUME NEW end
  PROVE  /\ end.op \in {"br", "deeper", "shallower"} => JumpsOf(end) = {end}
         /\ end.op \in {"libfunc", "call"} => JumpsOf(end) = Range(end.branches)
         /\ end.op = "return" => JumpsOf(end) = {}
BY DEF JumpsOf

\* A terminator that fits keeps the region as it should be.
LEMMA AppendStep ==
  ASSUME NEW R, NEW back, Shape(R), Jumps(R, back), NEW b \in DOMAIN R, NEW op,
         Fits(R, op) \/ (back # 0 /\ Misfit(fn)),
         NEW S, S = Append_operation(R, b, op)
  PROVE  /\ Shape(S) /\ Jumps(S, back) /\ DOMAIN S = DOMAIN R
         /\ Len(R[b].ends) \in Nat /\ Len(S[b].ends) = Len(R[b].ends) + 1
         /\ \A c \in DOMAIN R : c # b => S[c] = R[c]
         /\ \A c \in DOMAIN R : S[c].params = R[c].params
<1>1. /\ DOMAIN S = DOMAIN R /\ \A c \in DOMAIN R : c # b => S[c] = R[c]
      /\ S[b] = [R[b] EXCEPT !.ends = Append(R[b].ends, op)]
  BY DEF Append_operation
<1>2. DOMAIN R[b] = {"params", "ends"}
  BY DEF Shape
<1>3. /\ S[b].params = R[b].params /\ S[b].ends = Append(R[b].ends, op)
      /\ DOMAIN S[b] = {"params", "ends"}
  BY <1>1, <1>2
<1>4. \A c \in DOMAIN R : S[c].params = R[c].params /\ DOMAIN S[c] = DOMAIN R[c]
  BY <1>1, <1>2, <1>3
<1>5. IsSequence(R[b].ends)
  BY DEF Jumps
<1>6. /\ IsSequence(S[b].ends) /\ Len(S[b].ends) = Len(R[b].ends) + 1
      /\ Elements(S[b].ends) = Elements(R[b].ends) \cup {op} /\ Len(R[b].ends) \in Nat
  <2> DEFINE s == R[b].ends
  <2>1. IsSequence(s) /\ S[b].ends = Append(s, op)
    BY <1>3, <1>5
  <2> HIDE DEF s
  <2>2. S[b].ends = s \o <<op>> /\ Len(s) \in Nat
    BY <2>1, AppendIsConcat, SequenceDomain
  <2>3. IsSequence(<<op>>) /\ Len(<<op>>) = 1 /\ Elements(<<op>>) = {op}
    BY OneElement
  <2>4. /\ IsSequence(S[b].ends) /\ Len(S[b].ends) = Len(s) + 1
        /\ Elements(S[b].ends) = Elements(s) \cup {op}
    BY <2>1, <2>2, <2>3, Concatenation
  <2> QED
    BY <2>2, <2>4 DEF s
<1>7. Shape(S)
  BY <1>1, <1>4 DEF Shape
<1>8. \A end : Fits(R, end) => Fits(S, end)
  BY <1>1, <1>4 DEF Fits
<1>9. Jumps(S, back)
  <2> SUFFICES ASSUME NEW c \in DOMAIN R
               PROVE  /\ IsSequence(S[c].ends)
                      /\ \A end \in Elements(S[c].ends) : Fits(S, end) \/ (back # 0 /\ Misfit(fn))
    BY <1>1 DEF Jumps
  <2>1. CASE c = b
    BY <1>6, <1>8, <2>1 DEF Jumps
  <2>2. CASE c # b
    BY <1>1, <1>8, <2>2 DEF Jumps
  <2> QED
    BY <2>1, <2>2
<1> QED
  BY <1>1, <1>4, <1>6, <1>7, <1>9

\* The landing block of a statement jumps to it once more.
LEMMA LandStep ==
  ASSUME ProgramInv, DOMAIN preds \subseteq Stmts, NEW at \in DOMAIN preds, NEW state,
         NEW R, NEW back, Shape(R), Jumps(R, back), NEW L, L = land(R, at, state)
  PROVE  /\ Shape(L) /\ Jumps(L, back) /\ DOMAIN L = DOMAIN R
         /\ \A c \in DOMAIN R : L[c].params = R[c].params
         /\ \A c \in DOMAIN R : ~(HasLanding(at) /\ c = landing_block(at)) => L[c] = R[c]
         /\ HasLanding(at) => /\ Len(R[landing_block(at)].ends) \in Nat
                              /\ Len(L[landing_block(at)].ends) = Len(R[landing_block(at)].ends) + 1
<1>1. CASE ~HasLanding(at)
  BY <1>1 DEF land
<1>2. CASE HasLanding(at)
  <2> DEFINE args == Statement(at).args
             with == [i \in DOMAIN args |-> state[args[i]]]
             op == [op |-> "br", to |-> libfunc_block(at), with |-> with]
  <2>1. landing_block(at) \in DOMAIN R /\ libfunc_block(at) \in DOMAIN R
        /\ R[libfunc_block(at)].params = Len(args)
    BY <1>2 DEF Shape
  <2>2. IsSequence(args)
    BY StatementFacts
  <2>3. Len(with) = Len(args)
    <3> DEFINE n == Len(args)
    <3>1. n \in Nat /\ DOMAIN args = 1..n
      BY <2>2, SequenceDomain
    <3>2. with = [i \in 1..n |-> with[i]]
      BY <3>1
    <3> HIDE DEF n, with
    <3>3. Len(with) = n
      BY <3>1, <3>2, FunctionIsSequence
    <3> QED
      BY <3>3 DEF n
  <2>4. L = Append_operation(R, landing_block(at), op)
    BY <1>2 DEF land
  <2>5. op.op = "br" /\ op.to = libfunc_block(at) /\ op.with = with
    OBVIOUS
  <2> HIDE DEF op, with, args
  <2>6. Fits(R, op)
    BY <2>1, <2>3, <2>5, JumpsOfOps DEF Fits
  <2> QED
    BY <1>2, <2>1, <2>4, <2>6, AppendStep
<1> QED
  BY <1>1, <1>2

\* A statement is compiled.
LEMMA BuildStep ==
  ASSUME ProgramInv, DOMAIN preds \subseteq Stmts, NEW at \in DOMAIN preds, NEW state,
         NEW R, NEW back, NEW seen, Shape(R), Jumps(R, back), Counts(R, seen), at \notin seen,
         NEW op, Fits(R, op) \/ (back # 0 /\ Misfit(fn)),
         NEW S, S = Append_operation(land(R, at, state), libfunc_block(at), op)
  PROVE  /\ Shape(S) /\ Jumps(S, back) /\ Counts(S, seen \cup {at}) /\ DOMAIN S = DOMAIN R
         /\ \A c \in DOMAIN R : S[c].params = R[c].params
<1> DEFINE L == land(R, at, state)
           b == libfunc_block(at)
<1>1. /\ Shape(L) /\ Jumps(L, back) /\ DOMAIN L = DOMAIN R
      /\ \A c \in DOMAIN R : L[c].params = R[c].params
      /\ \A c \in DOMAIN R : ~(HasLanding(at) /\ c = landing_block(at)) => L[c] = R[c]
      /\ HasLanding(at) => /\ Len(R[landing_block(at)].ends) \in Nat
                           /\ Len(L[landing_block(at)].ends) = Len(R[landing_block(at)].ends) + 1
  <2>1. L = land(R, at, state)
    OBVIOUS
  <2> HIDE DEF L, b
  <2> QED
    BY <2>1, LandStep
<1>2. S = Append_operation(L, b, op)
  OBVIOUS
<1> HIDE DEF L
<1>3. b \in DOMAIN L
  BY <1>1 DEF Shape
<1>4. Fits(L, op) \/ (back # 0 /\ Misfit(fn))
  BY <1>1 DEF Fits
<1> HIDE DEF b
<1>5. /\ Shape(S) /\ Jumps(S, back) /\ DOMAIN S = DOMAIN L
      /\ Len(L[b].ends) \in Nat /\ Len(S[b].ends) = Len(L[b].ends) + 1
      /\ \A c \in DOMAIN L : c # b => S[c] = L[c]
      /\ \A c \in DOMAIN L : S[c].params = L[c].params
  BY <1>1, <1>2, <1>3, <1>4, AppendStep
<1> USE DEF b
<1>6. Len(S[pre_entry_block].ends) = 1 /\ Len(S[entry_block].ends) = 1
  <2>1. \A c \in {pre_entry_block, entry_block} : c \in DOMAIN R /\ c # b /\ c # landing_block(at)
    BY BlockNames DEF Shape
  <2>2. \A c \in {pre_entry_block, entry_block} : S[c] = R[c]
    BY <1>1, <1>5, <2>1
  <2> QED
    BY <2>2 DEF Counts
<1>7. ASSUME NEW p \in DOMAIN preds, cont_block(p) \in DOMAIN S
      PROVE  Len(S[cont_block(p)].ends) = 1
  <2>1. cont_block(p) # b /\ cont_block(p) # landing_block(at) /\ cont_block(p) \in DOMAIN R
    BY <1>1, <1>5, <1>7, BlockNames
  <2>2. S[cont_block(p)] = R[cont_block(p)]
    BY <1>1, <1>5, <2>1
  <2> QED
    BY <2>1, <2>2 DEF Counts
<1>8. ASSUME NEW p \in DOMAIN preds
      PROVE  Len(S[libfunc_block(p)].ends) = IF p \in seen \cup {at} THEN 1 ELSE 0
  <2>1. libfunc_block(p) # landing_block(at) /\ libfunc_block(p) \in DOMAIN R
    BY BlockNames DEF Shape
  <2>2. L[libfunc_block(p)] = R[libfunc_block(p)]
    BY <1>1, <2>1
  <2>3. Len(R[libfunc_block(p)].ends) = IF p \in seen THEN 1 ELSE 0
    BY DEF Counts
  <2>4. CASE p = at
    <3>1. Len(R[b].ends) = 0 /\ L[b] = R[b]
      BY <2>2, <2>3, <2>4
    <3>2. Len(S[b].ends) = 1
      <4> HIDE DEF b
      <4> QED
        BY <1>5, <3>1
    <3> QED
      BY <2>4, <3>2
  <2>5. CASE p # at
    <3>1. libfunc_block(p) # b
      BY <2>5, BlockNames
    <3>2. S[libfunc_block(p)] = L[libfunc_block(p)]
      BY <1>1, <1>5, <2>1, <3>1
    <3> QED
      BY <2>2, <2>3, <2>5, <3>2
  <2> QED
    BY <2>4, <2>5
<1>9. ASSUME NEW p \in DOMAIN preds, HasLanding(p)
      PROVE  IF IsReturn(p) /\ is_recursive
             THEN p \in seen \cup {at} => Len(S[landing_block(p)].ends) >= 1
             ELSE Len(S[landing_block(p)].ends) = IF p \in seen \cup {at} THEN 1 ELSE 0
  <2>1. landing_block(p) # b /\ landing_block(p) \in DOMAIN R
    BY <1>9, BlockNames DEF Shape
  <2>2. S[landing_block(p)] = L[landing_block(p)]
    BY <1>1, <1>5, <2>1
  <2>3. IF IsReturn(p) /\ is_recursive
        THEN p \in seen => Len(R[landing_block(p)].ends) >= 1
        ELSE Len(R[landing_block(p)].ends) = IF p \in seen THEN 1 ELSE 0
    BY <1>9 DEF Counts
  <2>4. CASE p = at
    <3> DEFINE before == Len(R[landing_block(p)].ends)
               after == Len(S[landing_block(p)].ends)
               loop == IsReturn(p) /\ is_recursive
    <3>1. before \in Nat /\ after = before + 1
      BY <1>1, <1>9, <2>2, <2>4
    <3>2. p \notin seen /\ p \in seen \cup {at}
      BY <2>4
    <3>3. ~loop => before = 0
      BY <2>3, <3>2
    <3> HIDE DEF before, after, loop
    <3>4. after >= 1 /\ (~loop => after = 1)
      BY <3>1, <3>3
    <3> QED
      BY <3>2, <3>4 DEF after, loop
  <2>5. CASE p # at
    <3>1. L[landing_block(p)] = R[landing_block(p)]
      BY <1>1, <2>1, <2>5, BlockNames
    <3> QED
      BY <2>2, <2>3, <2>5, <3>1
  <2> QED
    BY <2>4, <2>5
<1>10. Counts(S, seen \cup {at})
  BY <1>6, <1>7, <1>8, <1>9 DEF Counts
<1> QED
  BY <1>1, <1>5, <1>10

\* The block where a tail call continues.
LEMMA ContinuationStep ==
  ASSUME NEW at \in DOMAIN preds, NEW R, NEW back, NEW seen, Shape(R), Jumps(R, back), Counts(R, seen),
         NEW end, Fits(R, end), NEW block, block = [params |-> Len(function.rets), ends |-> <<end>>],
         NEW S, S = [b \in DOMAIN R \cup {cont_block(at)} |->
                       IF b = cont_block(at) THEN block ELSE R[b]]
  PROVE  Shape(S) /\ Jumps(S, back) /\ Counts(S, seen) /\ cont_block(at) \in DOMAIN S
<1> DEFINE c == cont_block(at)
<1>1. /\ DOMAIN S = DOMAIN R \cup {c} /\ S[c] = block /\ \A b \in DOMAIN R : b # c => S[b] = R[b]
  OBVIOUS
<1>2. /\ block.params = Len(function.rets) /\ block.ends = <<end>> /\ DOMAIN block = {"params", "ends"}
      /\ IsSequence(block.ends) /\ Len(block.ends) = 1 /\ Elements(block.ends) = {end}
  BY OneElement
<1>3. \A b \in DOMAIN R : S[b].params = R[b].params
  BY <1>1, <1>2 DEF Shape
<1>4. \A p \in DOMAIN preds :
        /\ pre_entry_block # c /\ entry_block # c /\ libfunc_block(p) # c /\ landing_block(p) # c
        /\ cont_block(p) = c => p = at
  BY BlockNames
<1>5. \A e : Fits(R, e) => Fits(S, e)
  BY <1>1, <1>3 DEF Fits
<1> HIDE DEF c
<1>6. Jumps(S, back)
  <2> SUFFICES ASSUME NEW b \in DOMAIN S
               PROVE  /\ IsSequence(S[b].ends)
                      /\ \A e \in Elements(S[b].ends) : Fits(S, e) \/ (back # 0 /\ Misfit(fn))
    BY DEF Jumps
  <2>1. CASE b = c
    BY <1>1, <1>2, <1>5, <2>1
  <2>2. CASE b # c
    BY <1>1, <1>5, <2>2 DEF Jumps
  <2> QED
    BY <2>1, <2>2
<1>7. Shape(S)
  <2>1. S[entry_block].params = Len(function.params) /\ {pre_entry_block, entry_block} \subseteq DOMAIN S
    BY <1>1, <1>3 DEF Shape
  <2>2. ASSUME NEW p \in DOMAIN preds
        PROVE  /\ libfunc_block(p) \in DOMAIN S
               /\ S[libfunc_block(p)].params = Len(Statement(p).args)
               /\ HasLanding(p) => /\ landing_block(p) \in DOMAIN S
                                   /\ S[landing_block(p)].params = Cardinality(preds[p].vars)
               /\ cont_block(p) \in DOMAIN S => S[cont_block(p)].params = Len(function.rets)
    <3>1. cont_block(p) = c => S[cont_block(p)].params = Len(function.rets)
      BY <1>1, <1>2
    <3>2. cont_block(p) # c /\ cont_block(p) \in DOMAIN S => S[cont_block(p)].params = Len(function.rets)
      BY <1>1, <1>3 DEF Shape
    <3>3. /\ libfunc_block(p) \in DOMAIN R /\ R[libfunc_block(p)].params = Len(Statement(p).args)
          /\ HasLanding(p) => /\ landing_block(p) \in DOMAIN R
                              /\ R[landing_block(p)].params = Cardinality(preds[p].vars)
      BY DEF Shape
    <3> QED
      BY <1>1, <1>3, <3>1, <3>2, <3>3
  <2>3. ASSUME NEW b \in DOMAIN S
        PROVE  /\ DOMAIN S[b] = {"params", "ends"}
               /\ \/ b \in {pre_entry_block, entry_block}
                  \/ \E p \in DOMAIN preds : \/ b \in {libfunc_block(p), cont_block(p)}
                                             \/ b = landing_block(p) /\ HasLanding(p)
    <3>1. CASE b = c
      BY <1>1, <1>2, <3>1 DEF c
    <3>2. CASE b # c
      BY <1>1, <3>2 DEF Shape
    <3> QED
      BY <3>1, <3>2
  <2> QED
    BY <2>1, <2>2, <2>3 DEF Shape
<1>8. Counts(S, seen)
  <2>1. S[pre_entry_block] = R[pre_entry_block] /\ S[entry_block] = R[entry_block]
    BY <1>1, <1>4 DEF Shape
  <2>2. ASSUME NEW p \in DOMAIN preds
        PROVE  /\ S[libfunc_block(p)] = R[libfunc_block(p)]
               /\ HasLanding(p) => S[landing_block(p)] = R[landing_block(p)]
               /\ cont_block(p) \in DOMAIN S => Len(S[cont_block(p)].ends) = 1
    <3>1. libfunc_block(p) \in DOMAIN R /\ (HasLanding(p) => landing_block(p) \in DOMAIN R)
      BY DEF Shape
    <3>2. cont_block(p) # c /\ cont_block(p) \in DOMAIN S => Len(S[cont_block(p)].ends) = 1
      BY <1>1 DEF Counts
    <3>3. cont_block(p) = c => Len(S[cont_block(p)].ends) = 1
      BY <1>1, <1>2
    <3>4. libfunc_block(p) # c /\ landing_block(p) # c
      BY <1>4
    <3>5. \A b \in DOMAIN R : b # c => S[b] = R[b]
      BY <1>1
    <3>6. S[libfunc_block(p)] = R[libfunc_block(p)] /\ (HasLanding(p) => S[landing_block(p)] = R[landing_block(p)])
      BY <3>1, <3>4, <3>5
    <3> QED
      BY <3>2, <3>3, <3>6
  <2>3. Len(S[pre_entry_block].ends) = 1 /\ Len(S[entry_block].ends) = 1
    BY <2>1 DEF Counts
  <2>4. ASSUME NEW p \in DOMAIN preds
        PROVE  /\ Len(S[libfunc_block(p)].ends) = IF p \in seen THEN 1 ELSE 0
               /\ HasLanding(p) =>
                    IF IsReturn(p) /\ is_recursive
                    THEN p \in seen => Len(S[landing_block(p)].ends) >= 1
                    ELSE Len(S[landing_block(p)].ends) = IF p \in seen THEN 1 ELSE 0
    <3>1. /\ Len(R[libfunc_block(p)].ends) = IF p \in seen THEN 1 ELSE 0
          /\ HasLanding(p) =>
               IF IsReturn(p) /\ is_recursive
               THEN p \in seen => Len(R[landing_block(p)].ends) >= 1
               ELSE Len(R[landing_block(p)].ends) = IF p \in seen THEN 1 ELSE 0
      BY DEF Counts
    <3> QED
      BY <2>2, <3>1
  <2> QED
    BY <2>2, <2>3, <2>4 DEF Counts
<1> QED
  BY <1>1, <1>6, <1>7, <1>8 DEF c

\* The branches of a statement hand their targets what those declare.
LEMMA BranchesFit ==
  ASSUME ProgramInv, DOMAIN preds \subseteq Stmts, Counted, Closed(DOMAIN preds),
         NEW R, Shape(R), NEW at \in DOMAIN preds, NEW state, NEW results,
         NEW targets, targets = generate_branching_targets(at, state, results)
  PROVE  /\ DOMAIN targets = DOMAIN Statement(at).branches
         /\ \A n \in DOMAIN targets :
              targets[n].to \in DOMAIN R /\ Len(targets[n].with) = R[targets[n].to].params
<1>1. DOMAIN targets = DOMAIN Statement(at).branches
  BY DEF generate_branching_targets
<1>2. ASSUME NEW n \in DOMAIN targets
      PROVE  targets[n].to \in DOMAIN R /\ Len(targets[n].with) = R[targets[n].to].params
  <2> DEFINE branch == Statement(at).branches[n]
             target == branch.target
             wanted == IF HasLanding(target) THEN Sorted(preds[target].vars) ELSE Statement(target).args
             value(v) == IF v \in Range(branch.results)
                         THEN argument(results[n], CHOOSE i \in DOMAIN branch.results : branch.results[i] = v)
                         ELSE state[v]
             with == [i \in DOMAIN wanted |-> value(wanted[i])]
             to == IF HasLanding(target) THEN landing_block(target) ELSE libfunc_block(target)
  <2>1. targets[n] = [to |-> to, with |-> with]
    BY <1>1, <1>2, Zenon DEF generate_branching_targets
  <2>2. target \in Targets(at)
    BY <1>1, <1>2 DEF Targets
  <2>3. target \in DOMAIN preds
    BY <2>2 DEF Closed
  <2> HIDE DEF target, value
  <2>4. to \in DOMAIN R /\ IsSequence(wanted) /\ R[to].params = Len(wanted)
    <3>1. CASE HasLanding(target)
      <4> DEFINE V == preds[target].vars
      <4>1. V \in SUBSET Nat /\ IsFiniteSet(V)
        BY <2>3 DEF Counted
      <4>2. to \in DOMAIN R /\ R[to].params = Cardinality(V)
        BY <2>3, <3>1 DEF Shape
      <4>3. wanted = Sorted(V)
        BY <3>1
      <4> HIDE DEF V, wanted, to
      <4>4. /\ Sorted(V) \in [1..Cardinality(V) -> V]
            /\ Cardinality(V) \in Nat /\ Len(Sorted(V)) = Cardinality(V)
        BY <4>1, SortedLen
      <4> QED
        BY <4>2, <4>3, <4>4 DEF IsSequence
    <3>2. CASE ~HasLanding(target)
      <4>1. to \in DOMAIN R /\ R[to].params = Len(Statement(target).args)
        BY <2>3, <3>2 DEF Shape
      <4>2. target \in Stmts
        BY <2>3
      <4>3. IsSequence(Statement(target).args)
        BY <4>2, StatementFacts
      <4> QED
        BY <3>2, <4>1, <4>3
    <3> QED
      BY <3>1, <3>2
  <2>5. Len(with) = Len(wanted)
    <3> DEFINE m == Len(wanted)
    <3>1. m \in Nat /\ DOMAIN wanted = 1..m
      BY <2>4, SequenceDomain
    <3> HIDE DEF wanted
    <3>2. with = [i \in 1..m |-> with[i]]
      BY <3>1
    <3> HIDE DEF m, with
    <3>3. Len(with) = m
      BY <3>1, <3>2, FunctionIsSequence
    <3> QED
      BY <3>3 DEF m
  <2> HIDE DEF to, with, wanted
  <2> QED
    BY <2>1, <2>4, <2>5
<1> QED
  BY <1>1, <1>2

-----------------------------------------------------------------------------
(* The steps of the second traversal.                                      *)

\* What does not change while a function's blocks are written.
LEMMA FunctionKept ==
  ASSUME UNCHANGED <<program, todo, preds, tails>>
  PROVE  /\ (Counted)' = Counted /\ (Closed(DOMAIN preds))' = Closed(DOMAIN preds)
         /\ (Least(DOMAIN preds))' = Least(DOMAIN preds)
         /\ (DOMAIN preds \subseteq Stmts)' = (DOMAIN preds \subseteq Stmts)
<1>1. \A C : (Closed(C))' = Closed(C)
  BY DEF Closed, Targets, Statement
<1> QED
  BY <1>1 DEF Counted, Closed, Targets, Statement, Least, Stmts, function, fn

\* The region of the function once it is S.
LEMMA RegionIs ==
  ASSUME UNCHANGED <<program, todo, preds, tails>>, fn \in DOMAIN code,
         NEW S, code' = [code EXCEPT ![fn] = S]
  PROVE  /\ (code[fn])' = S
         /\ Shape(S) => (Shape(code[fn]))'
         /\ Jumps(S, returnTo') => (Jumps(code[fn], returnTo))'
         /\ Counts(S, visited') => (Counts(code[fn], visited))'
<1>1. (code[fn])' = S
  BY DEF fn
<1>2. ASSUME Shape(S) PROVE (Shape(code[fn]))'
  BY <1>1, <1>2 DEF Shape, fn, function, HasLanding, Statement
<1>3. ASSUME Jumps(S, returnTo') PROVE (Jumps(code[fn], returnTo))'
  BY <1>1, <1>3 DEF Jumps, Fits, Misfit, has_return_ptr, fn
<1>4. ASSUME Counts(S, visited') PROVE (Counts(code[fn], visited))'
  BY <1>1, <1>4 DEF Counts, HasLanding, IsReturn, Statement, is_recursive, fn
<1> QED
  BY <1>1, <1>2, <1>3, <1>4

\* The statement that a traversal takes was found by the first one.
LEMMA CurrentStatement ==
  ASSUME BodyInv, Visiting("body")
  PROVE  /\ current \in Elements(queue) /\ current.at \in DOMAIN preds /\ current.at \in Stmts
         /\ current.at \notin visited /\ IsState(current.state) /\ queue # <<>>
<1>1. current \in Elements(queue) /\ queue # <<>> /\ current.at \notin visited
  BY OneElement, QueueStep, Zenon DEF BodyInv, Traversal, current, Visiting
<1> QED
  BY <1>1 DEF BodyInv, Traversal, Reached, Waiting

\* A statement is compiled and its branches wait.
LEMMA ProcessedStep ==
  ASSUME ProgramInv, BodyInv, Visiting("body"), NEW state, DOMAIN state = DOMAIN current.state,
         NEW results, Processed(current.at, state, results), UNCHANGED <<program, todo, preds, tails>>
  PROVE  /\ Traversal' /\ (Reached \subseteq DOMAIN preds)'
         /\ visited' = visited \cup {current.at}
<1> DEFINE at == current.at
           st == Statement(at)
           new == [n \in DOMAIN st.branches |->
                     LET branch == st.branches[n] IN
                     [at |-> branch.target,
                      state |-> [v \in (DOMAIN state \ Range(st.args)) \cup Range(branch.results) |->
                                   IF v \in Range(branch.results)
                                   THEN argument(results[n], CHOOSE i \in DOMAIN branch.results : branch.results[i] = v)
                                   ELSE state[v]]]]
<1>1. queue' = Front(queue) \o new /\ visited' = visited \cup {at}
  BY Zenon DEF Processed
<1>2. at \in Stmts /\ at \in DOMAIN preds /\ IsState(state) /\ queue # <<>>
  BY CurrentStatement DEF IsState
<1>3. \A n \in DOMAIN st.branches :
        /\ new[n].at = st.branches[n].target
        /\ DOMAIN new[n].state = (DOMAIN state \ Range(st.args)) \cup Range(st.branches[n].results)
  OBVIOUS
<1>4. new = [n \in DOMAIN st.branches |-> new[n]]
  OBVIOUS
<1> HIDE DEF new, at
<1>5. /\ IsSequence(new) /\ {e.at : e \in Elements(new)} = Targets(at)
      /\ \A e \in Elements(new) : IsState(e.state)
  BY <1>2, <1>3, <1>4, Successors DEF st
<1>6. Targets(at) \subseteq Stmts /\ Targets(at) \subseteq DOMAIN preds
  BY <1>2, StatementFacts DEF BodyInv, Closed
<1>7. Traversal' /\ Reached' = Reached \cup Targets(at)
  BY <1>1, <1>2, <1>5, <1>6, Visited DEF BodyInv, at
<1> QED
  BY <1>1, <1>6, <1>7 DEF BodyInv, at

\* A landing block renames registers, not variables.
LEMMA StateAtDomain ==
  ASSUME NEW at, NEW state
  PROVE  DOMAIN StateAt(at, state) = DOMAIN state
BY DEF StateAt

\* The parts from which a step of the second traversal keeps its invariant.
LEMMA BodyKept ==
  ASSUME BodyInv, UNCHANGED <<program, todo, preds, tails>>, fn \in DOMAIN code,
         NEW S, code' = [code EXCEPT ![fn] = S], Traversal', (Reached \subseteq DOMAIN preds)',
         Shape(S), Jumps(S, returnTo'), Counts(S, visited'),
         returnTo' # 0 => returnTo' \in DOMAIN preds /\ cont_block(returnTo') \in DOMAIN S,
         tailCall'[fn] = returnTo',
         is_recursive => \A at \in visited' : IsReturn(at) => returnTo' # 0
  PROVE  BodyInv'
<1>1. /\ (code[fn])' = S /\ (Shape(code[fn]))'
      /\ (Jumps(code[fn], returnTo))' /\ (Counts(code[fn], visited))'
  BY RegionIs
<1>2. Counted' /\ (Closed(DOMAIN preds))' /\ (Least(DOMAIN preds))' /\ (DOMAIN preds \subseteq Stmts)'
  BY FunctionKept DEF BodyInv
<1>3. (tailCall[fn])' = returnTo'
  BY DEF fn
<1>4. returnTo' # 0 => returnTo' \in DOMAIN preds' /\ (cont_block(returnTo) \in DOMAIN code[fn])'
  BY <1>1 DEF cont_block
<1>5. is_recursive' => \A at \in visited' : (IsReturn(at))' => returnTo' # 0
  BY DEF is_recursive, IsReturn, Statement
<1> QED
  BY <1>1, <1>2, <1>3, <1>4, <1>5 DEF BodyInv

\* A libfunc, or a call.
LEMMA BuildInvocationStep ==
  ASSUME ProgramInv, BodyInv, fn \in DOMAIN code, BuildInvocation, UNCHANGED program
  PROVE  BodyInv'
<1> DEFINE at == current.at
           state == StateAt(at, current.state)
           results == [n \in DOMAIN Statement(at).branches |-> Results(at, n)]
           targets == generate_branching_targets(at, state, results)
           op == [op |-> IF IsCall(at) THEN "call" ELSE "libfunc",
                  fn |-> Statement(at).fn, branches |-> targets]
           R == code[fn]
           S == Append_operation(land(R, at, state), libfunc_block(at), op)
<1>1. /\ Visiting("body") /\ ~IsReturn(at) /\ Processed(at, state, results)
      /\ code' = [code EXCEPT ![fn] = S]
      /\ UNCHANGED <<program, todo, preds, tails, returnTo, tailCall>>
  BY DEF BuildInvocation
<1>2. DOMAIN state = DOMAIN current.state
  BY StateAtDomain
<1>3. at \in DOMAIN preds /\ at \notin visited
  BY <1>1, CurrentStatement
<1>4. /\ op.op \in {"call", "libfunc"} /\ op.branches = targets
  OBVIOUS
<1> HIDE DEF at, state, results, op, R
<1>5. Traversal' /\ (Reached \subseteq DOMAIN preds)' /\ visited' = visited \cup {at}
  BY <1>1, <1>2, ProcessedStep DEF at
<1>6. Fits(R, op)
  <2>1. \A n \in DOMAIN targets :
          targets[n].to \in DOMAIN R /\ Len(targets[n].with) = R[targets[n].to].params
    <3>1. /\ DOMAIN preds \subseteq Stmts /\ Counted /\ Closed(DOMAIN preds) /\ Shape(R)
      BY DEF BodyInv, R
    <3> HIDE DEF targets
    <3>2. targets = generate_branching_targets(at, state, results)
      BY DEF targets
    <3> QED
      BY <1>3, <3>1, <3>2, BranchesFit
  <2>2. JumpsOf(op) = Range(targets)
    BY <1>4, JumpsOfOps
  <2> HIDE DEF targets
  <2> QED
    BY <2>1, <2>2 DEF Fits, Range
<1>7. /\ Shape(S) /\ Jumps(S, returnTo) /\ Counts(S, visited \cup {at}) /\ DOMAIN S = DOMAIN R
  <2>1. S = Append_operation(land(R, at, state), libfunc_block(at), op)
    OBVIOUS
  <2>2. Shape(R) /\ Jumps(R, returnTo) /\ Counts(R, visited) /\ DOMAIN preds \subseteq Stmts
    BY DEF BodyInv, R
  <2> HIDE DEF S
  <2> QED
    BY <1>3, <1>6, <2>1, <2>2, BuildStep
<1> HIDE DEF S
<1>8. returnTo' # 0 => returnTo' \in DOMAIN preds /\ cont_block(returnTo') \in DOMAIN S
  BY <1>1, <1>7 DEF BodyInv, R
<1>9. is_recursive => \A p \in visited' : IsReturn(p) => returnTo' # 0
  BY <1>1, <1>5 DEF BodyInv
<1>10. tailCall'[fn] = returnTo'
  BY <1>1 DEF BodyInv
<1> QED
  BY <1>1, <1>5, <1>7, <1>8, <1>9, <1>10, BodyKept

\* The tail call of a loop.
LEMMA BuildTailCallStep ==
  ASSUME ProgramInv, BodyInv, fn \in DOMAIN code, fn \in Functions, fn \in DOMAIN tailCall,
         BuildTailCall, UNCHANGED program
  PROVE  BodyInv' /\ \A f \in DOMAIN tailCall : f # fn => tailCall'[f] = tailCall[f]
<1> DEFINE at == current.at
           state == StateAt(at, current.state)
           results == <<cont_block(at)>>
           targets == generate_branching_targets(at, state, results)
           args == Statement(at).args
           op == [op |-> "deeper", to |-> entry_block,
                  with |-> Arguments(libfunc_block(at), Len(args))]
           end == [op |-> "br", to |-> targets[1].to, with |-> targets[1].with]
           block == [params |-> Len(function.rets), ends |-> <<end>>]
           R == code[fn]
           B == Append_operation(land(R, at, state), libfunc_block(at), op)
           S == [b \in DOMAIN B \cup {cont_block(at)} |-> IF b = cont_block(at) THEN block ELSE B[b]]
<1>1. /\ Visiting("body") /\ IsTailCall(at, state) /\ Processed(at, state, results)
      /\ code' = [code EXCEPT ![fn] = S]
      /\ returnTo' = at /\ tailCall' = [tailCall EXCEPT ![fn] = at]
      /\ UNCHANGED <<program, todo, preds, tails>>
  BY DEF BuildTailCall
<1>2. DOMAIN state = DOMAIN current.state
  BY StateAtDomain
<1>3. at \in DOMAIN preds /\ at \notin visited /\ at \in Stmts
  BY <1>1, CurrentStatement
<1>4. op.op = "deeper" /\ op.to = entry_block /\ op.with = Arguments(libfunc_block(at), Len(args))
  OBVIOUS
<1>5. end.op = "br" /\ end.to = targets[1].to /\ end.with = targets[1].with
  OBVIOUS
<1>6. block = [params |-> Len(function.rets), ends |-> <<end>>]
  OBVIOUS
<1>7. /\ B = Append_operation(land(R, at, state), libfunc_block(at), op)
      /\ S = [b \in DOMAIN B \cup {cont_block(at)} |-> IF b = cont_block(at) THEN block ELSE B[b]]
  OBVIOUS
<1>8. /\ DOMAIN preds \subseteq Stmts /\ Counted /\ Closed(DOMAIN preds)
      /\ Shape(R) /\ Jumps(R, returnTo) /\ Counts(R, visited)
  BY DEF BodyInv
<1>9. /\ IsSequence(args) /\ Len(Statement(at).branches) = 1 /\ IsSequence(Statement(at).branches)
      /\ Len(args) = Len(function.params) /\ at # 0 /\ ~IsReturn(at)
  <2>1. Statement(at).fn = fn /\ IsCall(at)
    BY <1>1 DEF IsTailCall, IsCall, Functions
  <2> QED
    BY <1>3, <2>1, StatementFacts DEF function
<1> HIDE DEF at, state, results, op, end, block, R, B, S
<1>10. Traversal' /\ (Reached \subseteq DOMAIN preds)' /\ visited' = visited \cup {at}
  BY <1>1, <1>2, ProcessedStep DEF at
<1>11. Fits(R, op)
  <2>1. Len(op.with) = Len(args)
    <3> DEFINE n == Len(args)
               with == Arguments(libfunc_block(at), n)
    <3>1. n \in Nat /\ with = [i \in 1..n |-> with[i]]
      BY <1>9, SequenceDomain DEF Arguments
    <3>2. op.with = with
      BY <1>4
    <3> HIDE DEF n, with
    <3>3. Len(with) = n
      BY <3>1, FunctionIsSequence
    <3> QED
      BY <3>2, <3>3 DEF n
  <2>2. JumpsOf(op) = {op}
    BY <1>4, JumpsOfOps
  <2>3. entry_block \in DOMAIN R /\ R[entry_block].params = Len(function.params)
    BY <1>8 DEF Shape
  <2> QED
    BY <1>4, <1>9, <2>1, <2>2, <2>3 DEF Fits
<1>12. /\ Shape(B) /\ Jumps(B, returnTo) /\ Counts(B, visited \cup {at}) /\ DOMAIN B = DOMAIN R
       /\ \A c \in DOMAIN R : B[c].params = R[c].params
  BY <1>3, <1>7, <1>8, <1>11, BuildStep
<1>13. Fits(B, end)
  <2>1. /\ DOMAIN targets = DOMAIN Statement(at).branches
        /\ \A n \in DOMAIN targets :
             targets[n].to \in DOMAIN R /\ Len(targets[n].with) = R[targets[n].to].params
    <3>1. targets = generate_branching_targets(at, state, results)
      OBVIOUS
    <3> HIDE DEF targets
    <3> QED
      BY <1>3, <1>8, <3>1, BranchesFit
  <2>2. 1 \in DOMAIN targets
    BY <1>9, <2>1, SequenceDomain
  <2>3. JumpsOf(end) = {end}
    BY <1>5, JumpsOfOps
  <2> HIDE DEF targets
  <2> QED
    BY <1>5, <1>12, <2>1, <2>2, <2>3 DEF Fits
<1>14. Shape(S) /\ Jumps(S, returnTo) /\ Counts(S, visited \cup {at}) /\ cont_block(at) \in DOMAIN S
  <2> DEFINE seen == visited \cup {at}
  <2>1. Shape(B) /\ Jumps(B, returnTo) /\ Counts(B, seen)
    BY <1>12
  <2>2. S = [b \in DOMAIN B \cup {cont_block(at)} |-> IF b = cont_block(at) THEN block ELSE B[b]]
    BY <1>7
  <2> HIDE DEF seen
  <2>3. Shape(S) /\ Jumps(S, returnTo) /\ Counts(S, seen) /\ cont_block(at) \in DOMAIN S
    BY <1>3, <1>6, <1>13, <2>1, <2>2, ContinuationStep
  <2> QED
    BY <2>3 DEF seen
<1>15. Jumps(S, at)
  BY <1>9, <1>14 DEF Jumps
<1>16. tailCall'[fn] = returnTo' /\ \A f \in DOMAIN tailCall : f # fn => tailCall'[f] = tailCall[f]
  BY <1>1
<1>17. is_recursive => \A p \in visited' : IsReturn(p) => returnTo' # 0
  BY <1>1, <1>9
<1> QED
  BY <1>1, <1>3, <1>10, <1>14, <1>15, <1>16, <1>17, BodyKept

\* A return that waits for the tail call.
LEMMA DeferReturnStep ==
  ASSUME ProgramInv, BodyInv, fn \in DOMAIN code, DeferReturn, UNCHANGED program
  PROVE  BodyInv'
<1> DEFINE at == current.at
           state == StateAt(at, current.state)
           R == code[fn]
           L == land(R, at, state)
<1>1. /\ Visiting("body") /\ IsReturn(at) /\ is_recursive /\ code' = [code EXCEPT ![fn] = L]
      /\ queue' = <<current>> \o Front(queue)
      /\ UNCHANGED <<program, todo, visited, preds, tails, returnTo, tailCall>>
  BY DEF DeferReturn
<1>2. at \in DOMAIN preds /\ at \notin visited /\ queue # <<>>
  BY <1>1, CurrentStatement
<1>3. Shape(R) /\ Jumps(R, returnTo) /\ Counts(R, visited) /\ DOMAIN preds \subseteq Stmts
  BY DEF BodyInv
<1>4. L = land(R, at, state)
  OBVIOUS
<1> HIDE DEF at, state, R, L
<1>5. /\ Shape(L) /\ Jumps(L, returnTo) /\ DOMAIN L = DOMAIN R
      /\ \A c \in DOMAIN R : ~(HasLanding(at) /\ c = landing_block(at)) => L[c] = R[c]
  BY <1>2, <1>3, <1>4, LandStep
<1>6. Counts(L, visited)
  <2>1. L[pre_entry_block] = R[pre_entry_block] /\ L[entry_block] = R[entry_block]
    BY <1>3, <1>5, BlockNames DEF Shape
  <2>2. ASSUME NEW p \in DOMAIN preds
        PROVE  /\ L[libfunc_block(p)] = R[libfunc_block(p)]
               /\ cont_block(p) \in DOMAIN L => L[cont_block(p)] = R[cont_block(p)]
               /\ HasLanding(p) /\ p # at => L[landing_block(p)] = R[landing_block(p)]
    BY <1>3, <1>5, BlockNames DEF Shape
  <2>3. ASSUME NEW p \in DOMAIN preds, HasLanding(p)
        PROVE  IF IsReturn(p) /\ is_recursive
               THEN p \in visited => Len(L[landing_block(p)].ends) >= 1
               ELSE Len(L[landing_block(p)].ends) = IF p \in visited THEN 1 ELSE 0
    <3>1. CASE p = at
      BY <1>1, <1>2, <3>1
    <3>2. CASE p # at
      <4>1. L[landing_block(p)] = R[landing_block(p)]
        BY <2>2, <2>3, <3>2
      <4> QED
        BY <1>3, <2>3, <4>1 DEF Counts
    <3> QED
      BY <3>1, <3>2
  <2> QED
    BY <1>3, <1>5, <2>1, <2>2, <2>3 DEF Counts
<1>7. Traversal' /\ (Reached \subseteq DOMAIN preds)'
  <2>1. /\ IsSequence(Front(queue)) /\ IsSequence(<<current>>) /\ Elements(<<current>>) = {current}
        /\ Elements(queue) = Elements(Front(queue)) \cup {current}
    BY <1>2, FrontLast, OneElement DEF BodyInv, Traversal, current
  <2>2. IsSequence(queue') /\ Elements(queue') = Elements(queue)
    BY <1>1, <2>1, Concatenation
  <2>3. Waiting' = Waiting /\ Reached' = Reached
    BY <1>1, <2>2 DEF Waiting, Reached
  <2>4. \A p : (Targets(p))' = Targets(p)
    BY <1>1 DEF Targets, Statement
  <2> QED
    BY <1>1, <2>2, <2>3, <2>4 DEF BodyInv, Traversal, Stmts, function, fn, IsState
<1>8. returnTo' # 0 => returnTo' \in DOMAIN preds /\ cont_block(returnTo') \in DOMAIN L
  BY <1>1, <1>5 DEF BodyInv, R
<1>9. is_recursive => \A p \in visited' : IsReturn(p) => returnTo' # 0
  BY <1>1 DEF BodyInv
<1>10. tailCall'[fn] = returnTo'
  BY <1>1 DEF BodyInv
<1>11. Jumps(L, returnTo') /\ Counts(L, visited')
  BY <1>1, <1>5, <1>6
<1> QED
  BY <1>1, <1>5, <1>7, <1>8, <1>9, <1>10, <1>11, BodyKept

\* What a return hands to the block where the tail call continues.
LEMMA HandedOver ==
  ASSUME ProgramInv, fn \in Functions, NEW at, ~Misfit(fn)
  PROVE  Len(recursive_values(at)) = Len(function.rets)
<1> DEFINE rets == function.rets
           n == Len(rets)
           taken == {i \in DOMAIN rets : rets[i] \in {"register", "memory"}}
           kept == Sorted(taken)
           values == [i \in DOMAIN kept |-> argument(libfunc_block(at), kept[i])]
<1>1. /\ IsSequence(rets) /\ Elements(rets) \subseteq {"register", "memory", "unit"}
      /\ "unit" \notin Range(rets) /\ has_return_ptr(fn) = "registers"
  BY FunctionFacts DEF Misfit, Functions, function
<1>2. recursive_values(at) = values
  BY <1>1 DEF recursive_values
<1>3. n \in Nat /\ DOMAIN rets = 1..n /\ Range(rets) = Elements(rets)
  BY <1>1, SequenceDomain, RangeElements
<1>4. taken = 1..n
  <2>1. \A i \in 1..n : rets[i] \in {"register", "memory"}
    BY <1>1, <1>3 DEF Elements
  <2> HIDE DEF rets, n
  <2> QED
    BY <1>3, <2>1
<1> HIDE DEF n, taken, kept, values
<1>5. taken \in SUBSET Nat /\ IsFiniteSet(taken) /\ Cardinality(taken) = n
  <2>1. IsFiniteSet(1..n) /\ Cardinality(1..n) = n
    BY <1>3, FS_Interval
  <2> QED
    BY <1>3, <1>4, <2>1
<1>6. kept \in [1..n -> taken]
  BY <1>5, SortedLen DEF kept
<1>7. values = [i \in 1..n |-> values[i]]
  BY <1>6 DEF values
<1>8. Len(values) = n
  BY <1>3, <1>7, FunctionIsSequence
<1> QED
  BY <1>2, <1>8 DEF n

\* A return.
LEMMA BuildReturnStep ==
  ASSUME ProgramInv, BodyInv, fn \in DOMAIN code, fn \in Functions, BuildReturn, UNCHANGED program
  PROVE  BodyInv'
<1> DEFINE at == current.at
           state == StateAt(at, current.state)
           again == [op |-> "shallower", to |-> cont_block(returnTo), with |-> recursive_values(at)]
           leave == [op |-> "return"]
           op == IF is_recursive THEN again ELSE leave
           R == code[fn]
           S == Append_operation(land(R, at, state), libfunc_block(at), op)
<1>1. /\ Visiting("body") /\ IsReturn(at) /\ (is_recursive => returnTo # 0)
      /\ Processed(at, state, <<>>) /\ code' = [code EXCEPT ![fn] = S]
      /\ UNCHANGED <<program, todo, preds, tails, returnTo, tailCall>>
  BY DEF BuildReturn
<1>2. DOMAIN state = DOMAIN current.state
  BY StateAtDomain
<1>3. at \in DOMAIN preds /\ at \notin visited
  BY <1>1, CurrentStatement
<1>4. /\ again.op = "shallower" /\ again.to = cont_block(returnTo) /\ again.with = recursive_values(at)
      /\ leave.op = "return" /\ op = IF is_recursive THEN again ELSE leave
  OBVIOUS
<1>5. S = Append_operation(land(R, at, state), libfunc_block(at), op)
  OBVIOUS
<1>6. Shape(R) /\ Jumps(R, returnTo) /\ Counts(R, visited) /\ DOMAIN preds \subseteq Stmts
  BY DEF BodyInv
<1>7. returnTo # 0 => returnTo \in DOMAIN preds /\ cont_block(returnTo) \in DOMAIN R
  BY DEF BodyInv
<1> HIDE DEF at, state, again, leave, op, R, S
<1>8. Traversal' /\ (Reached \subseteq DOMAIN preds)' /\ visited' = visited \cup {at}
  BY <1>1, <1>2, ProcessedStep DEF at
<1>9. Fits(R, op) \/ (returnTo # 0 /\ Misfit(fn))
  <2>1. CASE ~is_recursive
    BY <1>4, <2>1, JumpsOfOps DEF Fits
  <2>2. CASE is_recursive /\ ~Misfit(fn)
    <3>1. cont_block(returnTo) \in DOMAIN R /\ R[cont_block(returnTo)].params = Len(function.rets)
      BY <1>1, <1>6, <1>7, <2>2 DEF Shape
    <3>2. Len(again.with) = Len(function.rets)
      BY <1>4, <2>2, HandedOver
    <3>3. JumpsOf(again) = {again}
      BY <1>4, JumpsOfOps
    <3> QED
      BY <1>4, <2>2, <3>1, <3>2, <3>3 DEF Fits
  <2> QED
    BY <1>1, <2>1, <2>2
<1>10. Shape(S) /\ Jumps(S, returnTo) /\ Counts(S, visited \cup {at}) /\ DOMAIN S = DOMAIN R
  BY <1>3, <1>5, <1>6, <1>9, BuildStep
<1>11. returnTo' # 0 => returnTo' \in DOMAIN preds /\ cont_block(returnTo') \in DOMAIN S
  BY <1>1, <1>7, <1>10
<1>12. is_recursive => \A p \in visited' : IsReturn(p) => returnTo' # 0
  BY <1>1
<1>13. tailCall'[fn] = returnTo'
  BY <1>1 DEF BodyInv
<1> QED
  BY <1>1, <1>8, <1>10, <1>11, <1>12, <1>13, BodyKept

\* A statement met again.
LEMMA SkipBodyStep ==
  ASSUME BodyInv, fn \in DOMAIN code, SkipVisited, UNCHANGED program
  PROVE  BodyInv'
<1>1. /\ UNCHANGED <<program, todo, visited, preds, tails, returnTo, code, tailCall>>
      /\ queue # <<>> /\ queue' = Front(queue) /\ current.at \in visited
  BY DEF SkipVisited
<1>2. Traversal' /\ Reached' = Reached
  BY <1>1, Skipped DEF BodyInv
<1>3. (code[fn])' = code[fn]
  BY <1>1 DEF fn
<1>4. (Shape(code[fn]))' /\ (Jumps(code[fn], returnTo))' /\ (Counts(code[fn], visited))'
  BY <1>1 DEF BodyInv, Shape, Jumps, Counts, Fits, Misfit, has_return_ptr, fn, function, HasLanding,
     Statement, IsReturn, is_recursive
<1>5. Counted' /\ (Closed(DOMAIN preds))' /\ (Least(DOMAIN preds))' /\ (DOMAIN preds \subseteq Stmts)'
  BY <1>1, FunctionKept DEF BodyInv
<1>6. is_recursive' => \A at \in visited' : (IsReturn(at))' => returnTo' # 0
  BY <1>1 DEF BodyInv, is_recursive, IsReturn, Statement
<1>7. /\ (tailCall[fn])' = returnTo'
      /\ returnTo' # 0 => returnTo' \in DOMAIN preds' /\ (cont_block(returnTo) \in DOMAIN code[fn])'
  BY <1>1, <1>3 DEF BodyInv, fn, cont_block
<1>8. (Reached \subseteq DOMAIN preds)'
  BY <1>1, <1>2 DEF BodyInv
<1> QED
  BY <1>2, <1>4, <1>5, <1>6, <1>7, <1>8 DEF BodyInv

\* The empty blocks of a function.
LEMMA FinishStructureStep ==
  ASSUME ProgramInv, StructureInv, returnTo = 0, tailCall[fn] = 0,
         fn \in DOMAIN code, fn \in Functions, FinishStructure, UNCHANGED program
  PROVE  BodyInv'
<1> DEFINE params == function.params
           entry == function.entry
           initial_state == [v \in Range(params) |->
                               argument(entry_block, CHOOSE i \in DOMAIN params : params[i] = v)]
           landings == {at \in visited : HasLanding(at)}
           blocks == {pre_entry_block, entry_block}
                       \cup {libfunc_block(at) : at \in visited} \cup {landing_block(at) : at \in landings}
           params_of(b) == CASE b[1] = "libfunc" -> Len(Statement(b[2]).args)
                             [] b[1] = "landing" -> Cardinality(preds[b[2]].vars)
                             [] OTHER -> Len(params)
           with == [i \in DOMAIN Statement(entry).args |-> initial_state[Statement(entry).args[i]]]
           first == [op |-> "br", to |-> entry_block, with |-> Arguments(pre_entry_block, Len(params))]
           second == [op |-> "br", to |-> libfunc_block(entry), with |-> with]
           jump(b) == CASE b = pre_entry_block -> <<first>> [] b = entry_block -> <<second>> [] OTHER -> <<>>
           S == [b \in blocks |-> [params |-> params_of(b), ends |-> jump(b)]]
           e == [at |-> entry, state |-> initial_state]
<1>1. /\ queue = <<>> /\ code' = [code EXCEPT ![fn] = S] /\ queue' = <<e>> /\ visited' = {}
      /\ UNCHANGED <<program, todo, preds, tails, returnTo, tailCall>>
  BY DEF FinishStructure
<1>2. /\ DOMAIN preds = visited /\ visited \subseteq Stmts /\ entry \in visited
      /\ Closed(visited) /\ Least(visited) /\ Counted
  <2>1. Waiting = {} /\ Reached = visited
    BY <1>1, Empty DEF Waiting, Reached
  <2> QED
    BY <2>1 DEF StructureInv, Traversal, Closed
<1>3. /\ IsSequence(params) /\ Elements(params) \subseteq Nat /\ IsSequence(Statement(entry).args)
  BY <1>2, FunctionFacts, StatementFacts DEF function, Functions
<1>4. /\ DOMAIN S = blocks /\ \A b \in blocks : S[b].params = params_of(b) /\ S[b].ends = jump(b)
      /\ \A b \in blocks : DOMAIN S[b] = {"params", "ends"}
  OBVIOUS
<1>5. /\ S[pre_entry_block].ends = <<first>> /\ S[entry_block].ends = <<second>>
      /\ S[entry_block].params = Len(params)
  <2>1. pre_entry_block # entry_block
    BY BlockNames
  <2>2. params_of(entry_block) = Len(params)
    BY DEF entry_block
  <2> QED
    BY <1>4, <2>1, <2>2
<1>6. ASSUME NEW at \in visited
      PROVE  /\ libfunc_block(at) \in blocks /\ S[libfunc_block(at)].params = Len(Statement(at).args)
             /\ S[libfunc_block(at)].ends = <<>>
             /\ HasLanding(at) =>
                  /\ landing_block(at) \in blocks
                  /\ S[landing_block(at)].params = Cardinality(preds[at].vars)
                  /\ S[landing_block(at)].ends = <<>>
             /\ cont_block(at) \notin blocks
  <2>1. /\ libfunc_block(at) \in blocks /\ HasLanding(at) => landing_block(at) \in blocks
    OBVIOUS
  <2>2. params_of(libfunc_block(at)) = Len(Statement(at).args)
    BY DEF libfunc_block
  <2>3. params_of(landing_block(at)) = Cardinality(preds[at].vars)
    BY DEF landing_block
  <2>4. jump(libfunc_block(at)) = <<>> /\ jump(landing_block(at)) = <<>>
    BY BlockNames
  <2>5. cont_block(at) \notin blocks
    BY BlockNames
  <2> QED
    BY <1>4, <2>1, <2>2, <2>3, <2>4, <2>5
<1>7. \A b \in blocks : \/ b \in {pre_entry_block, entry_block}
                        \/ \E at \in visited : b = libfunc_block(at) \/ (b = landing_block(at) /\ HasLanding(at))
  OBVIOUS
<1>8. first.op = "br" /\ first.to = entry_block /\ first.with = Arguments(pre_entry_block, Len(params))
  OBVIOUS
<1>9. second.op = "br" /\ second.to = libfunc_block(entry) /\ second.with = with
  OBVIOUS
<1>10. {pre_entry_block, entry_block} \subseteq blocks
  OBVIOUS
<1>11. Len(with) = Len(Statement(entry).args)
  <2> DEFINE n == Len(Statement(entry).args)
  <2>1. n \in Nat /\ DOMAIN Statement(entry).args = 1..n
    BY <1>3, SequenceDomain
  <2>2. with = [i \in 1..n |-> with[i]]
    BY <2>1
  <2> HIDE DEF n, with
  <2>3. Len(with) = n
    BY <2>1, <2>2, FunctionIsSequence
  <2> QED
    BY <2>3 DEF n
<1>12. Len(Arguments(pre_entry_block, Len(params))) = Len(params)
  <2> DEFINE n == Len(params)
             s == Arguments(pre_entry_block, n)
  <2>1. n \in Nat /\ s = [i \in 1..n |-> s[i]]
    BY <1>3, SequenceDomain DEF Arguments
  <2> HIDE DEF n, s
  <2>2. Len(s) = n
    BY <2>1, FunctionIsSequence
  <2> QED
    BY <2>2 DEF n, s
<1>13. e.at = entry /\ DOMAIN e.state = Range(params)
  OBVIOUS
<1> HIDE DEF e, S, first, second, with, blocks, jump, params_of
<1>14. Shape(S)
  BY <1>2, <1>4, <1>5, <1>6, <1>7, <1>10 DEF Shape
<1>15. Fits(S, first) /\ Fits(S, second)
  <2>1. JumpsOf(first) = {first} /\ JumpsOf(second) = {second}
    BY <1>8, <1>9, JumpsOfOps
  <2>2. libfunc_block(entry) \in DOMAIN S /\ S[libfunc_block(entry)].params = Len(Statement(entry).args)
    BY <1>2, <1>4, <1>6
  <2> QED
    BY <1>4, <1>5, <1>8, <1>9, <1>10, <1>11, <1>12, <2>1, <2>2 DEF Fits
<1>16. Jumps(S, 0)
  <2>1. ASSUME NEW b \in blocks
        PROVE  S[b].ends \in {<<>>, <<first>>, <<second>>}
    BY <1>5, <1>6, <1>7
  <2>2. \A x : IsSequence(<<x>>) /\ Elements(<<x>>) = {x}
    BY OneElement, Zenon
  <2>3. IsSequence(<<>>) /\ Elements(<<>>) = {}
    BY Empty
  <2> QED
    BY <1>4, <1>15, <2>1, <2>2, <2>3 DEF Jumps
<1>17. Counts(S, {})
  <2>1. \A x : Len(<<x>>) = 1
    BY OneElement
  <2>2. Len(<<>>) = 0
    BY Empty
  <2> QED
    BY <1>2, <1>4, <1>5, <1>6, <2>1, <2>2 DEF Counts
<1>18. /\ (Shape(code[fn]))' /\ (Jumps(code[fn], returnTo))' /\ (Counts(code[fn], visited))'
  BY <1>1, <1>14, <1>16, <1>17, RegionIs
<1>19. Counted' /\ (Closed(DOMAIN preds))' /\ (Least(DOMAIN preds))' /\ (DOMAIN preds \subseteq Stmts)'
  BY <1>1, <1>2, FunctionKept
<1>20. IsSequence(queue') /\ Elements(queue') = {e}
  BY <1>1, OneElement
<1>21. Waiting' = {entry} /\ Reached' = {entry}
  BY <1>1, <1>13, <1>20 DEF Waiting, Reached
<1>22. IsState(e.state)
  BY <1>3, <1>13, RangeElements DEF IsState
<1>23. Traversal'
  BY <1>1, <1>2, <1>20, <1>21, <1>22 DEF Traversal, IsState, Stmts, function, fn
<1>24. (Reached \subseteq DOMAIN preds)' /\ returnTo' = 0 /\ (tailCall[fn])' = 0 /\ visited' = {}
  BY <1>1, <1>2, <1>21 DEF fn
<1> QED
  BY <1>18, <1>19, <1>23, <1>24 DEF BodyInv

-----------------------------------------------------------------------------
(* A function that is compiled.                                            *)

\* When the queue is empty every statement found was compiled: the region verifies.
LEMMA FunctionCompiled ==
  ASSUME ProgramInv, BodyInv, queue = <<>>
  PROVE  Compiled(fn)
<1> DEFINE R == code[fn]
<1>1. \A at \in DOMAIN preds : at \in visited
  <2>1. Waiting = {} /\ Reached = visited
    BY Empty DEF Waiting, Reached
  <2>2. visited \in SUBSET Stmts /\ function.entry \in visited /\ Closed(visited)
    BY <2>1 DEF BodyInv, Traversal, Closed
  <2> QED
    BY <2>2 DEF BodyInv, Least
<1>2. Shape(R) /\ Jumps(R, returnTo) /\ Counts(R, visited) /\ tailCall[fn] = returnTo
  BY DEF BodyInv
<1>3. CASE returnTo # 0 /\ Misfit(fn)
  BY <1>2, <1>3 DEF Compiled, RefusedLoop, Misfit
<1>4. CASE \E at \in DOMAIN preds : HasLanding(at) /\ Len(R[landing_block(at)].ends) # 1
  <2>1. PICK at \in DOMAIN preds : HasLanding(at) /\ Len(R[landing_block(at)].ends) # 1
    BY <1>4
  <2>2. at \in visited /\ landing_block(at) \in DOMAIN R
    BY <1>1, <1>2, <2>1 DEF Shape
  <2>3. IsReturn(at) /\ is_recursive /\ Len(R[landing_block(at)].ends) >= 1
    BY <1>2, <2>1, <2>2 DEF Counts
  <2>4. returnTo # 0
    BY <2>2, <2>3 DEF BodyInv
  <2>5. landing_block(at)[1] = "landing" /\ landing_block(at)[2] = at
    BY DEF landing_block
  <2>6. Len(R[landing_block(at)].ends) > 1
    <3> DEFINE n == Len(R[landing_block(at)].ends)
    <3>1. n \in Nat
      BY <1>2, <2>2, SequenceDomain DEF Jumps
    <3> HIDE DEF n
    <3>2. n # 1 /\ n >= 1
      BY <2>1, <2>3 DEF n
    <3>3. n > 1
      BY <3>1, <3>2
    <3> QED
      BY <3>3 DEF n
  <2>7. RefusedLoop(fn)
    BY <1>2, <2>2, <2>3, <2>4, <2>5, <2>6 DEF RefusedLoop
  <2> QED
    BY <2>7 DEF Compiled
<1>5. CASE /\ ~(returnTo # 0 /\ Misfit(fn))
           /\ \A at \in DOMAIN preds : HasLanding(at) => Len(R[landing_block(at)].ends) = 1
  <2> SUFFICES ASSUME NEW b \in DOMAIN R
               PROVE  /\ Len(R[b].ends) = 1
                      /\ \A jump \in JumpsOf(R[b].ends[1]) :
                           jump.to \in DOMAIN R /\ Len(jump.with) = R[jump.to].params
    BY DEF Compiled, Verifies
  <2>1. Len(R[b].ends) = 1
    <3>1. CASE b \in {pre_entry_block, entry_block}
      BY <1>2, <3>1 DEF Counts
    <3>2. ASSUME NEW at \in DOMAIN preds, b = libfunc_block(at) \/ b = cont_block(at)
          PROVE  Len(R[b].ends) = 1
      BY <1>1, <1>2, <3>2 DEF Counts
    <3>3. ASSUME NEW at \in DOMAIN preds, b = landing_block(at) /\ HasLanding(at)
          PROVE  Len(R[b].ends) = 1
      BY <1>5, <3>3
    <3>4. \/ b \in {pre_entry_block, entry_block}
          \/ \E at \in DOMAIN preds : \/ b \in {libfunc_block(at), cont_block(at)}
                                      \/ b = landing_block(at) /\ HasLanding(at)
      BY <1>2 DEF Shape
    <3> QED
      BY <3>1, <3>2, <3>3, <3>4
  <2>2. R[b].ends[1] \in Elements(R[b].ends)
    BY <2>1 DEF Elements
  <2>3. Fits(R, R[b].ends[1])
    BY <1>2, <1>5, <2>2 DEF Jumps
  <2> QED
    BY <2>1, <2>3 DEF Fits
<1> QED
  BY <1>3, <1>4, <1>5

-----------------------------------------------------------------------------
(* The compilation.                                                        *)

\* The functions of a program, each once.
LEMMA SetToSeqOf ==
  ASSUME NEW S, IsFiniteSet(S), NEW s, s = SetToSeq(S)
  PROVE  /\ IsSequence(s) /\ Elements(s) = S
         /\ \A i, j \in 1..Len(s) : s[i] = s[j] => i = j
<1> DEFINE n == Cardinality(S)
<1>1. n \in Nat /\ ExistsBijection(1..n, S)
  BY FS_CardinalityType
<1>2. PICK b \in Bijection(1..n, S) : TRUE
  BY <1>1 DEF ExistsBijection
<1>3. b \in [1..n -> S] /\ IsInjective(b)
  BY <1>2 DEF Bijection, Injection
<1>4. s \in [1..n -> S] /\ IsInjective(s)
  BY <1>3 DEF SetToSeq
<1>5. s \in Injection(1..n, S) /\ Cardinality(1..n) = n
  BY <1>1, <1>4, FS_Interval DEF Injection
<1> HIDE DEF n
<1>6. s \in Surjection(1..n, S)
  BY <1>5, FS_Injection DEF n
<1>7. s = [i \in 1..n |-> s[i]]
  BY <1>4
<1>8. IsSequence(s) /\ Len(s) = n
  BY <1>1, <1>7, FunctionIsSequence
<1>9. Elements(s) = S
  BY <1>4, <1>6, <1>8 DEF Elements, Surjection
<1> QED
  BY <1>4, <1>8, <1>9 DEF IsInjective

\* A function that is compiled stays as it is.
LEMMA CompiledKept ==
  ASSUME UNCHANGED program, NEW f, code'[f] = code[f], tailCall'[f] = tailCall[f], Compiled(f)
  PROVE  Compiled(f)'
BY DEF Compiled, Verifies, RefusedLoop, has_return_ptr, IsReturn, Statement

\* The invariant holds when the first function is about to be compiled.
LEMMA InitCompilerInv == Init => CompilerInv
<1> SUFFICES ASSUME Init PROVE CompilerInv
  OBVIOUS
<1>1. /\ program \in Programs /\ pass = "structure" /\ todo = SetToSeq(Functions)
      /\ queue = FirstVisit(fn) /\ visited = {} /\ preds = FirstPreds(fn) /\ returnTo = 0
      /\ DOMAIN code = Functions /\ DOMAIN tailCall = Functions
      /\ \A f \in Functions : tailCall[f] = 0
  BY DEF Init, CompilerInit, Functions
<1>2. ProgramInv /\ IsFiniteSet(Functions) /\ program.main \in Functions
  BY <1>1, ProgramsAssumption DEF ProgramInv, IsProgram, Functions
<1>3. /\ IsSequence(todo) /\ Elements(todo) = Functions
      /\ \A i, j \in 1..Len(todo) : todo[i] = todo[j] => i = j
  BY <1>1, <1>2, SetToSeqOf
<1>4. todo # <<>> /\ fn \in Functions
  <2>1. todo # <<>>
    BY <1>2, <1>3, Empty
  <2> QED
    BY <1>3, <2>1, HeadTail DEF fn
<1>5. StructureInv
  BY <1>1, <1>2, <1>4, FirstStep DEF Functions, Begins
<1> QED
  BY <1>1, <1>2, <1>3, <1>4, <1>5 DEF CompilerInv, Pending

\* The function being compiled, and those after it.
LEMMA FirstOfTodo ==
  ASSUME Pending, todo # <<>>
  PROVE  /\ fn \in Functions /\ fn \in Elements(todo) /\ fn \in DOMAIN code /\ fn \in DOMAIN tailCall
         /\ IsSequence(Tail(todo)) /\ Elements(todo) = Elements(Tail(todo)) \cup {fn}
         /\ fn \notin Elements(Tail(todo))
         /\ \A i, j \in 1..Len(Tail(todo)) : Tail(todo)[i] = Tail(todo)[j] => i = j
         /\ Tail(todo) # <<>> => todo[2] = Head(Tail(todo)) /\ Head(Tail(todo)) \in Functions
<1>1. /\ IsSequence(Tail(todo)) /\ Len(Tail(todo)) = Len(todo) - 1 /\ Len(todo) \in Nat \ {0}
      /\ \A i \in 1..(Len(todo) - 1) : Tail(todo)[i] = todo[i + 1]
      /\ fn = todo[1]
      /\ Elements(todo) = Elements(Tail(todo)) \cup {fn}
  BY HeadTail DEF Pending, fn
<1>2. \A i, j \in 1..Len(todo) : todo[i] = todo[j] => i = j
  BY DEF Pending
<1>3. \A i \in 1..(Len(todo) - 1) : i + 1 \in 1..Len(todo) /\ i + 1 # 1 /\ 1 \in 1..Len(todo)
  BY <1>1
<1>4. fn \notin Elements(Tail(todo))
  <2> SUFFICES ASSUME NEW i \in 1..Len(Tail(todo)) PROVE Tail(todo)[i] # fn
    BY DEF Elements
  <2>1. i \in 1..(Len(todo) - 1)
    BY <1>1
  <2> QED
    BY <1>1, <1>2, <1>3, <2>1
<1>5. \A i, j \in 1..Len(Tail(todo)) : Tail(todo)[i] = Tail(todo)[j] => i = j
  <2> SUFFICES ASSUME NEW i \in 1..Len(Tail(todo)), NEW j \in 1..Len(Tail(todo)), Tail(todo)[i] = Tail(todo)[j]
               PROVE  i = j
    OBVIOUS
  <2>1. i \in 1..(Len(todo) - 1) /\ j \in 1..(Len(todo) - 1)
    BY <1>1
  <2>2. todo[i + 1] = todo[j + 1] /\ i + 1 \in 1..Len(todo) /\ j + 1 \in 1..Len(todo)
    BY <1>1, <1>3, <2>1
  <2>3. i + 1 = j + 1
    BY <1>2, <2>2
  <2> QED
    BY <2>3
<1>6. Tail(todo) # <<>> => todo[2] = Head(Tail(todo)) /\ Head(Tail(todo)) \in Functions
  <2> SUFFICES ASSUME Tail(todo) # <<>>
               PROVE  todo[2] = Head(Tail(todo)) /\ Head(Tail(todo)) \in Functions
    OBVIOUS
  <2>1. /\ Head(Tail(todo)) = Tail(todo)[1] /\ Head(Tail(todo)) \in Elements(Tail(todo))
        /\ Len(Tail(todo)) \in Nat \ {0}
    BY <1>1, HeadTail
  <2>2. 1 \in 1..(Len(todo) - 1) /\ 1 + 1 = 2
    BY <1>1, <2>1
  <2>3. Tail(todo)[1] = todo[2]
    BY <1>1, <2>2
  <2> QED
    BY <1>1, <2>1, <2>3 DEF Pending
<1> QED
  BY <1>1, <1>4, <1>5, <1>6 DEF Pending

\* A step that goes on with the same function.
LEMMA SameFunctionStep ==
  ASSUME CompilerInv, todo # <<>>, pass # "failed", UNCHANGED <<program, todo>>,
         DOMAIN code' = DOMAIN code, DOMAIN tailCall' = DOMAIN tailCall,
         \A f \in Functions : f # fn => code'[f] = code[f] /\ tailCall'[f] = tailCall[f],
         pass' \in {"structure", "body", "failed"},
         pass' = "structure" => StructureInv' /\ returnTo' = 0 /\ UNCHANGED tailCall /\ pass = "structure",
         pass' = "body" => BodyInv' /\ pass \in {"structure", "body"}
  PROVE  CompilerInv'
<1>1. /\ fn \in Elements(todo) /\ Elements(todo) = Elements(Tail(todo)) \cup {fn}
      /\ fn \notin Elements(Tail(todo)) /\ Elements(todo) \subseteq Functions
  BY FirstOfTodo DEF CompilerInv, Pending
<1>2. ProgramInv' /\ Pending' /\ Functions' = Functions
  BY DEF CompilerInv, ProgramInv, Pending, Functions
<1>3. ASSUME NEW f \in Functions \ Elements(todo) PROVE Compiled(f)'
  <2>1. f # fn /\ Compiled(f)
    BY <1>1, <1>3 DEF CompilerInv
  <2> QED
    BY <2>1, CompiledKept
<1>4. pass' = "structure" => \A f \in Elements(todo) : tailCall'[f] = 0
  BY DEF CompilerInv
<1>5. pass' = "body" => \A f \in Elements(Tail(todo)) : tailCall'[f] = 0
  <2> SUFFICES ASSUME pass' = "body", NEW f \in Elements(Tail(todo)) PROVE tailCall'[f] = 0
    OBVIOUS
  <2>1. f # fn /\ f \in Functions /\ tailCall[f] = 0
    BY <1>1 DEF CompilerInv
  <2> QED
    BY <2>1
<1>6. todo' = todo /\ Elements(todo)' = Elements(todo) /\ Elements(Tail(todo))' = Elements(Tail(todo))
  OBVIOUS
<1> QED
  BY <1>2, <1>3, <1>4, <1>5, <1>6 DEF CompilerInv

\* The next function begins, or none remains.
LEMMA FinishBodyStep ==
  ASSUME CompilerInv, FinishBody, UNCHANGED program
  PROVE  CompilerInv'
<1>1. /\ pass = "body" /\ queue = <<>> /\ todo' = Tail(todo) /\ UNCHANGED <<program, code, tailCall>>
  BY DEF FinishBody
<1>2. ProgramInv /\ Pending /\ todo # <<>> /\ BodyInv /\ \A f \in Elements(Tail(todo)) : tailCall[f] = 0
  BY <1>1 DEF CompilerInv
<1>3. /\ fn \in Functions /\ fn \in Elements(todo)
      /\ IsSequence(Tail(todo)) /\ Elements(todo) = Elements(Tail(todo)) \cup {fn}
      /\ \A i, j \in 1..Len(Tail(todo)) : Tail(todo)[i] = Tail(todo)[j] => i = j
      /\ Tail(todo) # <<>> => todo[2] = Head(Tail(todo)) /\ Head(Tail(todo)) \in Functions
  BY <1>2, FirstOfTodo
<1>4. Compiled(fn)
  BY <1>1, <1>2, FunctionCompiled
<1>5. \A f \in Functions \ Elements(Tail(todo)) : Compiled(f)
  BY <1>1, <1>3, <1>4 DEF CompilerInv
<1>6. \A f \in Functions' \ Elements(todo') : Compiled(f)'
  <2> SUFFICES ASSUME NEW f \in Functions \ Elements(Tail(todo)) PROVE Compiled(f)'
    BY <1>1 DEF Functions
  <2> QED
    BY <1>1, <1>5, CompiledKept
<1>7. /\ ProgramInv' /\ IsSequence(todo') /\ (Elements(todo) \subseteq Functions)'
      /\ (\A i, j \in 1..Len(todo) : todo[i] = todo[j] => i = j)'
      /\ (DOMAIN code = Functions)' /\ (DOMAIN tailCall = Functions)'
  BY <1>1, <1>2, <1>3 DEF ProgramInv, Pending, Functions
<1>8. CASE Tail(todo) = <<>>
  <2>1. pass' = "verify" /\ todo' = <<>>
    BY <1>1, <1>8 DEF FinishBody
  <2> QED
    BY <1>6, <1>7, <2>1 DEF CompilerInv, Pending
<1>9. CASE Tail(todo) # <<>>
  <2>1. /\ pass' = "structure" /\ queue' = FirstVisit(todo[2]) /\ visited' = {}
        /\ preds' = FirstPreds(todo[2]) /\ returnTo' = 0
    BY <1>9 DEF FinishBody
  <2>2. fn' = todo[2] /\ todo[2] \in Functions
    BY <1>1, <1>3, <1>9 DEF fn
  <2>3. queue' = (FirstVisit(fn))' /\ preds' = (FirstPreds(fn))'
    BY <1>1, <2>1, <2>2 DEF FirstVisit, FirstPreds
  <2>4. Begins'
    BY <1>1, <1>7, <2>1, <2>2, <2>3 DEF Begins, Functions
  <2>5. StructureInv'
    BY <2>4, FirstStep, PTL
  <2> QED
    BY <1>1, <1>2, <1>6, <1>7, <1>9, <2>1, <2>5 DEF CompilerInv, Pending
<1> QED
  BY <1>8, <1>9

\* The verifier changes no code.
LEMMA VerifyStep ==
  ASSUME CompilerInv, Verify, UNCHANGED program
  PROVE  CompilerInv'
<1>1. /\ pass = "verify" /\ pass' \in {"run", "failed"} /\ UNCHANGED <<program, todo, code, tailCall>>
  BY DEF Verify
<1>2. ProgramInv' /\ Pending' /\ Functions' = Functions /\ todo' = <<>> /\ Elements(todo') = Elements(todo)
  BY <1>1 DEF CompilerInv, ProgramInv, Pending, Functions
<1>3. ASSUME NEW f \in Functions \ Elements(todo) PROVE Compiled(f)'
  <2>1. Compiled(f)
    BY <1>1 DEF CompilerInv
  <2> QED
    BY <1>1, <2>1, CompiledKept
<1> QED
  BY <1>1, <1>2, <1>3 DEF CompilerInv

\* Running a program changes no code.
LEMMA UnchangedStep ==
  ASSUME CompilerInv, UNCHANGED program, UNCHANGED compilerVars
  PROVE  CompilerInv'
<1>1. UNCHANGED <<program, pass, todo, queue, visited, preds, tails, returnTo, code, states, tailCall>>
  BY DEF compilerVars
<1>2. StructureInv => StructureInv'
  BY <1>1 DEF StructureInv, Traversal, Counted, Least, Closed, Reached, Waiting, Targets, Statement,
     Stmts, IsState, function, fn
<1>3. BodyInv => BodyInv'
  <2>1. Traversal' = Traversal /\ Reached' = Reached /\ (Stmts)' = Stmts
    BY <1>1 DEF Traversal, Reached, Waiting, Targets, Statement, Stmts, IsState, function, fn
  <2>2. /\ Counted' = Counted /\ (Closed(DOMAIN preds))' = Closed(DOMAIN preds)
        /\ (Least(DOMAIN preds))' = Least(DOMAIN preds)
    BY <1>1, FunctionKept
  <2>3. (Shape(code[fn]))' = Shape(code[fn])
    BY <1>1 DEF Shape, fn, function, HasLanding, Statement
  <2>4. (Jumps(code[fn], returnTo))' = Jumps(code[fn], returnTo)
    BY <1>1 DEF Jumps, Fits, Misfit, has_return_ptr, fn
  <2>5. (Counts(code[fn], visited))' = Counts(code[fn], visited)
    BY <1>1 DEF Counts, HasLanding, IsReturn, Statement, is_recursive, fn
  <2>6. /\ fn' = fn /\ is_recursive' = is_recursive /\ \A at : (IsReturn(at))' = IsReturn(at)
        /\ (cont_block(returnTo))' = cont_block(returnTo)
    BY <1>1 DEF fn, is_recursive, IsReturn, Statement, cont_block
  <2> QED
    BY <1>1, <2>1, <2>2, <2>3, <2>4, <2>5, <2>6 DEF BodyInv
<1>4. \A f \in Functions \ Elements(todo) : Compiled(f) => Compiled(f)'
  BY <1>1, CompiledKept
<1>5. ProgramInv' /\ Pending' /\ Functions' = Functions
  BY <1>1 DEF CompilerInv, ProgramInv, Pending, Functions
<1> QED
  BY <1>1, <1>2, <1>3, <1>4, <1>5 DEF CompilerInv

\* Every step keeps the invariant.
LEMMA NextCompilerInv ==
  ASSUME CompilerInv, [Next]_vars
  PROVE  CompilerInv'
<1>1. CASE UNCHANGED vars
  <2>1. UNCHANGED program /\ UNCHANGED compilerVars
    BY <1>1 DEF vars
  <2> QED
    BY <2>1, UnchangedStep
<1>2. CASE Run /\ UNCHANGED compilerVars /\ UNCHANGED <<program, input>>
  BY <1>2, UnchangedStep
<1>3. CASE Compile /\ UNCHANGED <<program, input>>
  <2> USE <1>3
  <2>1. ProgramInv /\ Pending
    BY DEF CompilerInv
  <2>2. ASSUME pass = "structure"
        PROVE  /\ todo # <<>> /\ StructureInv /\ returnTo = 0 /\ tailCall[fn] = 0
               /\ fn \in Functions /\ fn \in DOMAIN code /\ fn \in DOMAIN tailCall
    BY <2>1, <2>2, FirstOfTodo DEF CompilerInv
  <2>3. ASSUME pass = "body"
        PROVE  /\ todo # <<>> /\ BodyInv
               /\ fn \in Functions /\ fn \in DOMAIN code /\ fn \in DOMAIN tailCall
    BY <2>1, <2>3, FirstOfTodo DEF CompilerInv
  <2>4. CASE SkipVisited
    <3>1. pass \in {"structure", "body"} /\ UNCHANGED <<pass, todo, returnTo, code, tailCall>>
      BY <2>4 DEF SkipVisited
    <3>2. pass = "structure" => StructureInv'
      BY <2>2, <2>4, SkipStructureStep
    <3>3. pass = "body" => BodyInv'
      BY <2>3, <2>4, SkipBodyStep
    <3> QED
      BY <2>2, <2>3, <3>1, <3>2, <3>3, SameFunctionStep
  <2>5. CASE VisitStructure
    <3>1. /\ pass = "structure" /\ pass' \in {"structure", "failed"}
          /\ UNCHANGED <<todo, returnTo, code, tailCall>>
      BY <2>5 DEF VisitStructure, Visiting
    <3>2. StructureInv'
      BY <2>1, <2>2, <2>5, <3>1, VisitStructureStep
    <3> QED
      BY <2>2, <3>1, <3>2, SameFunctionStep
  <2>6. CASE FinishStructure
    <3>1. /\ pass = "structure" /\ pass' = "body" /\ UNCHANGED <<todo, tailCall>>
          /\ DOMAIN code' = DOMAIN code /\ \A f \in DOMAIN code : f # fn => code'[f] = code[f]
      BY <2>6 DEF FinishStructure
    <3>2. BodyInv'
      BY <2>1, <2>2, <2>6, <3>1, FinishStructureStep
    <3> QED
      BY <2>1, <2>2, <3>1, <3>2, SameFunctionStep DEF Pending
  <2>7. CASE BuildInvocation
    <3>1. /\ pass = "body" /\ pass' = "body" /\ UNCHANGED <<todo, tailCall>>
          /\ DOMAIN code' = DOMAIN code /\ \A f \in DOMAIN code : f # fn => code'[f] = code[f]
      BY <2>7 DEF BuildInvocation, Visiting
    <3>2. BodyInv'
      BY <2>1, <2>3, <2>7, <3>1, BuildInvocationStep
    <3> QED
      BY <2>1, <2>3, <3>1, <3>2, SameFunctionStep DEF Pending
  <2>8. CASE BuildTailCall
    <3>1. /\ pass = "body" /\ pass' = "body" /\ UNCHANGED todo
          /\ DOMAIN code' = DOMAIN code /\ \A f \in DOMAIN code : f # fn => code'[f] = code[f]
          /\ DOMAIN tailCall' = DOMAIN tailCall
      BY <2>8 DEF BuildTailCall, Visiting
    <3>2. BodyInv' /\ \A f \in DOMAIN tailCall : f # fn => tailCall'[f] = tailCall[f]
      BY <2>1, <2>3, <2>8, <3>1, BuildTailCallStep
    <3> QED
      BY <2>1, <2>3, <3>1, <3>2, SameFunctionStep DEF Pending
  <2>9. CASE DeferReturn
    <3>1. /\ pass = "body" /\ pass' = "body" /\ UNCHANGED <<todo, tailCall>>
          /\ DOMAIN code' = DOMAIN code /\ \A f \in DOMAIN code : f # fn => code'[f] = code[f]
      BY <2>9 DEF DeferReturn, Visiting
    <3>2. BodyInv'
      BY <2>1, <2>3, <2>9, <3>1, DeferReturnStep
    <3> QED
      BY <2>1, <2>3, <3>1, <3>2, SameFunctionStep DEF Pending
  <2>10. CASE BuildReturn
    <3>1. /\ pass = "body" /\ pass' \in {"body", "failed"} /\ UNCHANGED <<todo, tailCall>>
          /\ DOMAIN code' = DOMAIN code /\ \A f \in DOMAIN code : f # fn => code'[f] = code[f]
      BY <2>10 DEF BuildReturn, Visiting
    <3>2. BodyInv'
      BY <2>1, <2>3, <2>10, <3>1, BuildReturnStep
    <3> QED
      BY <2>1, <2>3, <3>1, <3>2, SameFunctionStep DEF Pending
  <2>11. CASE FinishBody
    BY <2>11, FinishBodyStep
  <2>12. CASE Verify
    BY <2>12, VerifyStep
  <2> QED
    BY <2>4, <2>5, <2>6, <2>7, <2>8, <2>9, <2>10, <2>11, <2>12 DEF Compile
<1> QED
  BY <1>1, <1>2, <1>3 DEF Next

\* Every block of a compiled function is ended exactly once and every jump hands its block what
\* the block declares, unless the function is a loop that the compiler is known to refuse
\* (generate_function_structure, generate_branching_targets, compile_func).
THEOREM ModulesVerify == Spec => []ModuleVerifies
<1>1. Init => CompilerInv
  BY InitCompilerInv
<1>2. CompilerInv /\ [Next]_vars => CompilerInv'
  BY NextCompilerInv
<1>3. CompilerInv => ModuleVerifies
  <2> SUFFICES ASSUME CompilerInv, pass \in {"verify", "run"}, NEW f \in DOMAIN code
               PROVE  Verifies(f) \/ RefusedLoop(f)
    BY DEF ModuleVerifies
  <2>1. todo = <<>> /\ f \in Functions
    BY DEF CompilerInv, Pending
  <2>2. Compiled(f)
    BY <2>1, Empty DEF CompilerInv
  <2> QED
    BY <2>2 DEF Compiled
<1> QED
  BY <1>1, <1>2, <1>3, PTL DEF Spec
-----------------------------------------------------------------------------
(* What the first traversal learns: variables alive, edges, tail calls.    *)

Branches(p) == DOMAIN Statement(p).branches
Target(p, n) == Statement(p).branches[n].target
ResultsOf(p, n) == Statement(p).branches[n].results
Taken(p) == Range(Statement(p).args)

\* The variables alive after a branch, when these were alive before the statement.
LiveAfter(alive, p, n) == (alive \ Taken(p)) \cup Range(ResultsOf(p, n))

\* The statements of C take what is alive, and leave alive what their targets expect.
Alive(C) == \A p \in C :
  /\ Taken(p) \subseteq preds[p].vars
  /\ \A n \in Branches(p) : preds[Target(p, n)].vars = LiveAfter(preds[p].vars, p, n)

\* Branches of C to the same statement are counted apart.
Edges(C) == \A t \in DOMAIN preds :
  /\ preds[t].count \in Nat
  /\ \A p \in C : \A n \in Branches(p) : Target(p, n) = t =>
       /\ preds[t].count >= 1
       /\ \A q \in C : \A m \in Branches(q) :
            Target(q, m) = t /\ (p # q \/ n # m) => preds[t].count >= 2

\* So are tail calls.
IsTail(p) == Statement(p).fn = fn /\ preds[p].vars = Taken(p)
Tails(C) ==
  /\ tails \in Nat
  /\ \A p \in C : IsTail(p) =>
       /\ tails >= 1
       /\ \A q \in C : IsTail(q) /\ p # q => tails >= 2

Graph(C) ==
  /\ Alive(C) /\ Edges(C) /\ Tails(C)
  /\ preds[function.entry].vars = Range(function.params)
  /\ preds[function.entry].count = 0

GraphInv ==
  /\ Graph(visited)
  /\ \A e \in Elements(queue) : DOMAIN e.state = preds[e.at].vars

-----------------------------------------------------------------------------
(* What a region R computes.  S has the registers of the variables at each *)
(* statement, loop is the tail call that became a jump, live has the       *)
(* variables alive, and joins are the statements behind a landing block.   *)

Index(s, v) == CHOOSE i \in DOMAIN s : s[i] = v

\* Where the results of a branch are found.
Source(loop, p, n) == IF p = loop THEN cont_block(p) ELSE Results(p, n)
ValueAfter(S, loop, p, n, v) ==
  IF v \in Range(ResultsOf(p, n)) THEN argument(Source(loop, p, n), Index(ResultsOf(p, n), v))
  ELSE S[p][v]
After(S, loop, p, n) ==
  [v \in LiveAfter(DOMAIN S[p], p, n) |-> ValueAfter(S, loop, p, n, v)]

InitialState(f) ==
  [v \in Range(program.functions[f].params) |->
     argument(entry_block, Index(program.functions[f].params, v))]
LandingState(alive, p) == [v \in alive |-> argument(landing_block(p), Index(Sorted(alive), v))]

\* A state at a statement is the first one, or follows a branch.
Origin(f, S, loop, t, state) ==
  \/ t = program.functions[f].entry /\ state = InitialState(f)
  \/ \E p \in DOMAIN S : \E n \in Branches(p) : Target(p, n) = t /\ state = After(S, loop, p, n)

\* Its registers are no arguments of a statement's block, and no results of a later statement.
Settled(r, p) == r[1][1] # "libfunc" /\ (r[1][1] = "result" => r[1][2] \in Nat /\ r[1][2] < p)
Holds(state, p) == \A v \in DOMAIN state : Settled(state[v], p)

\* A jump to the block of a statement with its operands.
Operates(state, p, end) ==
  /\ end.op = "br" /\ end.to = libfunc_block(p)
  /\ end.with = [i \in DOMAIN Statement(p).args |-> state[Statement(p).args[i]]]

\* A jump along a branch.
Wanted(live, joins, t) == IF t \in joins THEN Sorted(live[t]) ELSE Statement(t).args
Leads(S, loop, live, joins, p, n, jump) ==
  LET t == Target(p, n)
      wanted == Wanted(live, joins, t)
  IN /\ jump.to = IF t \in joins THEN landing_block(t) ELSE libfunc_block(t)
     /\ jump.with = [i \in DOMAIN wanted |-> ValueAfter(S, loop, p, n, wanted[i])]

\* The terminator of a statement.
Ends(f, S, loop, live, joins, p, end) ==
  \/ IsReturn(p) /\ loop = 0 /\ end.op = "return"
  \/ /\ IsReturn(p) /\ loop # 0 /\ end.op = "shallower" /\ end.to = cont_block(loop)
     /\ \E kept \in SUBSET DOMAIN program.functions[f].rets :
          end.with = [i \in DOMAIN Sorted(kept) |-> argument(libfunc_block(p), Sorted(kept)[i])]
  \/ /\ ~IsReturn(p) /\ p = loop /\ end.op = "deeper" /\ end.to = entry_block
     /\ end.with = Arguments(libfunc_block(p), Len(Statement(p).args))
  \/ /\ ~IsReturn(p) /\ p # loop /\ end.op = IF IsCall(p) THEN "call" ELSE "libfunc"
     /\ end.fn = Statement(p).fn
     /\ DOMAIN end.branches = Branches(p)
     /\ \A n \in Branches(p) : Leads(S, loop, live, joins, p, n, end.branches[n])

\* What the statements of a function promise each other.
Static(f, live, joins) ==
  LET entry == program.functions[f].entry IN
  /\ joins \subseteq DOMAIN live /\ DOMAIN live \subseteq Stmts /\ Closed(DOMAIN live)
  /\ entry \in DOMAIN live \ joins /\ live[entry] = Range(program.functions[f].params)
  /\ \A p \in DOMAIN live :
       /\ p >= entry
       /\ live[p] \in SUBSET Nat /\ IsFiniteSet(live[p])
       /\ Taken(p) \subseteq live[p]
       /\ IsReturn(p) => Len(Statement(p).args) = Len(program.functions[f].rets)
       /\ \A n \in Branches(p) : live[Target(p, n)] = LiveAfter(live[p], p, n)
  /\ \A p, q \in DOMAIN live : \A n \in Branches(p), m \in Branches(q) :
       Target(p, n) = Target(q, m) /\ Target(p, n) \notin joins => p = q /\ n = m

\* What is written of the region.
Written(f, R, S, loop, live, joins) ==
  /\ DOMAIN S \subseteq DOMAIN live
  /\ \A p \in DOMAIN S :
       /\ DOMAIN S[p] = live[p] /\ Holds(S[p], p)
       /\ IF p \in joins THEN S[p] = LandingState(live[p], p) ELSE Origin(f, S, loop, p, S[p])
       /\ \A end \in Elements(R[libfunc_block(p)].ends) : Ends(f, S, loop, live, joins, p, end)
  /\ \A p \in joins : \A end \in Elements(R[landing_block(p)].ends) :
       Operates(LandingState(live[p], p), p, end)
  /\ \A end \in Elements(R[pre_entry_block].ends) :
       /\ end.op = "br" /\ end.to = entry_block
       /\ end.with = Arguments(pre_entry_block, Len(program.functions[f].params))
  /\ \A end \in Elements(R[entry_block].ends) :
       Operates(InitialState(f), program.functions[f].entry, end)
  /\ loop # 0 =>
       /\ loop \in DOMAIN S /\ Statement(loop).fn = f /\ live[loop] = Taken(loop)
       /\ \A end \in Elements(R[cont_block(loop)].ends) :
            end.op = "br" /\ Leads(S, loop, live, joins, loop, 1, end)

\* While the blocks are written.
LiveHere == [p \in DOMAIN preds |-> preds[p].vars]
JoinsHere == {p \in DOMAIN preds : HasLanding(p)}

WrittenInv ==
  /\ Tails(DOMAIN preds) /\ Static(fn, LiveHere, JoinsHere)
  /\ DOMAIN states[fn] = visited
  /\ Written(fn, code[fn], states[fn], returnTo, LiveHere, JoinsHere)
  /\ returnTo # 0 => is_recursive /\ IsTail(returnTo)
  /\ is_recursive => \A p \in visited : IsTail(p) => p = returnTo
  /\ \A e \in Elements(queue) : Origin(fn, states[fn], returnTo, e.at, e.state)

\* Once they are.
LiveOf(f) == [p \in DOMAIN states[f] |-> DOMAIN states[f][p]]
JoinsOf(f) == {p \in DOMAIN states[f] : landing_block(p) \in DOMAIN code[f]}

Means(f) ==
  /\ Static(f, LiveOf(f), JoinsOf(f))
  /\ Written(f, code[f], states[f], tailCall[f], LiveOf(f), JoinsOf(f))
  /\ \A p \in DOMAIN states[f] :
       /\ libfunc_block(p) \in DOMAIN code[f]
       /\ code[f][libfunc_block(p)].params = Len(Statement(p).args)
  /\ {pre_entry_block, entry_block} \subseteq DOMAIN code[f]
  /\ tailCall[f] # 0 =>
       /\ cont_block(tailCall[f]) \in DOMAIN code[f]
       /\ code[f][cont_block(tailCall[f])].params = Len(program.functions[f].rets)

MeaningInv ==
  /\ CompilerInv
  /\ DOMAIN states = Functions
  /\ pass = "structure" => GraphInv /\ \A f \in Elements(todo) : states[f] = <<>>
  /\ pass = "body" => WrittenInv /\ \A f \in Elements(Tail(todo)) : states[f] = <<>>
  /\ pass # "failed" => \A f \in Functions \ Elements(todo) : Means(f)

-----------------------------------------------------------------------------
(* Native frames.                                                          *)

\* The arguments of a statement's block are what the variables hold.
Operand(frame, p) ==
  \A i \in DOMAIN Statement(p).args :
    Read(frame, argument(libfunc_block(p), i)) = Read(frame, states[frame.fn][p][Statement(p).args[i]])

\* Where the last frame is, and where one is that waits for another.
Stands(frame) ==
  LET f == frame.fn IN
  \/ frame.block \in {pre_entry_block, entry_block}
  \/ tailCall[f] # 0 /\ frame.block = cont_block(tailCall[f])
  \/ \E p \in JoinsOf(f) : frame.block = landing_block(p)
  \/ \E p \in DOMAIN states[f] : frame.block = libfunc_block(p) /\ Operand(frame, p)
Waits(frame) ==
  \E p \in DOMAIN states[frame.fn] :
    frame.block = libfunc_block(p) /\ IsCall(p) /\ p # tailCall[frame.fn]

IsFrame(frame) == DOMAIN frame = {"fn", "block", "regs", "depth", "slots"}
FrameInv(frame) ==
  /\ IsFrame(frame) /\ frame.fn \in Functions
  /\ frame.depth \in Nat /\ frame.depth < DepthModulus
  /\ frame.depth # 0 => tailCall[frame.fn] # 0

StackInv ==
  /\ IsSequence(stack)
  /\ \A n \in 1..Len(stack) :
       /\ FrameInv(stack[n])
       /\ n = Len(stack) => Stands(stack[n])
       /\ n < Len(stack) =>
            Waits(stack[n]) /\ stack[n + 1].fn = Statement(stack[n].block[2]).fn

RunInv ==
  /\ input \in [DOMAIN program.functions[program.main].params -> Inputs]
  /\ pass # "run" => stack = <<>> /\ answer = NoAnswer
  /\ pass = "run" => \A f \in Functions : Verifies(f)
  /\ StackInv

\* Libfuncs answer as their branches declare, and the depth of a loop fits its counter.
WithinBounds ==
  /\ Running("libfunc") =>
       LET out == Libfunc(End.fn, Operands)
       IN /\ out.branch \in DOMAIN End.branches
          /\ DOMAIN out.results = DOMAIN ResultsOf(Frame.block[2], out.branch)
  /\ Running("deeper") => Frame.depth + 1 < DepthModulus
-----------------------------------------------------------------------------
(* Flattening a sequence of sequences.                                     *)

FlattenStep(s, g, i) == IF i = 1 THEN s[i] ELSE g[i - 1] \o s[i]
Flattens(s, g, n) == g = [i \in 1..n |-> FlattenStep(s, g, i)]
FlattenOf(s) ==
  CHOOSE g : g = [i \in 1..Len(s) |-> IF i = 1 THEN s[i] ELSE g[i - 1] \o s[i]]

LEMMA FlattenDef ==
  ASSUME NEW s, Len(s) # 0
  PROVE  FlattenSeq(s) = FlattenOf(s)[Len(s)]
BY DEF FlattenSeq, FlattenOf

\* Induction on numbers, over a set of them.
LEMMA NumberInduction ==
  ASSUME NEW A, 0 \in A, \A n \in Nat : n \in A => n + 1 \in A
  PROVE  Nat \subseteq A
<1> SUFFICES ASSUME ~(Nat \subseteq A) PROVE FALSE
  OBVIOUS
<1> DEFINE T == Nat \ A
<1>1. T \in SUBSET Nat /\ T # {}
  OBVIOUS
<1>2. \A m : m \in T <=> m \in Nat /\ m \notin A
  OBVIOUS
<1> HIDE DEF T
<1>3. PICK m \in T : \A k \in T : m <= k
  BY <1>1, LeastExists
<1>4. m \in Nat /\ m # 0 /\ m - 1 \in Nat /\ ~(m <= m - 1) /\ (m - 1) + 1 = m
  BY <1>2, <1>3
<1> QED
  BY <1>2, <1>3, <1>4

\* The recursion has a solution.
LEMMA FlattenExists ==
  ASSUME NEW s, NEW n \in Nat
  PROVE  \E g : Flattens(s, g, n)
<1> DEFINE A == {m \in Nat : \E g : Flattens(s, g, m)}
<1>1. 0 \in A
  <2>1. Flattens(s, [i \in 1..0 |-> 0], 0)
    BY DEF Flattens
  <2> QED
    BY <2>1
<1>2. ASSUME NEW m \in Nat, m \in A
      PROVE  m + 1 \in A
  <2>1. PICK g : Flattens(s, g, m)
    BY <1>2
  <2> DEFINE h == [i \in 1..(m + 1) |-> FlattenStep(s, g, i)]
  <2>2. \A i \in 1..m : h[i] = g[i]
    BY <2>1 DEF Flattens
  <2>3. \A i \in 1..(m + 1) : i # 1 => i - 1 \in 1..m
    OBVIOUS
  <2>4. \A i \in 1..(m + 1) : FlattenStep(s, h, i) = FlattenStep(s, g, i)
    <3> SUFFICES ASSUME NEW i \in 1..(m + 1) PROVE FlattenStep(s, h, i) = FlattenStep(s, g, i)
      OBVIOUS
    <3>1. CASE i = 1
      BY <3>1 DEF FlattenStep
    <3>2. CASE i # 1
      <4>1. h[i - 1] = g[i - 1]
        BY <2>2, <2>3, <3>2
      <4> HIDE DEF h
      <4> QED
        BY <3>2, <4>1 DEF FlattenStep
    <3> QED
      BY <3>1, <3>2
  <2>5. h = [i \in 1..(m + 1) |-> FlattenStep(s, h, i)]
    BY <2>4
  <2> HIDE DEF h
  <2>6. Flattens(s, h, m + 1)
    BY <2>5 DEF Flattens
  <2> QED
    BY <2>6
<1> HIDE DEF A
<1>3. n \in A
  BY <1>1, <1>2, NumberInduction
<1> QED
  BY <1>3 DEF A

\* And a single one.
LEMMA FlattenUnique ==
  ASSUME NEW s, NEW n \in Nat, NEW g, Flattens(s, g, n), NEW h, Flattens(s, h, n)
  PROVE  g = h
<1>1. g = [i \in 1..n |-> FlattenStep(s, g, i)] /\ h = [i \in 1..n |-> FlattenStep(s, h, i)]
  BY DEF Flattens
<1>2. ASSUME NEW j \in 1..n, g[j] # h[j]
      PROVE  FALSE
  <2> DEFINE T == {i \in 1..n : g[i] # h[i]}
  <2>1. T \in SUBSET Nat /\ T # {} /\ \A i : i \in T <=> i \in 1..n /\ g[i] # h[i]
    BY <1>2
  <2> HIDE DEF T
  <2>2. PICK i \in T : \A k \in T : i <= k
    BY <2>1, LeastExists
  <2>3. i \in 1..n /\ g[i] # h[i] /\ g[i] = FlattenStep(s, g, i) /\ h[i] = FlattenStep(s, h, i)
    BY <1>1, <2>1, <2>2
  <2>4. i # 1
    BY <2>3 DEF FlattenStep
  <2>5. i - 1 \in 1..n /\ ~(i <= i - 1)
    BY <2>3, <2>4
  <2>6. g[i - 1] = h[i - 1]
    BY <2>1, <2>2, <2>5
  <2> QED
    BY <2>3, <2>6 DEF FlattenStep
<1> QED
  BY <1>1, <1>2

LEMMA FlattenIs ==
  ASSUME NEW s, Len(s) \in Nat
  PROVE  Flattens(s, FlattenOf(s), Len(s))
<1>1. \E g : g = [i \in 1..Len(s) |-> IF i = 1 THEN s[i] ELSE g[i - 1] \o s[i]]
  BY FlattenExists, Zenon DEF Flattens, FlattenStep
<1>2. FlattenOf(s) = [i \in 1..Len(s) |-> IF i = 1 THEN s[i] ELSE FlattenOf(s)[i - 1] \o s[i]]
  BY <1>1, Zenon DEF FlattenOf
<1> QED
  BY <1>2 DEF Flattens, FlattenStep

LEMMA FlattenAppend ==
  ASSUME NEW s, IsSequence(s), NEW x, IsSequence(x)
  PROVE  FlattenSeq(s \o <<x>>) = FlattenSeq(s) \o x
<1> DEFINE t == s \o <<x>>
           n == Len(s)
           g == FlattenOf(t)
           r == [i \in 1..n |-> g[i]]
<1>1. /\ IsSequence(t) /\ Len(t) = n + 1 /\ n \in Nat
      /\ \A i \in 1..n : t[i] = s[i]
      /\ t[n + 1] = x
  <2>1. IsSequence(<<x>>) /\ Len(<<x>>) = 1 /\ <<x>>[1] = x
    BY OneElement
  <2>2. n \in Nat
    BY SequenceDomain
  <2>3. IsSequence(t) /\ Len(t) = n + 1 /\ \A i \in 1..n : t[i] = s[i]
    BY <2>1, Concatenation
  <2>4. \A i \in 1..1 : t[n + i] = <<x>>[i]
    BY <2>1, Concatenation
  <2> HIDE DEF t, n
  <2> QED
    BY <2>1, <2>2, <2>3, <2>4
<1> HIDE DEF t, n
<1>2. Flattens(t, g, n + 1)
  BY <1>1, FlattenIs
<1>3. FlattenSeq(t) = g[n + 1]
  BY <1>1, FlattenDef
<1> HIDE DEF g
<1>4. g = [i \in 1..(n + 1) |-> FlattenStep(t, g, i)]
  BY <1>2 DEF Flattens
<1>5. g[n + 1] = FlattenStep(t, g, n + 1)
  BY <1>1, <1>4
<1>6. CASE n = 0
  <2>1. s = <<>>
    BY <1>6, EmptyIs DEF n
  <2>2. FlattenSeq(s) = <<>>
    BY <1>6, <2>1, Empty DEF FlattenSeq, n
  <2>3. <<>> \o x = x
    <3>1. Len(<<>> \o x) = Len(x) /\ IsSequence(<<>> \o x) /\ \A i \in 1..Len(x) : (<<>> \o x)[i] = x[i]
      <4>1. IsSequence(<<>>) /\ Len(<<>>) = 0 /\ Len(x) \in Nat
        BY Empty, SequenceDomain
      <4>2. \A i \in 1..Len(x) : (<<>> \o x)[Len(<<>>) + i] = x[i]
        BY <4>1, Concatenation
      <4>3. Len(<<>> \o x) = Len(<<>>) + Len(x) /\ IsSequence(<<>> \o x)
        BY <4>1, Concatenation
      <4>4. \A i \in 1..Len(x) : 0 + i = i
        BY <4>1
      <4> QED
        BY <4>1, <4>2, <4>3, <4>4
    <3> QED
      BY <3>1, SameSequence
  <2>4. FlattenStep(t, g, n + 1) = x
    BY <1>1, <1>6 DEF FlattenStep
  <2> QED
    BY <1>3, <1>5, <2>2, <2>3, <2>4 DEF t
<1>7. CASE n # 0
  <2>1. \A i \in 1..n : FlattenStep(s, r, i) = FlattenStep(t, g, i) /\ i \in 1..(n + 1)
    <3> SUFFICES ASSUME NEW i \in 1..n
                 PROVE  FlattenStep(s, r, i) = FlattenStep(t, g, i) /\ i \in 1..(n + 1)
      OBVIOUS
    <3>1. t[i] = s[i] /\ i \in 1..(n + 1)
      BY <1>1
    <3>2. i # 1 => i - 1 \in 1..n
      BY <1>1
    <3>3. i # 1 => r[i - 1] = g[i - 1]
      BY <3>2
    <3> HIDE DEF r
    <3> QED
      BY <3>1, <3>3 DEF FlattenStep
  <2>2. r = [i \in 1..n |-> FlattenStep(s, r, i)]
    BY <1>4, <2>1
  <2>3. r[n] = g[n] /\ (n + 1) - 1 = n /\ n + 1 # 1
    BY <1>1, <1>7
  <2> HIDE DEF r
  <2>4. Flattens(s, r, n) /\ Flattens(s, FlattenOf(s), n)
    BY <1>1, <2>2, FlattenIs DEF Flattens, n
  <2>5. FlattenSeq(s) = r[n]
    BY <1>1, <1>7, <2>4, FlattenUnique, FlattenDef DEF n
  <2>6. FlattenStep(t, g, n + 1) = g[n] \o x
    BY <1>1, <2>3 DEF FlattenStep
  <2> QED
    BY <1>3, <1>5, <2>3, <2>5, <2>6 DEF t
<1> QED
  BY <1>6, <1>7

LEMMA FlattenEmpty == FlattenSeq(<<>>) = <<>>
BY Empty DEF FlattenSeq
-----------------------------------------------------------------------------
(* The first traversal counts every branch and every tail call.            *)

\* Validation leaves branches that lead forward.
LEMMA ForwardFacts ==
  ASSUME ProgramInv, NEW p \in Stmts
  PROVE  /\ \A n \in Branches(p) : Target(p, n) \in Stmts /\ Target(p, n) > p
         /\ IsCall(p) => Len(ResultsOf(p, 1)) = Len(program.functions[Statement(p).fn].rets)
<1>1. IsForward(program)
  BY ForwardAssumption DEF ProgramInv
<1>2. \A n \in Branches(p) : Target(p, n) \in Stmts
  BY StatementFacts DEF Branches, Target
<1> QED
  BY <1>1, <1>2 DEF IsForward, Branches, Target, ResultsOf, Statement, IsCall, Stmts

\* What has one element, or two, counts as many.
LEMMA AtLeast ==
  ASSUME NEW T, IsFiniteSet(T)
  PROVE  /\ Cardinality(T) \in Nat
         /\ T = {} => Cardinality(T) = 0
         /\ \A a \in T : Cardinality(T) >= 1
         /\ \A a, b \in T : a # b => Cardinality(T) >= 2
<1>1. Cardinality(T) \in Nat /\ (Cardinality(T) = 0 <=> T = {})
  BY FS_CardinalityType, FS_EmptySet
<1>2. ASSUME NEW a \in T, NEW b \in T, a # b
      PROVE  Cardinality(T) >= 2
  <2> DEFINE U == T \ {a}
  <2>1. IsFiniteSet(U) /\ b \in U
    BY <1>2, FS_Subset
  <2>2. Cardinality(U) = Cardinality(T) - 1
    BY FS_RemoveElement
  <2> HIDE DEF U
  <2>3. Cardinality(U) \in Nat /\ Cardinality(U) # 0
    BY <2>1, FS_CardinalityType, FS_EmptySet
  <2> QED
    BY <1>1, <2>2, <2>3
<1> QED
  BY <1>1, <1>2

\* How the branches of a statement change the number of predecessors.
LEMMA CountsAdd ==
  ASSUME ProgramInv, NEW at \in Stmts, NEW known, NEW state,
         NEW all, all = CountBranches(known, state, Statement(at)), NEW t \in DOMAIN all
  PROVE  \E c \in Nat :
           /\ t \in DOMAIN known => all[t].count = known[t].count + c
           /\ t \notin DOMAIN known => all[t].count = c
           /\ (\A n \in Branches(at) : Target(at, n) # t) => c = 0
           /\ \A n \in Branches(at) : Target(at, n) = t =>
                c >= 1 /\ \A m \in Branches(at) : Target(at, m) = t /\ n # m => c >= 2
<1> DEFINE st == Statement(at)
           to == {n \in DOMAIN st.branches : st.branches[n].target = t}
<1>1. /\ t \in DOMAIN known => all[t].count = known[t].count + Cardinality(to)
      /\ t \notin DOMAIN known => all[t].count = Cardinality(to)
  BY DEF CountBranches
<1>2. \A n : n \in to <=> n \in Branches(at) /\ Target(at, n) = t
  BY DEF Branches, Target
<1>3. IsFiniteSet(to)
  <2>1. DOMAIN st.branches = 1..Len(st.branches) /\ Len(st.branches) \in Nat
    BY StatementFacts, SequenceDomain
  <2>2. IsFiniteSet(DOMAIN st.branches)
    BY <2>1, FS_Interval
  <2>3. to \subseteq DOMAIN st.branches
    OBVIOUS
  <2> HIDE DEF to
  <2> QED
    BY <2>2, <2>3, FS_Subset
<1> HIDE DEF to
<1>4. /\ Cardinality(to) \in Nat
      /\ to = {} => Cardinality(to) = 0
      /\ \A a \in to : Cardinality(to) >= 1
      /\ \A a, b \in to : a # b => Cardinality(to) >= 2
  BY <1>3, AtLeast
<1>5. (\A n \in Branches(at) : Target(at, n) # t) => Cardinality(to) = 0
  BY <1>2, <1>4
<1>6. \A n \in Branches(at) : Target(at, n) = t =>
        Cardinality(to) >= 1 /\ \A m \in Branches(at) : Target(at, m) = t /\ n # m => Cardinality(to) >= 2
  BY <1>2, <1>4
<1> QED
  BY <1>1, <1>4, <1>5, <1>6

LEMMA TargetsAre ==
  ASSUME NEW p
  PROVE  \A n \in Branches(p) : Target(p, n) \in Targets(p)
BY DEF Branches, Target, Targets

\* What is reached lies behind the entry.
LEMMA BehindEntry ==
  ASSUME ProgramInv, fn \in Functions, NEW C, Least(C)
  PROVE  \A p \in C : p \in Nat /\ p >= function.entry
<1> DEFINE D == {p \in Stmts : p >= function.entry}
<1>1. function.entry \in Stmts /\ function.entry \in Nat
  BY FunctionFacts, StatementFacts DEF function, Functions
<1>2. function.entry \in D /\ D \in SUBSET Stmts
  BY <1>1
<1>3. Closed(D)
  <2> SUFFICES ASSUME NEW p \in D, NEW n \in DOMAIN Statement(p).branches
               PROVE  Statement(p).branches[n].target \in D
    BY DEF Closed, Targets
  <2>1. p \in Stmts /\ p \in Nat /\ p >= function.entry
    BY StatementFacts
  <2>2. Target(p, n) \in Stmts /\ Target(p, n) > p /\ Target(p, n) \in Nat
    BY <2>1, ForwardFacts, StatementFacts DEF Branches
  <2> QED
    BY <1>1, <2>1, <2>2 DEF Target
<1> HIDE DEF D
<1>4. C \subseteq D
  BY <1>2, <1>3 DEF Least
<1> QED
  BY <1>4, StatementFacts DEF D

\* A statement is counted for the first time, and fits.
LEMMA GraphVisitStep ==
  ASSUME ProgramInv, StructureInv, fn \in Functions, GraphInv, VisitStructure, pass' # "failed", UNCHANGED program
  PROVE  GraphInv'
<1> DEFINE at == current.at
           state == current.state
           st == Statement(at)
           new == [n \in DOMAIN st.branches |->
                     [at |-> st.branches[n].target, state |-> AfterBranch(state, st.args, st.branches[n])]]
           K == CountBranches(preds, state, st)
<1>1. /\ queue # <<>> /\ queue' = Front(queue) \o new /\ visited' = visited \cup {at} /\ at \notin visited
      /\ preds' = K /\ UNCHANGED <<program, todo>>
      /\ tails' = IF IsTailCall(at, state) THEN tails + 1 ELSE tails
  BY DEF VisitStructure, Visiting
<1>2. /\ Range(st.args) \subseteq DOMAIN state
      /\ IsReturn(at) \/ StatesMatch(preds, state, st)
  BY DEF VisitStructure
<1>3. current \in Elements(queue) /\ at \in Stmts /\ at \in Reached /\ IsState(state)
  <2>1. current \in Elements(queue)
    BY <1>1, QueueStep, Empty DEF StructureInv, Traversal, current
  <2> QED
    BY <2>1 DEF StructureInv, Traversal, Reached, Waiting
<1>4. DOMAIN state = preds[at].vars
  BY <1>3 DEF GraphInv
<1>5. /\ DOMAIN preds = Reached /\ \A p \in visited : Targets(p) \subseteq DOMAIN preds
      /\ visited \subseteq DOMAIN preds /\ at \in DOMAIN preds /\ function.entry \in DOMAIN preds
      /\ visited \subseteq Stmts
  BY <1>3 DEF StructureInv, Traversal, Reached
<1>6. /\ DOMAIN K = DOMAIN preds \cup Targets(at) /\ \A p \in DOMAIN preds : K[p].vars = preds[p].vars
  BY DEF CountBranches, Targets
<1>7. \A n \in Branches(at) : /\ DOMAIN new[n].state = LiveAfter(preds[at].vars, at, n)
                             /\ new[n].at = Target(at, n)
  BY <1>4 DEF AfterBranch, Branches, LiveAfter, Taken, ResultsOf, Target
<1>8. \A n \in Branches(at) : K[Target(at, n)].vars = LiveAfter(preds[at].vars, at, n)
  <2>1. CASE IsReturn(at)
    <3>1. Targets(at) = {}
      BY <1>3, <2>1, StatementFacts
    <3> QED
      BY <3>1, TargetsAre
  <2>2. CASE StatesMatch(preds, state, st)
    BY <1>4, <2>2 DEF StatesMatch, Branches, Target, AfterBranch, LiveAfter, Taken, ResultsOf
  <2> QED
    BY <1>2, <2>1, <2>2
<1>9. IsSequence(new) /\ \A e \in Elements(new) : \E n \in Branches(at) : e = new[n]
  <2>1. IsSequence(st.branches) /\ DOMAIN st.branches = 1..Len(st.branches) /\ Len(st.branches) \in Nat
    BY <1>3, StatementFacts, SequenceDomain
  <2>2. new = [n \in 1..Len(st.branches) |-> new[n]] /\ Branches(at) = 1..Len(st.branches)
    BY <2>1 DEF Branches
  <2> HIDE DEF new
  <2>3. IsSequence(new) /\ Len(new) = Len(st.branches)
    BY <2>1, <2>2, FunctionIsSequence
  <2> QED
    BY <2>2, <2>3 DEF Elements
<1>10. Elements(queue') = Elements(Front(queue)) \cup Elements(new) /\ Elements(Front(queue)) \subseteq Elements(queue)
  BY <1>1, <1>9, QueueStep DEF StructureInv, Traversal
<1>11. \A t \in DOMAIN K : \E c \in Nat :
           /\ t \in DOMAIN preds => K[t].count = preds[t].count + c
           /\ t \notin DOMAIN preds => K[t].count = c
           /\ (\A n \in Branches(at) : Target(at, n) # t) => c = 0
           /\ \A n \in Branches(at) : Target(at, n) = t =>
                c >= 1 /\ \A m \in Branches(at) : Target(at, m) = t /\ n # m => c >= 2
  <2> DEFINE x == at  y == state
  <2>1. x \in Stmts /\ K = CountBranches(preds, y, Statement(x))
    BY <1>3
  <2> HIDE DEF x, y, K
  <2>2. \A t \in DOMAIN K : \E c \in Nat :
           /\ t \in DOMAIN preds => K[t].count = preds[t].count + c
           /\ t \notin DOMAIN preds => K[t].count = c
           /\ (\A n \in Branches(x) : Target(x, n) # t) => c = 0
           /\ \A n \in Branches(x) : Target(x, n) = t =>
                c >= 1 /\ \A m \in Branches(x) : Target(x, m) = t /\ n # m => c >= 2
    BY <2>1, CountsAdd
  <2> QED
    BY <2>2 DEF x
<1> HIDE DEF K, new, st, state
<1>12. \A p : /\ Branches(p)' = Branches(p) /\ Taken(p)' = Taken(p)
              /\ \A n : Target(p, n)' = Target(p, n) /\ ResultsOf(p, n)' = ResultsOf(p, n)
              /\ \A alive, n : LiveAfter(alive, p, n)' = LiveAfter(alive, p, n)
  BY <1>1 DEF Branches, Taken, Target, ResultsOf, LiveAfter, Statement
<1> DEFINE seen == visited \cup {at}
<1>13. \A p \in seen : /\ p \in DOMAIN preds /\ p \in DOMAIN K /\ K[p].vars = preds[p].vars
                       /\ \A n \in Branches(p) : Target(p, n) \in DOMAIN K
  BY <1>5, <1>6, TargetsAre
<1>14. ASSUME NEW p \in seen
       PROVE  /\ Taken(p) \subseteq K[p].vars
              /\ \A n \in Branches(p) : K[Target(p, n)].vars = LiveAfter(K[p].vars, p, n)
  <2>1. CASE p \in visited
    <3>1. /\ Taken(p) \subseteq preds[p].vars
          /\ \A n \in Branches(p) : preds[Target(p, n)].vars = LiveAfter(preds[p].vars, p, n)
      BY <2>1 DEF GraphInv, Graph, Alive
    <3>2. \A n \in Branches(p) : Target(p, n) \in DOMAIN preds
      BY <1>5, <2>1, TargetsAre
    <3> QED
      BY <1>6, <1>13, <3>1, <3>2
  <2>2. CASE p = at
    BY <1>2, <1>4, <1>8, <1>13, <2>2 DEF Taken, st
  <2> QED
    BY <2>1, <2>2
<1>15. ASSUME NEW t \in DOMAIN K
       PROVE  /\ K[t].count \in Nat
              /\ \A p \in seen : \A n \in Branches(p) : Target(p, n) = t =>
                   /\ K[t].count >= 1
                   /\ \A q \in seen : \A m \in Branches(q) :
                        Target(q, m) = t /\ (p # q \/ n # m) => K[t].count >= 2
  <2>1. PICK c \in Nat :
           /\ t \in DOMAIN preds => K[t].count = preds[t].count + c
           /\ t \notin DOMAIN preds => K[t].count = c
           /\ \A n \in Branches(at) : Target(at, n) = t =>
                c >= 1 /\ \A m \in Branches(at) : Target(at, m) = t /\ n # m => c >= 2
    BY <1>11
  <2> DEFINE old == IF t \in DOMAIN preds THEN preds[t].count ELSE 0
  <2>2. /\ old \in Nat
        /\ \A p \in visited : \A n \in Branches(p) : Target(p, n) = t =>
             /\ old >= 1
             /\ \A q \in visited : \A m \in Branches(q) : Target(q, m) = t /\ (p # q \/ n # m) => old >= 2
    <3>1. CASE t \in DOMAIN preds
      BY <3>1 DEF GraphInv, Graph, Edges
    <3>2. CASE t \notin DOMAIN preds
      BY <1>5, <3>2, TargetsAre
    <3> QED
      BY <3>1, <3>2
  <2>3. K[t].count = old + c
    BY <2>1, <2>2
  <2> HIDE DEF old
  <2>4. K[t].count \in Nat
    BY <2>2, <2>3
  <2>5. ASSUME NEW p \in seen, NEW n \in Branches(p), Target(p, n) = t
        PROVE  /\ K[t].count >= 1
               /\ \A q \in seen : \A m \in Branches(q) :
                    Target(q, m) = t /\ (p # q \/ n # m) => K[t].count >= 2
    <3>1. (p \in visited => old >= 1) /\ (p = at => c >= 1)
      BY <2>1, <2>2, <2>5
    <3>2. K[t].count >= 1
      BY <2>2, <2>3, <3>1
    <3>3. ASSUME NEW q \in seen, NEW m \in Branches(q), Target(q, m) = t, p # q \/ n # m
          PROVE  K[t].count >= 2
      <4>1. (q \in visited => old >= 1) /\ (q = at => c >= 1)
        BY <2>1, <2>2, <3>3
      <4>2. p \in visited /\ q \in visited => old >= 2
        BY <2>2, <2>5, <3>3
      <4>3. p = at /\ q = at => c >= 2
        BY <2>1, <2>5, <3>3
      <4> QED
        BY <2>2, <2>3, <3>1, <4>1, <4>2, <4>3
    <3> QED
      BY <3>2, <3>3
  <2> QED
    BY <2>4, <2>5
<1>16. \A p \in seen : IsTail(p)' = IsTail(p)
  BY <1>1, <1>13 DEF IsTail, Taken, Statement, fn
<1>17. IsTailCall(at, state) = IsTail(at)
  BY <1>4 DEF IsTailCall, IsTail, Taken
<1>18. /\ tails' \in Nat
       /\ \A p \in seen : IsTail(p) =>
            tails' >= 1 /\ \A q \in seen : IsTail(q) /\ p # q => tails' >= 2
  <2>1. /\ tails \in Nat
        /\ \A p \in visited : IsTail(p) =>
             tails >= 1 /\ \A q \in visited : IsTail(q) /\ p # q => tails >= 2
    BY DEF GraphInv, Graph, Tails
  <2>2. tails' = IF IsTail(at) THEN tails + 1 ELSE tails
    BY <1>1, <1>17 DEF state
  <2> QED
    BY <2>1, <2>2
<1>19. K[function.entry].vars = Range(function.params) /\ K[function.entry].count = 0
  <2>1. preds[function.entry].vars = Range(function.params) /\ preds[function.entry].count = 0
    BY DEF GraphInv, Graph
  <2>2. \A n \in Branches(at) : Target(at, n) # function.entry
    <3>1. \A n \in Branches(at) : Target(at, n) > at /\ Target(at, n) \in Stmts
      BY <1>3, ForwardFacts
    <3>2. at \in Nat /\ at >= function.entry /\ function.entry \in Nat
      BY <1>3, BehindEntry, StatementFacts DEF StructureInv, Traversal
    <3>3. \A n \in Branches(at) : Target(at, n) \in Nat
      BY <3>1, StatementFacts
    <3> QED
      BY <3>1, <3>2, <3>3
  <2> QED
    BY <1>5, <1>6, <1>11, <2>1, <2>2
<1>20. ASSUME NEW e \in Elements(queue') PROVE DOMAIN e.state = K[e.at].vars
  <2>1. CASE e \in Elements(queue)
    <3>1. e.at \in DOMAIN preds /\ DOMAIN e.state = preds[e.at].vars
      BY <1>5, <2>1 DEF GraphInv, Reached, Waiting
    <3> QED
      BY <1>6, <3>1
  <2>2. CASE e \in Elements(new)
    BY <1>7, <1>8, <1>9, <2>2
  <2> QED
    BY <1>10, <2>1, <2>2
<1>21. function' = function /\ visited' = seen /\ preds' = K
  BY <1>1 DEF function, fn, K, state, st
<1>22. (Alive(visited))'
  BY <1>12, <1>14, <1>21 DEF Alive
<1>23. (Edges(visited))'
  BY <1>12, <1>15, <1>21 DEF Edges
<1>24. (Tails(visited))'
  BY <1>16, <1>18, <1>21 DEF Tails
<1> QED
  BY <1>19, <1>20, <1>21, <1>22, <1>23, <1>24 DEF GraphInv, Graph
-----------------------------------------------------------------------------
(* What the first traversal leaves to the second one.                      *)

\* Nothing is counted when a function begins.
LEMMA GraphFirst == Begins /\ tails = 0 => GraphInv
<1> SUFFICES ASSUME Begins, tails = 0 PROVE GraphInv
  OBVIOUS
<1> DEFINE fun == program.functions[fn]
           e == [at |-> fun.entry, state |-> [v \in Range(fun.params) |-> Nothing]]
<1>1. queue = <<e>> /\ Elements(queue) = {e}
  BY OneElement DEF Begins, FirstVisit
<1>2. /\ preds = [at \in {fun.entry} |-> [vars |-> Range(fun.params), count |-> 0]]
      /\ visited = {} /\ function = fun
  BY DEF Begins, FirstPreds, function
<1>3. Alive({}) /\ Edges({}) /\ Tails({})
  BY <1>2 DEF Alive, Edges, Tails
<1> QED
  BY <1>1, <1>2, <1>3 DEF GraphInv, Graph

\* What does not change with the queue and the blocks.
LEMMA GraphKept ==
  ASSUME UNCHANGED <<program, todo, preds, tails>>, NEW C
  PROVE  /\ Graph(C)' = Graph(C) /\ Tails(C)' = Tails(C)
         /\ Static(fn, LiveHere, JoinsHere)' = Static(fn, LiveHere, JoinsHere)
         /\ LiveHere' = LiveHere /\ JoinsHere' = JoinsHere /\ fn' = fn /\ is_recursive' = is_recursive
         /\ \A p : IsTail(p)' = IsTail(p) /\ IsReturn(p)' = IsReturn(p)
<1>1. fn' = fn /\ function' = function /\ Stmts' = Stmts /\ \A p : Statement(p)' = Statement(p)
  BY DEF fn, function, Stmts, Statement
<1>2. LiveHere' = LiveHere /\ JoinsHere' = JoinsHere /\ is_recursive' = is_recursive
  BY DEF LiveHere, JoinsHere, HasLanding, is_recursive
<1>3. \A p : IsTail(p)' = IsTail(p) /\ IsReturn(p)' = IsReturn(p)
  BY DEF IsTail, IsReturn, Statement, Taken, fn
<1>4. Tails(C)' = Tails(C)
  BY <1>3 DEF Tails
<1>5. Alive(C)' = Alive(C)
  BY DEF Alive, Taken, Branches, Target, LiveAfter, ResultsOf, Statement
<1>6. Edges(C)' = Edges(C)
  BY DEF Edges, Branches, Target, Statement
<1>7. Graph(C)' = Graph(C)
  BY <1>1, <1>4, <1>5, <1>6 DEF Graph
<1>8. Static(fn, LiveHere, JoinsHere)' = Static(fn, LiveHere, JoinsHere)
  BY <1>1, <1>2 DEF Static, Closed, Targets, Branches, Target, Taken, LiveAfter, ResultsOf, Statement,
     IsReturn, Stmts
<1> QED
  BY <1>1, <1>2, <1>3, <1>4, <1>7, <1>8

\* A statement met again is not counted again.
LEMMA GraphSame ==
  ASSUME GraphInv, UNCHANGED <<program, todo, visited, preds, tails>>, Elements(queue') \subseteq Elements(queue)
  PROVE  GraphInv'
<1>1. UNCHANGED <<program, todo, visited, preds, tails>>
  OBVIOUS
<1>2. Elements(queue') \subseteq Elements(queue)
  OBVIOUS
<1>3. Graph(visited)'
  <2>1. PICK C : C = visited
    OBVIOUS
  <2>2. Graph(C)'
    BY <1>1, <2>1, GraphKept DEF GraphInv
  <2>3. visited' = C
    BY <1>1, <2>1
  <2> QED
    BY <2>2, <2>3 DEF Graph, Alive, Edges, Tails
<1> QED
  BY <1>1, <1>2, <1>3 DEF GraphInv

LEMMA GraphSkip ==
  ASSUME StructureInv, GraphInv, SkipVisited, UNCHANGED program
  PROVE  GraphInv'
<1>1. /\ queue # <<>> /\ queue' = Front(queue) /\ UNCHANGED <<program, todo, visited, preds, tails>>
  BY DEF SkipVisited
<1>2. Elements(queue') \subseteq Elements(queue)
  BY <1>1, FrontLast DEF StructureInv, Traversal
<1> QED
  BY <1>1, <1>2, GraphSame

\* Once every statement is visited, the statements fit each other.
LEMMA StaticFacts ==
  ASSUME ProgramInv, StructureInv, GraphInv, fn \in Functions, queue = <<>>
  PROVE  Tails(DOMAIN preds) /\ Static(fn, LiveHere, JoinsHere) /\ visited = DOMAIN preds
<1> DEFINE C == DOMAIN preds
           entry == function.entry
<1>1. /\ visited = C /\ C \subseteq Stmts /\ Closed(C) /\ entry \in C /\ Least(C)
  <2>1. Waiting = {} /\ Reached = visited
    BY Empty DEF Waiting, Reached
  <2> QED
    BY <2>1 DEF StructureInv, Traversal, Closed
<1>2. Alive(C) /\ Edges(C) /\ Tails(C) /\ preds[entry].vars = Range(function.params) /\ preds[entry].count = 0
  BY <1>1 DEF GraphInv, Graph
<1>3. function = program.functions[fn] /\ DOMAIN LiveHere = C /\ JoinsHere \subseteq C
      /\ \A p \in C : LiveHere[p] = preds[p].vars /\ (p \in JoinsHere <=> preds[p].count > 1)
  BY DEF function, LiveHere, JoinsHere, HasLanding
<1>4. entry \in C \ JoinsHere /\ LiveHere[entry] = Range(function.params)
  BY <1>1, <1>2, <1>3
<1>5. \A p \in C : IsReturn(p) => Len(Statement(p).args) = Len(function.rets)
  <2>1. PICK body \in SUBSET Stmts :
          /\ entry \in body
          /\ \A i \in body : LET st == program.statements[i] IN
               /\ \A n \in DOMAIN st.branches : st.branches[n].target \in body
               /\ st.fn = "return" => Len(st.args) = Len(function.rets)
    BY <1>3, ForwardAssumption DEF IsForward, ProgramInv, Functions, Stmts
  <2>2. Closed(body)
    BY <2>1 DEF Closed, Targets, Statement
  <2>3. C \subseteq body
    BY <1>1, <2>1, <2>2 DEF Least
  <2> QED
    BY <2>1, <2>3 DEF IsReturn, Statement
<1>6. ASSUME NEW p \in C
      PROVE  /\ p >= entry /\ LiveHere[p] \in SUBSET Nat /\ IsFiniteSet(LiveHere[p])
             /\ Taken(p) \subseteq LiveHere[p]
             /\ \A n \in Branches(p) : LiveHere[Target(p, n)] = LiveAfter(LiveHere[p], p, n)
  <2>1. p >= entry
    BY <1>1, BehindEntry
  <2>2. LiveHere[p] \in SUBSET Nat /\ IsFiniteSet(LiveHere[p])
    BY <1>3 DEF StructureInv, Counted
  <2>3. \A n \in Branches(p) : Target(p, n) \in C
    BY <1>1, TargetsAre DEF Closed
  <2> QED
    BY <1>2, <1>3, <2>1, <2>2, <2>3 DEF Alive
<1>7. ASSUME NEW p \in C, NEW q \in C, NEW n \in Branches(p), NEW m \in Branches(q),
             Target(p, n) = Target(q, m), Target(p, n) \notin JoinsHere
      PROVE  p = q /\ n = m
  <2>1. Target(p, n) \in C
    BY <1>1, TargetsAre DEF Closed
  <2>2. preds[Target(p, n)].count \in Nat /\ ~(preds[Target(p, n)].count > 1)
    BY <1>2, <1>3, <1>7, <2>1 DEF Edges
  <2>3. p # q \/ n # m => preds[Target(p, n)].count >= 2
    BY <1>2, <1>7, <2>1 DEF Edges
  <2> QED
    BY <2>2, <2>3
<1> HIDE DEF C, entry
<1>8. Static(fn, LiveHere, JoinsHere)
  BY <1>1, <1>3, <1>4, <1>5, <1>6, <1>7 DEF Static, entry
<1> QED
  BY <1>1, <1>2, <1>8 DEF C
-----------------------------------------------------------------------------
(* What is written of a region, step by step.                              *)

\* What a region means does not change with the program's variables that it does not mention.
LEMMA WrittenIs ==
  ASSUME UNCHANGED program, NEW f, NEW R, NEW S, NEW loop, NEW live, NEW joins,
         Written(f, R, S, loop, live, joins),
         fn' = f, (code[fn])' = R, (states[fn])' = S, returnTo' = loop, LiveHere' = live, JoinsHere' = joins
  PROVE  Written(fn, code[fn], states[fn], returnTo, LiveHere, JoinsHere)'
<1>1. \A p : /\ (Branches(p))' = Branches(p) /\ (Taken(p))' = Taken(p) /\ (Statement(p))' = Statement(p)
             /\ IsReturn(p)' = IsReturn(p) /\ IsCall(p)' = IsCall(p)
             /\ \A n : Target(p, n)' = Target(p, n) /\ ResultsOf(p, n)' = ResultsOf(p, n)
  BY DEF Branches, Taken, Target, ResultsOf, Statement, IsReturn, IsCall
<1>2. \A p, n, v : ValueAfter(states[fn], returnTo, p, n, v)' = ValueAfter(S, loop, p, n, v)
  BY <1>1 DEF ValueAfter, Source, Index, argument, cont_block, Results, ResultsOf, Statement
<1>3. \A p, n : After(states[fn], returnTo, p, n)' = After(S, loop, p, n)
  BY <1>1, <1>2 DEF After, LiveAfter, ResultsOf, Taken, Statement
<1>4. (InitialState(fn))' = InitialState(f)
  BY DEF InitialState, Index, argument, entry_block
<1>5. \A p : (LandingState(LiveHere[p], p))' = LandingState(live[p], p)
  BY DEF LandingState, Index, argument, landing_block
<1>6. \A p : Origin(fn, states[fn], returnTo, p, states[fn][p])' = Origin(f, S, loop, p, S[p])
  BY <1>1, <1>3, <1>4 DEF Origin, Target, Branches, Statement
<1>7. \A p, n, jump : Leads(states[fn], returnTo, LiveHere, JoinsHere, p, n, jump)' = Leads(S, loop, live, joins, p, n, jump)
  BY DEF Leads, Wanted, ValueAfter, Source, Index, argument, cont_block, Results, ResultsOf, Statement, Target,
     landing_block, libfunc_block
<1>8. \A p, end : Ends(fn, states[fn], returnTo, LiveHere, JoinsHere, p, end)' = Ends(f, S, loop, live, joins, p, end)
  BY <1>1, <1>7 DEF Ends, cont_block, libfunc_block, entry_block, argument, Arguments, IsReturn, IsCall, Statement, Branches
<1>9. \A p, end : Operates(LandingState(LiveHere[p], p), p, end)' = Operates(LandingState(live[p], p), p, end)
  BY <1>1, <1>5 DEF Operates, libfunc_block, Statement
<1>10. \A p, end : Operates(InitialState(fn), program.functions[fn].entry, end)' = Operates(InitialState(f), program.functions[f].entry, end)
  BY <1>1, <1>4 DEF Operates, libfunc_block, Statement
<1>11. \A p : Holds(states[fn][p], p)' = Holds(S[p], p)
  BY DEF Holds, Settled
<1>12. /\ \A p : /\ Elements(code[fn][libfunc_block(p)].ends)' = Elements(R[libfunc_block(p)].ends)
                 /\ Elements(code[fn][landing_block(p)].ends)' = Elements(R[landing_block(p)].ends)
       /\ Elements(code[fn][pre_entry_block].ends)' = Elements(R[pre_entry_block].ends)
       /\ Elements(code[fn][entry_block].ends)' = Elements(R[entry_block].ends)
       /\ Elements(code[fn][cont_block(returnTo)].ends)' = Elements(R[cont_block(loop)].ends)
  BY DEF Elements, libfunc_block, landing_block, pre_entry_block, entry_block, cont_block
<1>13. /\ (Arguments(pre_entry_block, Len(program.functions[fn].params)))' = Arguments(pre_entry_block, Len(program.functions[f].params))
       /\ (Statement(returnTo))' = Statement(loop) /\ (Taken(returnTo))' = Taken(loop)
  BY DEF Arguments, argument, pre_entry_block, Statement, Taken
<1>14. \A end : Leads(states[fn], returnTo, LiveHere, JoinsHere, returnTo, 1, end)' = Leads(S, loop, live, joins, loop, 1, end)
  BY DEF Leads, Wanted, ValueAfter, Source, Index, argument, cont_block, Results, ResultsOf, Statement, Target,
     landing_block, libfunc_block
<1>15. (entry_block)' = entry_block
  BY DEF entry_block
<1>16. (\A p \in DOMAIN states[fn] :
          /\ DOMAIN states[fn][p] = LiveHere[p] /\ Holds(states[fn][p], p)
          /\ IF p \in JoinsHere THEN states[fn][p] = LandingState(LiveHere[p], p)
             ELSE Origin(fn, states[fn], returnTo, p, states[fn][p]))'
  BY <1>5, <1>6, <1>11 DEF Written
<1>17. (\A p \in DOMAIN states[fn] : \A end \in Elements(code[fn][libfunc_block(p)].ends) :
          Ends(fn, states[fn], returnTo, LiveHere, JoinsHere, p, end))'
  BY <1>8, <1>12 DEF Written
<1>18. (\A p \in JoinsHere : \A end \in Elements(code[fn][landing_block(p)].ends) :
          Operates(LandingState(LiveHere[p], p), p, end))'
  <2>1. \A p \in joins : \A end \in Elements(R[landing_block(p)].ends) : Operates(LandingState(live[p], p), p, end)
    BY DEF Written
  <2> QED
    BY <1>9, <1>12, <2>1
<1>19. (\A end \in Elements(code[fn][pre_entry_block].ends) :
          /\ end.op = "br" /\ end.to = entry_block
          /\ end.with = Arguments(pre_entry_block, Len(program.functions[fn].params)))'
  BY <1>12, <1>13, <1>15 DEF Written
<1>20. (\A end \in Elements(code[fn][entry_block].ends) :
          Operates(InitialState(fn), program.functions[fn].entry, end))'
  BY <1>10, <1>12 DEF Written
<1>21. (returnTo # 0 =>
          /\ returnTo \in DOMAIN states[fn] /\ Statement(returnTo).fn = fn /\ LiveHere[returnTo] = Taken(returnTo)
          /\ \A end \in Elements(code[fn][cont_block(returnTo)].ends) :
               end.op = "br" /\ Leads(states[fn], returnTo, LiveHere, JoinsHere, returnTo, 1, end))'
  BY <1>12, <1>13, <1>14 DEF Written
<1>22. (DOMAIN states[fn] \subseteq DOMAIN LiveHere)'
  BY DEF Written
<1> QED
  BY <1>16, <1>17, <1>18, <1>19, <1>20, <1>21, <1>22 DEF Written

\* The first state.
LEMMA FinishWritten ==
  ASSUME ProgramInv, StructureInv, GraphInv, returnTo = 0, states[fn] = <<>>,
         fn \in DOMAIN code, fn \in Functions, FinishStructure, UNCHANGED program
  PROVE  WrittenInv'
<1> DEFINE params == function.params
           entry == function.entry
           initial_state == [v \in Range(params) |->
                               argument(entry_block, CHOOSE i \in DOMAIN params : params[i] = v)]
           landings == {at \in visited : HasLanding(at)}
           blocks == {pre_entry_block, entry_block}
                       \cup {libfunc_block(at) : at \in visited} \cup {landing_block(at) : at \in landings}
           params_of(b) == CASE b[1] = "libfunc" -> Len(Statement(b[2]).args)
                             [] b[1] = "landing" -> Cardinality(preds[b[2]].vars)
                             [] OTHER -> Len(params)
           with == [i \in DOMAIN Statement(entry).args |-> initial_state[Statement(entry).args[i]]]
           first == [op |-> "br", to |-> entry_block, with |-> Arguments(pre_entry_block, Len(params))]
           second == [op |-> "br", to |-> libfunc_block(entry), with |-> with]
           jump(b) == CASE b = pre_entry_block -> <<first>> [] b = entry_block -> <<second>> [] OTHER -> <<>>
           R == [b \in blocks |-> [params |-> params_of(b), ends |-> jump(b)]]
           e == [at |-> entry, state |-> initial_state]
<1>1. /\ queue = <<>> /\ code' = [code EXCEPT ![fn] = R] /\ queue' = <<e>> /\ visited' = {}
      /\ UNCHANGED <<program, todo, preds, tails, returnTo, states, tailCall>>
  BY DEF FinishStructure
<1>2. Tails(DOMAIN preds) /\ Static(fn, LiveHere, JoinsHere) /\ visited = DOMAIN preds
  BY <1>1, StaticFacts
<1>3. initial_state = InitialState(fn) /\ function = program.functions[fn]
  BY DEF InitialState, Index, function
<1>4. \A b \in blocks : R[b].ends = jump(b)
  OBVIOUS
<1>5. /\ R[pre_entry_block].ends = <<first>> /\ R[entry_block].ends = <<second>>
      /\ \A p \in JoinsHere : R[landing_block(p)].ends = <<>>
  <2>1. pre_entry_block \in blocks /\ entry_block \in blocks /\ pre_entry_block # entry_block
    BY BlockNames
  <2>2. jump(pre_entry_block) = <<first>> /\ jump(entry_block) = <<second>>
    BY <2>1
  <2>3. \A p \in JoinsHere : landing_block(p) \in blocks
    BY <1>2 DEF JoinsHere
  <2>4. \A p \in JoinsHere : jump(landing_block(p)) = <<>>
    BY BlockNames
  <2> HIDE DEF R, blocks, jump
  <2> QED
    BY <1>4, <2>1, <2>2, <2>3, <2>4
<1>6. first.op = "br" /\ first.to = entry_block /\ first.with = Arguments(pre_entry_block, Len(params))
  OBVIOUS
<1>7. Operates(InitialState(fn), entry, second)
  BY <1>3 DEF Operates
<1>8. e.at = entry /\ e.state = InitialState(fn)
  BY <1>3
<1> HIDE DEF R, blocks, first, second, e, with, initial_state, params, entry
<1>9. Written(fn, R, <<>>, 0, LiveHere, JoinsHere)
  <2>1. Elements(<<first>>) = {first} /\ Elements(<<second>>) = {second} /\ Elements(<<>>) = {}
    BY OneElement, Empty
  <2>2. DOMAIN <<>> = {}
    OBVIOUS
  <2> QED
    BY <1>3, <1>5, <1>6, <1>7, <2>1, <2>2 DEF Written, params, entry
<1>10. Written(fn, code[fn], states[fn], returnTo, LiveHere, JoinsHere)'
  <2>1. PICK f, S, live, joins : f = fn /\ S = <<>> /\ live = LiveHere /\ joins = JoinsHere
    OBVIOUS
  <2>2. (code[fn])' = R /\ (states[fn])' = S /\ returnTo' = 0
    BY <1>1, <2>1 DEF fn
  <2>3. fn' = f /\ LiveHere' = live /\ JoinsHere' = joins
    BY <1>1, <2>1, GraphKept
  <2>4. PICK X : X = R
    OBVIOUS
  <2> QED
    BY <1>1, <1>9, <2>1, <2>2, <2>3, <2>4, WrittenIs
<1>11. Tails(DOMAIN preds)'
  <2>1. PICK C : C = DOMAIN preds
    OBVIOUS
  <2>2. Tails(C)' /\ C = DOMAIN preds'
    BY <1>1, <1>2, <2>1, GraphKept
  <2> QED
    BY <2>2 DEF Tails
<1>12. Static(fn, LiveHere, JoinsHere)'
  BY <1>1, <1>2, GraphKept
<1>13. \A x \in Elements(queue') : Origin(fn, states[fn], returnTo, x.at, x.state)'
  <2>1. Elements(queue') = {e}
    BY <1>1, OneElement
  <2>2. (InitialState(fn))' = InitialState(fn) /\ (program.functions[fn].entry)' = entry
    BY <1>1, <1>3 DEF InitialState, Index, fn, entry, argument, entry_block
  <2> QED
    BY <1>8, <2>1, <2>2 DEF Origin
<1>14. (DOMAIN states[fn] = visited)'
  BY <1>1 DEF fn
<1> QED
  BY <1>1, <1>10, <1>11, <1>12, <1>13, <1>14 DEF WrittenInv

\* The states at a statement have registers for what is alive there, settled before it.
LEMMA OriginFacts ==
  ASSUME ProgramInv, NEW f \in Functions, NEW S, NEW loop, NEW live, NEW joins, Static(f, live, joins),
         DOMAIN S \subseteq DOMAIN live, \A p \in DOMAIN S : DOMAIN S[p] = live[p] /\ Holds(S[p], p),
         NEW t, NEW state, Origin(f, S, loop, t, state)
  PROVE  DOMAIN state = live[t] /\ Holds(state, t)
<1>1. CASE t = program.functions[f].entry /\ state = InitialState(f)
  <2>1. DOMAIN state = live[t]
    BY <1>1 DEF Static, InitialState
  <2>2. Holds(state, t)
    BY <1>1 DEF Holds, Settled, InitialState, argument, entry_block
  <2> QED
    BY <2>1, <2>2
<1>2. ASSUME NEW p \in DOMAIN S, NEW n \in Branches(p), Target(p, n) = t, state = After(S, loop, p, n)
      PROVE  DOMAIN state = live[t] /\ Holds(state, t)
  <2>1. p \in DOMAIN live /\ p \in Stmts /\ DOMAIN S[p] = live[p]
    BY DEF Static
  <2>2. DOMAIN state = LiveAfter(DOMAIN S[p], p, n)
    BY <1>2 DEF After
  <2>3. DOMAIN state = live[t]
    BY <1>2, <2>1, <2>2 DEF Static
  <2>4. p \in Nat /\ t \in Nat /\ p < t
    BY <1>2, <2>1, ForwardFacts, StatementFacts
  <2>5. ASSUME NEW v \in DOMAIN state PROVE Settled(state[v], t)
    <3>1. state[v] = ValueAfter(S, loop, p, n, v) /\ v \in LiveAfter(DOMAIN S[p], p, n)
      BY <1>2, <2>2 DEF After
    <3>2. CASE v \in Range(ResultsOf(p, n))
      <4> DEFINE i == Index(ResultsOf(p, n), v)
      <4>1. state[v] = argument(Source(loop, p, n), i)
        BY <3>1, <3>2 DEF ValueAfter
      <4> HIDE DEF i
      <4> QED
        BY <2>4, <4>1 DEF Source, Settled, argument, Results, cont_block
    <3>3. CASE v \notin Range(ResultsOf(p, n))
      <4>1. state[v] = S[p][v] /\ v \in DOMAIN S[p]
        BY <3>1, <3>3 DEF ValueAfter, LiveAfter
      <4>2. Settled(S[p][v], p)
        BY <4>1 DEF Holds
      <4> QED
        BY <2>4, <4>1, <4>2 DEF Settled
    <3> QED
      BY <3>2, <3>3
  <2> QED
    BY <2>3, <2>5 DEF Holds
<1> QED
  BY <1>1, <1>2 DEF Origin

\* What is after a statement stays as it is when more statements are written.
LEMMA AfterKept ==
  ASSUME NEW S, NEW T, NEW loop, NEW back, NEW p \in DOMAIN S, T[p] = S[p], p = loop <=> p = back
  PROVE  /\ \A n : After(T, back, p, n) = After(S, loop, p, n)
         /\ \A live, joins, n, jump :
              Leads(T, back, live, joins, p, n, jump) = Leads(S, loop, live, joins, p, n, jump)
<1>1. \A n, v : ValueAfter(T, back, p, n, v) = ValueAfter(S, loop, p, n, v)
  BY DEF ValueAfter, Source
<1> QED
  BY <1>1 DEF After, Leads

\* One more statement is written, which may be the call that becomes a jump.
Grows(f, R, S, loop, live, joins, at, state, T, back, X) ==
  /\ Written(f, R, S, loop, live, joins)
  /\ at \in DOMAIN live \ DOMAIN S /\ DOMAIN state = live[at] /\ Holds(state, at)
  /\ IF at \in joins THEN state = LandingState(live[at], at) ELSE Origin(f, S, loop, at, state)
  /\ T = [s \in DOMAIN S \cup {at} |-> IF s = at THEN state ELSE S[s]]
  /\ \/ back = loop /\ back # at
     \/ loop = 0 /\ back = at /\ 0 \notin DOMAIN S /\ \A p \in DOMAIN S : ~IsReturn(p)
  /\ \A p \in DOMAIN S : X[libfunc_block(p)] = R[libfunc_block(p)]
  /\ \A p \in joins : X[landing_block(p)] = R[landing_block(p)]
  /\ X[pre_entry_block] = R[pre_entry_block] /\ X[entry_block] = R[entry_block]
  /\ \A end \in Elements(X[libfunc_block(at)].ends) : Ends(f, T, back, live, joins, at, end)
  /\ back # 0 /\ back = loop => X[cont_block(loop)] = R[cont_block(loop)]
  /\ back = at => /\ Statement(at).fn = f /\ live[at] = Taken(at)
                  /\ \A end \in Elements(X[cont_block(at)].ends) :
                       end.op = "br" /\ Leads(T, back, live, joins, at, 1, end)

LEMMA WrittenGrows ==
  ASSUME NEW f, NEW R, NEW S, NEW loop, NEW live, NEW joins, NEW at, NEW state, NEW T, NEW back, NEW X,
         Grows(f, R, S, loop, live, joins, at, state, T, back, X)
  PROVE  /\ Written(f, X, T, back, live, joins)
         /\ \A t, st : Origin(f, S, loop, t, st) => Origin(f, T, back, t, st)
         /\ \A n \in Branches(at) : Origin(f, T, back, Target(at, n), After(T, back, at, n))
<1>1. DOMAIN T = DOMAIN S \cup {at} /\ T[at] = state /\ \A p \in DOMAIN S : T[p] = S[p]
  BY DEF Grows
<1>2. \A p \in DOMAIN S : p = loop <=> p = back
  BY DEF Grows
<1>3. \A p \in DOMAIN S :
        /\ \A n : After(T, back, p, n) = After(S, loop, p, n)
        /\ \A n, jump : Leads(T, back, live, joins, p, n, jump) = Leads(S, loop, live, joins, p, n, jump)
  <2> SUFFICES ASSUME NEW p \in DOMAIN S
               PROVE  /\ \A n : After(T, back, p, n) = After(S, loop, p, n)
                      /\ \A n, jump : Leads(T, back, live, joins, p, n, jump) = Leads(S, loop, live, joins, p, n, jump)
    OBVIOUS
  <2>1. T[p] = S[p] /\ (p = loop <=> p = back)
    BY <1>1, <1>2
  <2> QED
    BY <2>1, AfterKept
<1>4. \A t, st : Origin(f, S, loop, t, st) => Origin(f, T, back, t, st)
  BY <1>1, <1>3 DEF Origin
<1>5. \A n \in Branches(at) : Origin(f, T, back, Target(at, n), After(T, back, at, n))
  BY <1>1 DEF Origin
<1>6. ASSUME NEW p \in DOMAIN S, NEW end, Ends(f, S, loop, live, joins, p, end)
      PROVE  Ends(f, T, back, live, joins, p, end)
  <2>1. IsReturn(p) => back = loop
    BY DEF Grows
  <2>2. p = loop <=> p = back
    BY <1>2
  <2>3. \A n, jump : Leads(T, back, live, joins, p, n, jump) = Leads(S, loop, live, joins, p, n, jump)
    BY <1>3
  <2>4. CASE IsReturn(p)
    BY <1>6, <2>1, <2>4 DEF Ends
  <2>5. CASE ~IsReturn(p)
    BY <1>6, <2>2, <2>3, <2>5 DEF Ends
  <2> QED
    BY <2>4, <2>5
<1>7. \A p \in DOMAIN T :
        /\ DOMAIN T[p] = live[p] /\ Holds(T[p], p)
        /\ IF p \in joins THEN T[p] = LandingState(live[p], p) ELSE Origin(f, T, back, p, T[p])
  BY <1>1, <1>4 DEF Written, Grows
<1>8. ASSUME NEW p \in DOMAIN T, NEW end \in Elements(X[libfunc_block(p)].ends)
      PROVE  Ends(f, T, back, live, joins, p, end)
  <2>1. CASE p = at
    BY <1>8, <2>1 DEF Grows
  <2>2. CASE p # at
    <3>1. p \in DOMAIN S /\ end \in Elements(R[libfunc_block(p)].ends)
      BY <1>1, <1>8, <2>2 DEF Grows
    <3> QED
      BY <1>6, <3>1 DEF Written, Grows
  <2> QED
    BY <2>1, <2>2
<1>9. back # 0 =>
        /\ back \in DOMAIN T /\ Statement(back).fn = f /\ live[back] = Taken(back)
        /\ \A end \in Elements(X[cont_block(back)].ends) :
             end.op = "br" /\ Leads(T, back, live, joins, back, 1, end)
  <2>1. CASE back = at
    BY <1>1, <2>1 DEF Grows
  <2>2. CASE back = loop /\ back # at /\ back # 0
    <3>1. /\ loop \in DOMAIN S /\ Statement(loop).fn = f /\ live[loop] = Taken(loop)
          /\ \A end \in Elements(R[cont_block(loop)].ends) :
               end.op = "br" /\ Leads(S, loop, live, joins, loop, 1, end)
      BY <2>2 DEF Written, Grows
    <3>2. X[cont_block(loop)] = R[cont_block(loop)]
      BY <2>2 DEF Grows
    <3>3. \A end : Leads(T, back, live, joins, loop, 1, end) = Leads(S, loop, live, joins, loop, 1, end)
      BY <1>3, <3>1
    <3> QED
      BY <1>1, <2>2, <3>1, <3>2, <3>3
  <2> QED
    BY <2>1, <2>2 DEF Grows
<1>10. DOMAIN T \subseteq DOMAIN live
  BY <1>1 DEF Written, Grows
<1>11. /\ \A p \in joins : \A end \in Elements(X[landing_block(p)].ends) :
             Operates(LandingState(live[p], p), p, end)
       /\ \A end \in Elements(X[pre_entry_block].ends) :
            /\ end.op = "br" /\ end.to = entry_block
            /\ end.with = Arguments(pre_entry_block, Len(program.functions[f].params))
       /\ \A end \in Elements(X[entry_block].ends) :
            Operates(InitialState(f), program.functions[f].entry, end)
  BY DEF Written, Grows
<1> QED
  BY <1>4, <1>5, <1>7, <1>8, <1>9, <1>10, <1>11 DEF Written

\* A block after a terminator was appended.
LEMMA AppendElements ==
  ASSUME NEW R, NEW b \in DOMAIN R, IsSequence(R[b].ends), DOMAIN R[b] = {"params", "ends"}, NEW op,
         NEW S, S = Append_operation(R, b, op)
  PROVE  /\ DOMAIN S = DOMAIN R /\ \A c \in DOMAIN R : c # b => S[c] = R[c]
         /\ Elements(S[b].ends) = Elements(R[b].ends) \cup {op}
         /\ IsSequence(S[b].ends) /\ DOMAIN S[b] = {"params", "ends"}
<1>1. /\ DOMAIN S = DOMAIN R /\ \A c \in DOMAIN R : c # b => S[c] = R[c]
      /\ S[b] = [R[b] EXCEPT !.ends = Append(R[b].ends, op)]
  BY DEF Append_operation
<1>2. S[b].ends = Append(R[b].ends, op) /\ DOMAIN S[b] = {"params", "ends"}
  BY <1>1
<1> DEFINE s == R[b].ends
<1>3. IsSequence(s) /\ S[b].ends = Append(s, op)
  BY <1>2
<1> HIDE DEF s
<1>4. S[b].ends = s \o <<op>> /\ IsSequence(<<op>>) /\ Elements(<<op>>) = {op}
  BY <1>3, AppendIsConcat, OneElement
<1>5. IsSequence(S[b].ends) /\ Elements(S[b].ends) = Elements(s) \cup {op}
  BY <1>3, <1>4, Concatenation
<1> QED
  BY <1>1, <1>2, <1>5 DEF s

\* The blocks of a region are what they are appended to.
Blocks(R) == \A b \in DOMAIN R : IsSequence(R[b].ends) /\ DOMAIN R[b] = {"params", "ends"}

\* A landing block jumps to its statement with its arguments.
LEMMA LandWritten ==
  ASSUME NEW f, NEW R, NEW S, NEW loop, Written(f, R, S, loop, LiveHere, JoinsHere), Shape(R), Blocks(R),
         JoinsHere \subseteq DOMAIN preds, NEW at \in DOMAIN preds, NEW state,
         at \in JoinsHere => state = LandingState(LiveHere[at], at),
         NEW L, L = land(R, at, state), loop # 0 => cont_block(loop) \in DOMAIN R
  PROVE  /\ Written(f, L, S, loop, LiveHere, JoinsHere) /\ DOMAIN L = DOMAIN R /\ Blocks(L)
         /\ L[libfunc_block(at)] = R[libfunc_block(at)]
<1>1. CASE at \notin JoinsHere
  BY <1>1 DEF land, JoinsHere
<1>2. CASE at \in JoinsHere
  <2> DEFINE op == [op |-> "br", to |-> libfunc_block(at),
                    with |-> [i \in DOMAIN Statement(at).args |-> state[Statement(at).args[i]]]]
             c == landing_block(at)
  <2>1. L = Append_operation(R, c, op) /\ c \in DOMAIN R
    BY <1>2 DEF land, JoinsHere, Shape
  <2>2. Operates(LandingState(LiveHere[at], at), at, op)
    BY <1>2 DEF Operates
  <2> HIDE DEF op, c
  <2>3. /\ DOMAIN L = DOMAIN R /\ \A b \in DOMAIN R : b # c => L[b] = R[b]
        /\ Elements(L[c].ends) = Elements(R[c].ends) \cup {op}
        /\ IsSequence(L[c].ends) /\ DOMAIN L[c] = {"params", "ends"}
    BY <2>1, AppendElements DEF Blocks
  <2>4. Blocks(L)
    BY <2>3 DEF Blocks
  <2>5. /\ \A p \in DOMAIN preds : libfunc_block(p) \in DOMAIN R /\ libfunc_block(p) # c
        /\ {pre_entry_block, entry_block} \subseteq DOMAIN R /\ c \notin {pre_entry_block, entry_block}
        /\ \A p \in JoinsHere : landing_block(p) \in DOMAIN R /\ (landing_block(p) = c => p = at)
        /\ c # cont_block(loop)
    BY BlockNames DEF Shape, JoinsHere, c
  <2>6. DOMAIN S \subseteq DOMAIN preds
    BY DEF Written, LiveHere
  <2>7. /\ \A p \in DOMAIN S : L[libfunc_block(p)] = R[libfunc_block(p)]
        /\ L[libfunc_block(at)] = R[libfunc_block(at)]
        /\ L[pre_entry_block] = R[pre_entry_block] /\ L[entry_block] = R[entry_block]
        /\ loop # 0 => L[cont_block(loop)] = R[cont_block(loop)]
    BY <2>3, <2>5, <2>6
  <2>8. ASSUME NEW p \in JoinsHere, NEW end \in Elements(L[landing_block(p)].ends)
        PROVE  Operates(LandingState(LiveHere[p], p), p, end)
    <3>1. CASE p = at
      <4>1. end \in Elements(R[landing_block(p)].ends) \/ end = op
        BY <2>3, <2>8, <3>1 DEF c
      <4> QED
        BY <2>2, <3>1, <4>1 DEF Written
    <3>2. CASE p # at
      <4>1. L[landing_block(p)] = R[landing_block(p)]
        BY <2>3, <2>5, <3>2
      <4> QED
        BY <2>8, <4>1 DEF Written
    <3> QED
      BY <3>1, <3>2
  <2>9. Written(f, L, S, loop, LiveHere, JoinsHere)
    BY <2>7, <2>8 DEF Written
  <2> QED
    BY <2>3, <2>4, <2>7, <2>9
<1> QED
  BY <1>1, <1>2

\* What a branch hands over is what Leads says.
LEMMA TargetsLead ==
  ASSUME Closed(DOMAIN preds), NEW at \in DOMAIN preds, NEW state, NEW results, NEW T, T[at] = state, NEW back,
         NEW targets, targets = generate_branching_targets(at, state, results),
         NEW n \in Branches(at), results[n] = Source(back, at, n)
  PROVE  Leads(T, back, LiveHere, JoinsHere, at, n, targets[n])
<1> DEFINE t == Target(at, n)
<1>1. t \in DOMAIN preds
  BY TargetsAre DEF Closed
<1>2. (HasLanding(t) <=> t \in JoinsHere) /\ LiveHere[t] = preds[t].vars
  BY <1>1 DEF JoinsHere, LiveHere
<1> DEFINE found == Statement(at).branches[n].results
           values(st, r, w) == [i \in DOMAIN w |->
             IF w[i] \in Range(found)
             THEN argument(r, CHOOSE k \in DOMAIN found : found[k] = w[i])
             ELSE st[w[i]]]
           wanted == IF HasLanding(t) THEN Sorted(preds[t].vars) ELSE Statement(t).args
<1>3. wanted = Wanted(LiveHere, JoinsHere, t)
  BY <1>2 DEF Wanted
<1>4. /\ targets[n].to = IF HasLanding(t) THEN landing_block(t) ELSE libfunc_block(t)
      /\ targets[n].with = values(state, results[n], wanted)
  BY Zenon DEF generate_branching_targets, Branches, Target
<1> DEFINE along == [i \in DOMAIN wanted |-> ValueAfter(T, back, at, n, wanted[i])]
<1>5. along = values(T[at], Source(back, at, n), wanted)
  BY DEF ValueAfter, ResultsOf, Index
<1> HIDE DEF values, wanted, along, t
<1>6. targets[n].with = along
  BY <1>4, <1>5
<1>7. along = [i \in DOMAIN wanted |-> ValueAfter(T, back, at, n, wanted[i])]
  BY DEF along
<1> QED
  BY <1>2, <1>3, <1>4, <1>6, <1>7 DEF Leads, t

\* A state's origin depends on nothing else.
LEMMA OriginIs ==
  ASSUME UNCHANGED program, NEW f, NEW S, NEW loop, NEW t, NEW state, Origin(f, S, loop, t, state),
         fn' = f, (states[fn])' = S, returnTo' = loop
  PROVE  Origin(fn, states[fn], returnTo, t, state)'
<1>1. \A p : /\ (Branches(p))' = Branches(p) /\ \A n : Target(p, n)' = Target(p, n)
  BY DEF Branches, Target, Statement
<1>2. (InitialState(fn))' = InitialState(f)
  BY DEF InitialState, Index, argument, entry_block
<1>3. \A p, n : After(states[fn], returnTo, p, n)' = After(S, loop, p, n)
  BY DEF After, LiveAfter, ValueAfter, Source, Index, argument, cont_block, Results, ResultsOf, Taken, Statement
<1> QED
  BY <1>1, <1>2, <1>3 DEF Origin

\* The statement taken from the queue, and its variables.
LEMMA CurrentState ==
  ASSUME ProgramInv, BodyInv, WrittenInv, fn \in Functions, Visiting("body"),
         NEW at, at = current.at, NEW state, state = StateAt(at, current.state)
  PROVE  /\ at \in DOMAIN preds /\ at \notin DOMAIN states[fn] /\ at \in Stmts /\ at \notin visited
         /\ DOMAIN states[fn] \subseteq DOMAIN preds /\ 0 \notin DOMAIN preds
         /\ DOMAIN state = LiveHere[at] /\ Holds(state, at)
         /\ IF at \in JoinsHere THEN state = LandingState(LiveHere[at], at)
            ELSE Origin(fn, states[fn], returnTo, at, state)
         /\ IsTailCall(at, state) <=> IsTail(at)
<1>1. /\ current \in Elements(queue) /\ at \in DOMAIN preds /\ at \in Stmts /\ at \notin visited
  BY CurrentStatement
<1>2. DOMAIN states[fn] = visited /\ DOMAIN states[fn] \subseteq DOMAIN LiveHere
  BY DEF WrittenInv, Written
<1>3. DOMAIN LiveHere = DOMAIN preds /\ LiveHere[at] = preds[at].vars /\ (HasLanding(at) <=> at \in JoinsHere)
  BY <1>1 DEF LiveHere, JoinsHere
<1>4. 0 \notin DOMAIN preds
  BY StatementFacts DEF BodyInv
<1> DEFINE before == current.state
<1>5. Origin(fn, states[fn], returnTo, at, before)
  BY <1>1 DEF WrittenInv
<1> HIDE DEF before
<1>6. DOMAIN before = LiveHere[at] /\ Holds(before, at)
  <2>1. /\ Static(fn, LiveHere, JoinsHere)
        /\ \A p \in DOMAIN states[fn] : DOMAIN states[fn][p] = LiveHere[p] /\ Holds(states[fn][p], p)
    BY DEF WrittenInv, Written
  <2> DEFINE S == states[fn]
  <2>2. /\ Static(fn, LiveHere, JoinsHere) /\ DOMAIN S \subseteq DOMAIN LiveHere
        /\ Origin(fn, S, returnTo, at, before)
        /\ \A p \in DOMAIN S : DOMAIN S[p] = LiveHere[p] /\ Holds(S[p], p)
    BY <1>2, <1>5, <2>1
  <2> DEFINE live == LiveHere
             joins == JoinsHere
  <2> HIDE DEF S, live, joins
  <2>3. /\ Static(fn, live, joins) /\ DOMAIN S \subseteq DOMAIN live
        /\ \A p \in DOMAIN S : DOMAIN S[p] = live[p] /\ Holds(S[p], p)
    BY <2>2 DEF live, joins
  <2>4. \A t, st : Origin(fn, S, returnTo, t, st) => DOMAIN st = live[t] /\ Holds(st, t)
    BY <2>3, OriginFacts
  <2> QED
    BY <2>2, <2>4 DEF live
<1>7. CASE HasLanding(at)
  <2>1. state = LandingState(DOMAIN before, at)
    BY <1>7 DEF StateAt, LandingState, Index, before
  <2>2. DOMAIN state = LiveHere[at] /\ Holds(state, at)
    BY <1>6, <2>1 DEF LandingState, Holds, Settled, argument, landing_block
  <2> QED
    BY <1>1, <1>2, <1>3, <1>4, <1>6, <1>7, <2>1, <2>2 DEF IsTailCall, IsTail, Taken
<1>8. CASE ~HasLanding(at)
  <2>1. state = before
    BY <1>8 DEF StateAt, before
  <2> QED
    BY <1>1, <1>2, <1>3, <1>4, <1>5, <1>6, <1>8, <2>1 DEF IsTailCall, IsTail, Taken
<1> QED
  BY <1>7, <1>8

\* A statement is written: X is the region L, where the landing block jumps to the statement,
\* with the end of the statement's block, and back is the tail call known after that.
Writes(at, state, results, L, X, back, T) ==
  /\ at = current.at /\ state = StateAt(at, current.state)
  /\ \/ back = returnTo
     \/ returnTo = 0 /\ back = at /\ is_recursive /\ IsTail(at)
  /\ \A n \in Branches(at) : results[n] = Source(back, at, n)
  /\ L = land(code[fn], at, state)
  /\ \A p \in DOMAIN preds : p # at => X[libfunc_block(p)] = L[libfunc_block(p)]
  /\ \A p \in JoinsHere : X[landing_block(p)] = L[landing_block(p)]
  /\ X[pre_entry_block] = L[pre_entry_block] /\ X[entry_block] = L[entry_block]
  /\ T = [s \in DOMAIN states[fn] \cup {at} |-> IF s = at THEN state ELSE states[fn][s]]
  /\ \A end \in Elements(X[libfunc_block(at)].ends) : Ends(fn, T, back, LiveHere, JoinsHere, at, end)
  /\ back # 0 /\ back = returnTo => X[cont_block(back)] = L[cont_block(back)]
  /\ back = at => \A end \in Elements(X[cont_block(at)].ends) :
                    end.op = "br" /\ Leads(T, back, LiveHere, JoinsHere, at, 1, end)
  /\ is_recursive /\ IsTail(at) => at = back

LEMMA ProcessedWritten ==
  ASSUME ProgramInv, BodyInv, WrittenInv, fn \in Functions, fn \in DOMAIN code, fn \in DOMAIN states,
         Visiting("body"), UNCHANGED <<program, todo, preds, tails>>,
         NEW at, NEW state, NEW results, NEW L, NEW X, NEW back, NEW T,
         Writes(at, state, results, L, X, back, T),
         Processed(at, state, results), code' = [code EXCEPT ![fn] = X], returnTo' = back
  PROVE  WrittenInv'
<1>0. /\ at = current.at /\ state = StateAt(at, current.state)
      /\ \/ back = returnTo
         \/ returnTo = 0 /\ back = at /\ is_recursive /\ IsTail(at)
      /\ \A n \in Branches(at) : results[n] = Source(back, at, n)
      /\ L = land(code[fn], at, state)
      /\ T = [s \in DOMAIN states[fn] \cup {at} |-> IF s = at THEN state ELSE states[fn][s]]
      /\ is_recursive /\ IsTail(at) => at = back
  BY DEF Writes
<1> DEFINE S == states[fn]
<1>1. /\ at \in DOMAIN preds /\ at \notin DOMAIN S /\ at \in Stmts /\ at \notin visited
      /\ DOMAIN S \subseteq DOMAIN preds /\ 0 \notin DOMAIN preds
      /\ DOMAIN state = LiveHere[at] /\ Holds(state, at)
      /\ IF at \in JoinsHere THEN state = LandingState(LiveHere[at], at)
         ELSE Origin(fn, S, returnTo, at, state)
  BY <1>0, CurrentState
<1>2. /\ Tails(DOMAIN preds) /\ Static(fn, LiveHere, JoinsHere) /\ DOMAIN S = visited
      /\ Written(fn, code[fn], S, returnTo, LiveHere, JoinsHere)
      /\ returnTo # 0 => is_recursive /\ IsTail(returnTo) /\ returnTo \in DOMAIN S
      /\ is_recursive => \A p \in visited : IsTail(p) => p = returnTo
      /\ \A e \in Elements(queue) : Origin(fn, S, returnTo, e.at, e.state)
  BY DEF WrittenInv, Written
<1>3. DOMAIN LiveHere = DOMAIN preds /\ LiveHere[at] = preds[at].vars /\ JoinsHere \subseteq DOMAIN preds
  BY <1>1 DEF LiveHere, JoinsHere
<1>4. Written(fn, L, S, returnTo, LiveHere, JoinsHere)
  <2>1. Shape(code[fn]) /\ Blocks(code[fn]) /\ (returnTo # 0 => cont_block(returnTo) \in DOMAIN code[fn])
    BY DEF BodyInv, Blocks, Shape, Jumps
  <2> QED
    BY <1>0, <1>1, <1>2, <1>3, <2>1, LandWritten
<1>5. /\ Written(fn, X, T, back, LiveHere, JoinsHere)
      /\ \A t, st : Origin(fn, S, returnTo, t, st) => Origin(fn, T, back, t, st)
      /\ \A n \in Branches(at) : Origin(fn, T, back, Target(at, n), After(T, back, at, n))
  <2>1. \/ back = returnTo /\ back # at
        \/ /\ returnTo = 0 /\ back = at /\ 0 \notin DOMAIN S
           /\ \A p \in DOMAIN S : ~IsReturn(p)
    <3>1. is_recursive => \A p \in visited : IsReturn(p) => returnTo # 0
      BY DEF BodyInv
    <3> QED
      BY <1>0, <1>1, <1>2, <3>1
  <2>2. back = at => Statement(at).fn = fn /\ LiveHere[at] = Taken(at)
    BY <1>0, <1>1, <1>3, <2>1 DEF IsTail
  <2>3. at \in DOMAIN LiveHere \ DOMAIN S
    BY <1>1, <1>3
  <2>4. \A p \in DOMAIN S : X[libfunc_block(p)] = L[libfunc_block(p)]
    BY <1>1 DEF Writes
  <2>5. /\ T = [s \in DOMAIN S \cup {at} |-> IF s = at THEN state ELSE S[s]]
        /\ back # 0 /\ back = returnTo => X[cont_block(returnTo)] = L[cont_block(returnTo)]
    BY DEF Writes
  <2> HIDE DEF S
  <2>6. Grows(fn, L, S, returnTo, LiveHere, JoinsHere, at, state, T, back, X)
    BY <1>1, <1>4, <2>1, <2>2, <2>3, <2>4, <2>5, Zenon DEF Grows, Writes
  <2> QED
    BY <2>6, WrittenGrows
<1>6. (states[fn])' = T /\ visited' = visited \cup {at} /\ DOMAIN T = visited'
  BY <1>0, <1>2, Zenon DEF Processed, fn
<1>7. Written(fn, code[fn], states[fn], returnTo, LiveHere, JoinsHere)'
  <2>1. PICK f, live, joins : f = fn /\ live = LiveHere /\ joins = JoinsHere
    OBVIOUS
  <2>2. Written(f, X, T, back, live, joins)
    BY <1>5, <2>1
  <2>3. fn' = f /\ LiveHere' = live /\ JoinsHere' = joins
    BY <2>1, GraphKept
  <2>4. (code[fn])' = X
    BY DEF fn
  <2>5. PICK Y, U : Y = X /\ U = T
    OBVIOUS
  <2> QED
    BY <1>6, <2>2, <2>3, <2>4, <2>5, WrittenIs
<1>8. (Tails(DOMAIN preds))'
  <2>1. PICK C : C = DOMAIN preds
    OBVIOUS
  <2>2. Tails(C)' /\ C = DOMAIN preds'
    BY <1>2, <2>1, GraphKept
  <2> QED
    BY <2>2 DEF Tails
<1>9. Static(fn, LiveHere, JoinsHere)'
  BY <1>2, GraphKept
<1>10. /\ (returnTo # 0 => is_recursive /\ IsTail(returnTo))'
       /\ (is_recursive => \A p \in visited : IsTail(p) => p = returnTo)'
  <2>1. \A p : IsTail(p)' = IsTail(p)
    BY GraphKept
  <2>2. back # 0 => is_recursive /\ IsTail(back)
    BY <1>0, <1>2
  <2>3. is_recursive => \A p \in visited \cup {at} : IsTail(p) => p = back
    <3> SUFFICES ASSUME is_recursive, NEW p \in visited \cup {at}, IsTail(p) PROVE p = back
      OBVIOUS
    <3>1. CASE p = at
      BY <1>0, <3>1
    <3>2. CASE p \in visited
      <4>1. p = returnTo /\ p # 0
        BY <1>1, <1>2, <3>2
      <4> QED
        BY <1>0, <4>1
    <3> QED
      BY <3>1, <3>2
  <2>4. is_recursive' = is_recursive /\ returnTo' = back /\ IsTail(returnTo)' = IsTail(back)
    BY DEF is_recursive, IsTail, Statement, fn, Taken
  <2> QED
    BY <1>6, <2>1, <2>2, <2>3, <2>4
<1>11. \A e \in Elements(queue') : Origin(fn, T, back, e.at, e.state)
  <2> DEFINE new == [n \in DOMAIN Statement(at).branches |->
                      LET branch == Statement(at).branches[n] IN
                      [at |-> branch.target,
                       state |-> [v \in (DOMAIN state \ Range(Statement(at).args)) \cup Range(branch.results) |->
                                    IF v \in Range(branch.results)
                                    THEN argument(results[n], CHOOSE i \in DOMAIN branch.results : branch.results[i] = v)
                                    ELSE state[v]]]]
  <2>1. queue' = Front(queue) \o new
    BY DEF Processed
  <2>2. T[at] = state
    BY <1>0
  <2>3. \A n \in Branches(at) : new[n].at = Target(at, n) /\ new[n].state = After(T, back, at, n)
    <3> SUFFICES ASSUME NEW n \in Branches(at)
                 PROVE  new[n].at = Target(at, n) /\ new[n].state = After(T, back, at, n)
      OBVIOUS
    <3>1. results[n] = Source(back, at, n)
      BY <1>0
    <3> DEFINE found == Statement(at).branches[n].results
               after(st, r) == [v \in (DOMAIN st \ Range(Statement(at).args)) \cup Range(found) |->
                 IF v \in Range(found)
                 THEN argument(r, CHOOSE k \in DOMAIN found : found[k] = v)
                 ELSE st[v]]
    <3>2. new[n].at = Target(at, n) /\ new[n].state = after(state, results[n])
      BY DEF Branches, Target
    <3>3. After(T, back, at, n) = after(T[at], Source(back, at, n))
      BY DEF After, LiveAfter, ValueAfter, ResultsOf, Taken, Index
    <3> HIDE DEF after, new
    <3> QED
      BY <2>2, <3>1, <3>2, <3>3
  <2>4. DOMAIN new = Branches(at)
    BY DEF Branches
  <2> HIDE DEF new
  <2>5. \A n \in Branches(at) : Origin(fn, T, back, new[n].at, new[n].state)
    BY <1>5, <2>3
  <2>6. IsSequence(new) /\ \A e \in Elements(new) : \E n \in Branches(at) : e = new[n]
    <3>1. Branches(at) = 1..Len(Statement(at).branches) /\ Len(Statement(at).branches) \in Nat
      BY <1>1, StatementFacts, SequenceDomain DEF Branches
    <3>2. new = [n \in 1..Len(Statement(at).branches) |-> new[n]]
      BY <2>4, <3>1 DEF new
    <3>3. IsSequence(new) /\ Len(new) = Len(Statement(at).branches)
      BY <3>1, <3>2, FunctionIsSequence
    <3> QED
      BY <3>1, <3>3 DEF Elements
  <2>7. queue # <<>> /\ IsSequence(queue)
    BY DEF Visiting, BodyInv, Traversal
  <2>8. Elements(queue') \subseteq Elements(queue) \cup Elements(new)
    BY <2>1, <2>6, <2>7, QueueStep
  <2>9. \A e \in Elements(new) : Origin(fn, T, back, e.at, e.state)
    BY <2>5, <2>6
  <2> QED
    BY <1>2, <1>5, <2>8, <2>9
<1>12. \A e \in Elements(queue') : Origin(fn, states[fn], returnTo, e.at, e.state)'
  <2> SUFFICES ASSUME NEW e \in Elements(queue') PROVE Origin(fn, states[fn], returnTo, e.at, e.state)'
    OBVIOUS
  <2>1. PICK f : f = fn
    OBVIOUS
  <2>2. /\ Origin(f, T, back, e.at, e.state) /\ fn' = f /\ (states[fn])' = T /\ returnTo' = back
    BY <1>6, <1>11, <2>1, GraphKept
  <2> QED
    BY <2>2, OriginIs
<1> QED
  BY <1>6, <1>7, <1>8, <1>9, <1>10, <1>12 DEF WrittenInv

\* The terminator of a statement is the only one of its block, and changes no other.
LEMMA EndAppended ==
  ASSUME ProgramInv, BodyInv, WrittenInv, fn \in Functions, Visiting("body"),
         NEW at, at = current.at, NEW state, state = StateAt(at, current.state),
         NEW L, L = land(code[fn], at, state), NEW op, NEW X, X = Append_operation(L, libfunc_block(at), op)
  PROVE  /\ \A p \in DOMAIN preds : p # at => X[libfunc_block(p)] = L[libfunc_block(p)]
         /\ \A p \in JoinsHere : X[landing_block(p)] = L[landing_block(p)]
         /\ X[pre_entry_block] = L[pre_entry_block] /\ X[entry_block] = L[entry_block]
         /\ returnTo # 0 => X[cont_block(returnTo)] = L[cont_block(returnTo)]
         /\ Elements(X[libfunc_block(at)].ends) = {op}
         /\ \A p : libfunc_block(at) # cont_block(p)
<1> DEFINE R == code[fn]
           b == libfunc_block(at)
<1>1. /\ at \in DOMAIN preds /\ at \notin visited
      /\ at \in JoinsHere => state = LandingState(LiveHere[at], at)
  BY CurrentState
<1>2. /\ Shape(R) /\ Blocks(R) /\ (returnTo # 0 => cont_block(returnTo) \in DOMAIN R)
      /\ Len(R[b].ends) = 0
  BY <1>1 DEF BodyInv, Blocks, Shape, Jumps, Counts
<1>3. Written(fn, R, states[fn], returnTo, LiveHere, JoinsHere) /\ JoinsHere \subseteq DOMAIN preds
  BY DEF WrittenInv, JoinsHere
<1> HIDE DEF R
<1>4. DOMAIN L = DOMAIN R /\ Blocks(L) /\ L[b] = R[b]
  <2>1. L = land(R, at, state)
    BY DEF R
  <2> HIDE DEF b
  <2>2. DOMAIN L = DOMAIN R /\ Blocks(L) /\ L[libfunc_block(at)] = R[libfunc_block(at)]
    BY <1>1, <1>2, <1>3, <2>1, LandWritten
  <2> QED
    BY <2>2 DEF b
<1>5. b \in DOMAIN L
  BY <1>1, <1>2, <1>4 DEF Shape
<1>6. Elements(L[b].ends) = {}
  BY <1>2, <1>4 DEF Elements
<1>7. /\ \A p \in DOMAIN preds : libfunc_block(p) \in DOMAIN L /\ (p # at => libfunc_block(p) # b)
      /\ \A p \in JoinsHere : landing_block(p) \in DOMAIN L /\ landing_block(p) # b
      /\ {pre_entry_block, entry_block} \subseteq DOMAIN L /\ b \notin {pre_entry_block, entry_block}
      /\ \A p : cont_block(p) # b
  BY <1>2, <1>4, BlockNames DEF Shape, JoinsHere
<1> HIDE DEF b
<1>8. /\ DOMAIN X = DOMAIN L /\ \A c \in DOMAIN L : c # b => X[c] = L[c]
      /\ Elements(X[b].ends) = Elements(L[b].ends) \cup {op}
  <2>1. IsSequence(L[b].ends) /\ DOMAIN L[b] = {"params", "ends"} /\ X = Append_operation(L, b, op)
    BY <1>4, <1>5 DEF Blocks, b
  <2> QED
    BY <1>5, <2>1, AppendElements
<1>9. Elements(X[b].ends) = {op}
  BY <1>6, <1>8
<1> QED
  BY <1>2, <1>4, <1>7, <1>8, <1>9 DEF b

\* A libfunc, or a call.
LEMMA InvocationWritten ==
  ASSUME ProgramInv, BodyInv, WrittenInv, fn \in Functions, fn \in DOMAIN code, fn \in DOMAIN states,
         BuildInvocation, UNCHANGED program
  PROVE  WrittenInv'
<1> DEFINE at == current.at
           state == StateAt(at, current.state)
           results == [n \in DOMAIN Statement(at).branches |-> Results(at, n)]
           targets == generate_branching_targets(at, state, results)
           op == [op |-> IF IsCall(at) THEN "call" ELSE "libfunc",
                  fn |-> Statement(at).fn, branches |-> targets]
           L == land(code[fn], at, state)
           X == Append_operation(L, libfunc_block(at), op)
           T == [s \in DOMAIN states[fn] \cup {at} |-> IF s = at THEN state ELSE states[fn][s]]
<1>1. /\ Visiting("body") /\ ~IsReturn(at) /\ Processed(at, state, results)
      /\ ~(is_recursive /\ IsTailCall(at, state))
      /\ code' = [code EXCEPT ![fn] = X]
      /\ UNCHANGED <<program, todo, preds, tails, returnTo, tailCall>>
  BY DEF BuildInvocation
<1>2. /\ op.op = (IF IsCall(at) THEN "call" ELSE "libfunc") /\ op.fn = Statement(at).fn /\ op.branches = targets
      /\ X = Append_operation(L, libfunc_block(at), op) /\ L = land(code[fn], at, state)
      /\ T[at] = state
      /\ T = [s \in DOMAIN states[fn] \cup {at} |-> IF s = at THEN state ELSE states[fn][s]]
  OBVIOUS
<1>3. \A n \in Branches(at) : results[n] = Results(at, n)
  BY DEF Branches
<1>4. targets = generate_branching_targets(at, state, results) /\ DOMAIN targets = Branches(at)
  BY DEF generate_branching_targets, Branches
<1>5. at = current.at /\ state = StateAt(at, current.state)
  OBVIOUS
<1> HIDE DEF at, state, results, targets, op, L, X, T
<1>6. /\ at \in DOMAIN preds /\ at \notin DOMAIN states[fn] /\ 0 \notin DOMAIN preds
      /\ IsTailCall(at, state) <=> IsTail(at)
  BY <1>1, <1>5, CurrentState
<1>7. at # returnTo
  BY <1>6 DEF WrittenInv, Written
<1>8. \A n \in Branches(at) : results[n] = Source(returnTo, at, n)
  BY <1>3, <1>7 DEF Source
<1>9. \A n \in Branches(at) : Leads(T, returnTo, LiveHere, JoinsHere, at, n, targets[n])
  BY <1>2, <1>4, <1>6, <1>8, TargetsLead DEF BodyInv
<1>10. Ends(fn, T, returnTo, LiveHere, JoinsHere, at, op)
  BY <1>1, <1>2, <1>4, <1>7, <1>9 DEF Ends
<1>11. /\ \A p \in DOMAIN preds : p # at => X[libfunc_block(p)] = L[libfunc_block(p)]
       /\ \A p \in JoinsHere : X[landing_block(p)] = L[landing_block(p)]
       /\ X[pre_entry_block] = L[pre_entry_block] /\ X[entry_block] = L[entry_block]
       /\ returnTo # 0 => X[cont_block(returnTo)] = L[cont_block(returnTo)]
       /\ Elements(X[libfunc_block(at)].ends) = {op}
  BY <1>1, <1>2, <1>5, EndAppended
<1>12. Writes(at, state, results, L, X, returnTo, T)
  BY <1>1, <1>2, <1>5, <1>6, <1>7, <1>8, <1>10, <1>11 DEF Writes
<1> QED
  BY <1>1, <1>12, ProcessedWritten

\* The tail call of a loop.
LEMMA TailCallWritten ==
  ASSUME ProgramInv, BodyInv, WrittenInv, fn \in Functions, fn \in DOMAIN code, fn \in DOMAIN states,
         BuildTailCall, UNCHANGED program
  PROVE  WrittenInv'
<1> DEFINE at == current.at
           state == StateAt(at, current.state)
           results == <<cont_block(at)>>
           targets == generate_branching_targets(at, state, results)
           op == [op |-> "deeper", to |-> entry_block,
                  with |-> Arguments(libfunc_block(at), Len(Statement(at).args))]
           end == [op |-> "br", to |-> targets[1].to, with |-> targets[1].with]
           block == [params |-> Len(function.rets), ends |-> <<end>>]
           L == land(code[fn], at, state)
           B == Append_operation(L, libfunc_block(at), op)
           X == [b \in DOMAIN B \cup {cont_block(at)} |-> IF b = cont_block(at) THEN block ELSE B[b]]
           T == [s \in DOMAIN states[fn] \cup {at} |-> IF s = at THEN state ELSE states[fn][s]]
<1>1. /\ Visiting("body") /\ is_recursive /\ IsTailCall(at, state) /\ Processed(at, state, results)
      /\ code' = [code EXCEPT ![fn] = X] /\ returnTo' = at
      /\ UNCHANGED <<program, todo, preds, tails>>
  BY DEF BuildTailCall
<1>2. /\ op.op = "deeper" /\ op.to = entry_block
      /\ op.with = Arguments(libfunc_block(at), Len(Statement(at).args))
      /\ end.op = "br" /\ end.to = targets[1].to /\ end.with = targets[1].with
      /\ block.ends = <<end>>
      /\ B = Append_operation(L, libfunc_block(at), op) /\ L = land(code[fn], at, state)
      /\ T[at] = state
      /\ T = [s \in DOMAIN states[fn] \cup {at} |-> IF s = at THEN state ELSE states[fn][s]]
  OBVIOUS
<1>3. /\ X[cont_block(at)] = block /\ \A b \in DOMAIN B : b # cont_block(at) => X[b] = B[b]
  OBVIOUS
<1>4. results[1] = cont_block(at) /\ targets = generate_branching_targets(at, state, results)
  OBVIOUS
<1>5. at = current.at /\ state = StateAt(at, current.state)
  OBVIOUS
<1> HIDE DEF at, state, results, targets, op, end, block, L, B, X, T
<1>6. /\ at \in DOMAIN preds /\ at \notin DOMAIN states[fn] /\ 0 \notin DOMAIN preds /\ at \in Stmts
      /\ DOMAIN states[fn] \subseteq DOMAIN preds
      /\ IsTailCall(at, state) <=> IsTail(at)
  BY <1>1, <1>5, CurrentState
<1>7. returnTo = 0
  <2>1. returnTo # 0 => returnTo \in DOMAIN states[fn] /\ IsTail(returnTo)
    BY DEF WrittenInv, Written
  <2>2. returnTo # 0 => tails >= 2
    BY <1>1, <1>6, <2>1 DEF WrittenInv, Tails
  <2> QED
    BY <1>1, <2>2 DEF is_recursive, WrittenInv, Tails
<1>8. Branches(at) = {1} /\ ~IsReturn(at) /\ IsTail(at)
  <2>1. Statement(at).fn = fn /\ IsCall(at)
    BY <1>1 DEF IsTailCall, IsCall, Functions
  <2>2. /\ Len(Statement(at).branches) = 1 /\ ~IsReturn(at)
        /\ DOMAIN Statement(at).branches = 1..Len(Statement(at).branches)
    BY <1>6, <2>1, StatementFacts, SequenceDomain
  <2> QED
    BY <1>1, <1>6, <2>2 DEF Branches
<1>9. \A n \in Branches(at) : results[n] = Source(at, at, n)
  BY <1>4, <1>8 DEF Source
<1>10. Leads(T, at, LiveHere, JoinsHere, at, 1, end)
  <2>1. Leads(T, at, LiveHere, JoinsHere, at, 1, targets[1])
    BY <1>2, <1>4, <1>6, <1>8, <1>9, TargetsLead DEF BodyInv
  <2> QED
    BY <1>2, <2>1 DEF Leads
<1>11. Ends(fn, T, at, LiveHere, JoinsHere, at, op)
  BY <1>2, <1>8 DEF Ends
<1>12. /\ \A p \in DOMAIN preds : p # at => B[libfunc_block(p)] = L[libfunc_block(p)]
       /\ \A p \in JoinsHere : B[landing_block(p)] = L[landing_block(p)]
       /\ B[pre_entry_block] = L[pre_entry_block] /\ B[entry_block] = L[entry_block]
       /\ Elements(B[libfunc_block(at)].ends) = {op}
  <2>1. Visiting("body") /\ B = Append_operation(L, libfunc_block(at), op) /\ L = land(code[fn], at, state)
    BY <1>1, <1>2
  <2> QED
    BY <1>5, <2>1, EndAppended
<1>13. DOMAIN B = DOMAIN code[fn] /\ Shape(code[fn])
  <2>1. DOMAIN B = DOMAIN L /\ DOMAIN L = DOMAIN code[fn]
    BY <1>2 DEF Append_operation, land
  <2> QED
    BY <2>1 DEF BodyInv
<1>14. /\ \A p \in DOMAIN preds : X[libfunc_block(p)] = B[libfunc_block(p)]
       /\ \A p \in JoinsHere : X[landing_block(p)] = B[landing_block(p)]
       /\ X[pre_entry_block] = B[pre_entry_block] /\ X[entry_block] = B[entry_block]
  BY <1>3, <1>13, BlockNames DEF Shape, JoinsHere
<1>15. Elements(X[cont_block(at)].ends) = {end}
  <2>1. X[cont_block(at)].ends = <<end>>
    BY <1>2, <1>3
  <2> QED
    BY <2>1, OneElement
<1>16. Elements(X[libfunc_block(at)].ends) = {op}
  BY <1>6, <1>12, <1>14
<1>17. Writes(at, state, results, L, X, at, T)
  BY <1>1, <1>2, <1>5, <1>6, <1>7, <1>8, <1>9, <1>10, <1>11, <1>12, <1>14, <1>15, <1>16, SMTT(30) DEF Writes
<1> QED
  BY <1>1, <1>17, ProcessedWritten

\* A return.
LEMMA ReturnWritten ==
  ASSUME ProgramInv, BodyInv, WrittenInv, fn \in Functions, fn \in DOMAIN code, fn \in DOMAIN states,
         BuildReturn, UNCHANGED program
  PROVE  WrittenInv'
<1> DEFINE at == current.at
           state == StateAt(at, current.state)
           again == [op |-> "shallower", to |-> cont_block(returnTo), with |-> recursive_values(at)]
           leave == [op |-> "return"]
           op == IF is_recursive THEN again ELSE leave
           L == land(code[fn], at, state)
           X == Append_operation(L, libfunc_block(at), op)
           T == [s \in DOMAIN states[fn] \cup {at} |-> IF s = at THEN state ELSE states[fn][s]]
<1>1. /\ Visiting("body") /\ IsReturn(at) /\ (is_recursive => returnTo # 0)
      /\ Processed(at, state, <<>>) /\ code' = [code EXCEPT ![fn] = X]
      /\ UNCHANGED <<program, todo, preds, tails, returnTo, tailCall>>
  BY DEF BuildReturn
<1>2. /\ again.op = "shallower" /\ again.to = cont_block(returnTo) /\ again.with = recursive_values(at)
      /\ leave.op = "return" /\ op = IF is_recursive THEN again ELSE leave
      /\ X = Append_operation(L, libfunc_block(at), op) /\ L = land(code[fn], at, state)
      /\ T = [s \in DOMAIN states[fn] \cup {at} |-> IF s = at THEN state ELSE states[fn][s]]
  OBVIOUS
<1>3. at = current.at /\ state = StateAt(at, current.state)
  OBVIOUS
<1> HIDE DEF at, state, again, leave, op, L, X, T
<1>4. /\ at \in DOMAIN preds /\ at \notin DOMAIN states[fn] /\ 0 \notin DOMAIN preds /\ at \in Stmts
  BY <1>1, <1>3, CurrentState
<1>5. at # returnTo /\ (returnTo # 0 => is_recursive)
  BY <1>4 DEF WrittenInv, Written
<1>6. Branches(at) = {} /\ ~IsCall(at)
  <2>1. Targets(at) = {} /\ ~IsCall(at)
    BY <1>1, <1>4, StatementFacts
  <2> QED
    BY <2>1, TargetsAre
<1>7. Ends(fn, T, returnTo, LiveHere, JoinsHere, at, op)
  <2>1. CASE ~is_recursive
    BY <1>1, <1>2, <1>5, <2>1 DEF Ends
  <2>2. CASE is_recursive
    <3> DEFINE handed == CASE has_return_ptr(fn) = "pointer" -> {"register"}
                           [] has_return_ptr(fn) = "registers" -> {"register", "memory"}
                           [] OTHER -> {}
               kept == {i \in DOMAIN function.rets : function.rets[i] \in handed}
    <3>1. recursive_values(at) = [i \in DOMAIN Sorted(kept) |-> argument(libfunc_block(at), Sorted(kept)[i])]
      BY DEF recursive_values
    <3>2. kept \in SUBSET DOMAIN program.functions[fn].rets
      BY DEF function
    <3> HIDE DEF kept
    <3> QED
      BY <1>1, <1>2, <2>2, <3>1, <3>2 DEF Ends
  <2> QED
    BY <2>1, <2>2
<1>8. ~IsTail(at)
  BY <1>6 DEF IsTail, IsCall, Functions
<1>9. /\ \A p \in DOMAIN preds : p # at => X[libfunc_block(p)] = L[libfunc_block(p)]
      /\ \A p \in JoinsHere : X[landing_block(p)] = L[landing_block(p)]
      /\ X[pre_entry_block] = L[pre_entry_block] /\ X[entry_block] = L[entry_block]
      /\ returnTo # 0 => X[cont_block(returnTo)] = L[cont_block(returnTo)]
      /\ Elements(X[libfunc_block(at)].ends) = {op}
  <2>1. Visiting("body") /\ X = Append_operation(L, libfunc_block(at), op) /\ L = land(code[fn], at, state)
    BY <1>1, <1>2
  <2> QED
    BY <1>3, <2>1, EndAppended
<1>10. Writes(at, state, <<>>, L, X, returnTo, T)
  BY <1>2, <1>3, <1>5, <1>6, <1>7, <1>8, <1>9 DEF Writes
<1> QED
  BY <1>1, <1>10, ProcessedWritten

\* A return that waits, and a statement met again.
LEMMA LandOnlyWritten ==
  ASSUME ProgramInv, BodyInv, WrittenInv, fn \in Functions, fn \in DOMAIN code, fn \in DOMAIN states,
         UNCHANGED <<program, todo, visited, preds, tails, returnTo, states>>,
         NEW L, (code[fn])' = L,
         Written(fn, L, states[fn], returnTo, LiveHere, JoinsHere),
         Elements(queue') \subseteq Elements(queue)
  PROVE  WrittenInv'
<1>1. PICK f, S, loop, live, joins :
        f = fn /\ S = states[fn] /\ loop = returnTo /\ live = LiveHere /\ joins = JoinsHere
  OBVIOUS
<1>2. /\ Written(f, L, S, loop, live, joins) /\ fn' = f /\ (code[fn])' = L /\ (states[fn])' = S
      /\ returnTo' = loop /\ LiveHere' = live /\ JoinsHere' = joins
  BY <1>1, GraphKept
<1>3. Written(fn, code[fn], states[fn], returnTo, LiveHere, JoinsHere)'
  BY <1>2, WrittenIs
<1>4. Static(fn, LiveHere, JoinsHere)'
  BY GraphKept DEF WrittenInv
<1>5. (Tails(DOMAIN preds))'
  <2>1. PICK C : C = DOMAIN preds
    OBVIOUS
  <2>2. Tails(C)' /\ C = DOMAIN preds'
    BY <2>1, GraphKept DEF WrittenInv
  <2> QED
    BY <2>2 DEF Tails
<1>6. \A e \in Elements(queue') : Origin(fn, states[fn], returnTo, e.at, e.state)'
  <2> SUFFICES ASSUME NEW e \in Elements(queue') PROVE Origin(fn, states[fn], returnTo, e.at, e.state)'
    OBVIOUS
  <2>1. Origin(f, S, loop, e.at, e.state)
    BY <1>1 DEF WrittenInv
  <2> QED
    BY <1>2, <2>1, OriginIs
<1>7. \A p : IsTail(p)' = IsTail(p)
  BY GraphKept
<1>8. /\ (returnTo # 0 => is_recursive /\ IsTail(returnTo))'
      /\ (is_recursive => \A p \in visited : IsTail(p) => p = returnTo)'
  <2>1. is_recursive' = is_recursive /\ IsTail(returnTo)' = IsTail(returnTo)
    BY DEF is_recursive, IsTail, Statement, fn, Taken
  <2> QED
    BY <1>7, <2>1 DEF WrittenInv
<1>9. (DOMAIN states[fn] = visited)'
  BY DEF WrittenInv, fn
<1> QED
  BY <1>3, <1>4, <1>5, <1>6, <1>8, <1>9 DEF WrittenInv

LEMMA DeferWritten ==
  ASSUME ProgramInv, BodyInv, WrittenInv, fn \in Functions, fn \in DOMAIN code, fn \in DOMAIN states,
         DeferReturn, UNCHANGED program
  PROVE  WrittenInv'
<1> DEFINE at == current.at
           state == StateAt(at, current.state)
           L == land(code[fn], at, state)
<1>1. /\ Visiting("body") /\ code' = [code EXCEPT ![fn] = L]
      /\ queue' = <<current>> \o Front(queue)
      /\ UNCHANGED <<program, todo, visited, preds, tails, returnTo, states>>
  BY DEF DeferReturn
<1>2. at = current.at /\ state = StateAt(at, current.state) /\ L = land(code[fn], at, state)
  OBVIOUS
<1> HIDE DEF at, state, L
<1>3. at \in DOMAIN preds /\ (at \in JoinsHere => state = LandingState(LiveHere[at], at))
  BY <1>1, <1>2, CurrentState
<1>4. Written(fn, L, states[fn], returnTo, LiveHere, JoinsHere)
  <2>1. /\ Shape(code[fn]) /\ Blocks(code[fn]) /\ (returnTo # 0 => cont_block(returnTo) \in DOMAIN code[fn])
        /\ Written(fn, code[fn], states[fn], returnTo, LiveHere, JoinsHere) /\ JoinsHere \subseteq DOMAIN preds
    BY DEF BodyInv, Blocks, Shape, Jumps, WrittenInv, JoinsHere
  <2> QED
    BY <1>2, <1>3, <2>1, LandWritten
<1>5. Elements(queue') \subseteq Elements(queue)
  <2>1. queue # <<>> /\ IsSequence(queue)
    BY <1>1 DEF Visiting, BodyInv, Traversal
  <2>2. /\ IsSequence(Front(queue)) /\ IsSequence(<<current>>) /\ Elements(<<current>>) = {current}
        /\ Elements(queue) = Elements(Front(queue)) \cup {current}
    BY <2>1, FrontLast, OneElement DEF current
  <2> QED
    BY <1>1, <2>2, Concatenation
<1>6. (code[fn])' = L
  BY <1>1 DEF fn
<1> QED
  BY <1>1, <1>4, <1>5, <1>6, LandOnlyWritten

LEMMA SkipWritten ==
  ASSUME ProgramInv, BodyInv, WrittenInv, fn \in Functions, fn \in DOMAIN code, fn \in DOMAIN states,
         SkipVisited, UNCHANGED program
  PROVE  WrittenInv'
<1>1. /\ queue # <<>> /\ queue' = Front(queue) /\ code' = code
      /\ UNCHANGED <<program, todo, visited, preds, tails, returnTo, states>>
  BY DEF SkipVisited
<1>2. Elements(queue') \subseteq Elements(queue)
  BY <1>1, FrontLast DEF BodyInv, Traversal
<1>3. PICK L : L = code[fn]
  OBVIOUS
<1>4. Written(fn, L, states[fn], returnTo, LiveHere, JoinsHere) /\ (code[fn])' = L
  BY <1>1, <1>3 DEF WrittenInv, fn
<1> QED
  BY <1>1, <1>2, <1>4, LandOnlyWritten
-----------------------------------------------------------------------------
(* A finished region means its statements.                                 *)

\* When the queue is empty, everything is written.
LEMMA FunctionMeans ==
  ASSUME ProgramInv, BodyInv, WrittenInv, queue = <<>>
  PROVE  Means(fn)
<1> DEFINE S == states[fn]
           R == code[fn]
<1>1. visited = DOMAIN preds
  <2>1. Waiting = {} /\ Reached = visited
    BY Empty DEF Waiting, Reached
  <2>2. visited \in SUBSET Stmts /\ function.entry \in visited /\ Closed(visited)
    BY <2>1 DEF BodyInv, Traversal, Closed
  <2> QED
    BY <2>1, <2>2 DEF BodyInv, Least
<1>2. /\ Static(fn, LiveHere, JoinsHere) /\ Written(fn, R, S, returnTo, LiveHere, JoinsHere)
      /\ DOMAIN S = DOMAIN preds
  BY <1>1 DEF WrittenInv
<1>3. Shape(R) /\ tailCall[fn] = returnTo
      /\ (returnTo # 0 => returnTo \in DOMAIN preds /\ cont_block(returnTo) \in DOMAIN R)
  BY DEF BodyInv
<1>4. LiveOf(fn) = LiveHere
  <2>1. \A p \in DOMAIN preds : DOMAIN S[p] = preds[p].vars
    BY <1>2 DEF Written, LiveHere
  <2> QED
    BY <1>2, <2>1 DEF LiveOf, LiveHere
<1>5. JoinsOf(fn) = JoinsHere
  <2>1. \A p \in DOMAIN preds : HasLanding(p) => landing_block(p) \in DOMAIN R
    BY <1>3 DEF Shape
  <2>2. ASSUME NEW p \in DOMAIN preds, landing_block(p) \in DOMAIN R PROVE HasLanding(p)
    <3>1. \/ landing_block(p) \in {pre_entry_block, entry_block}
          \/ \E at \in DOMAIN preds : \/ landing_block(p) \in {libfunc_block(at), cont_block(at)}
                                      \/ landing_block(p) = landing_block(at) /\ HasLanding(at)
      BY <1>3, <2>2 DEF Shape
    <3> QED
      BY <3>1, BlockNames
  <2> QED
    BY <1>2, <2>1, <2>2 DEF JoinsOf, JoinsHere
<1>6. /\ \A p \in DOMAIN S : /\ libfunc_block(p) \in DOMAIN R
                             /\ R[libfunc_block(p)].params = Len(Statement(p).args)
      /\ {pre_entry_block, entry_block} \subseteq DOMAIN R
      /\ returnTo # 0 => /\ cont_block(returnTo) \in DOMAIN R
                         /\ R[cont_block(returnTo)].params = Len(program.functions[fn].rets)
  BY <1>2, <1>3 DEF Shape, function
<1> QED
  BY <1>2, <1>3, <1>4, <1>5, <1>6 DEF Means

MeansFrom ==
  \A f, R, S, loop, live, joins :
    /\ R = code[f] /\ S = states[f] /\ loop = tailCall[f] /\ live = LiveOf(f) /\ joins = JoinsOf(f)
    /\ Static(f, live, joins) /\ Written(f, R, S, loop, live, joins)
    => /\ Static(f, LiveOf(f), JoinsOf(f))
       /\ Written(f, code[f], states[f], tailCall[f], LiveOf(f), JoinsOf(f))

LEMMA MeansFor == MeansFrom
BY DEF MeansFrom

\* What does not depend on the code written so far.
LEMMA SameStatic ==
  ASSUME UNCHANGED program, NEW f, NEW live, NEW joins
  PROVE  Static(f, live, joins)' = Static(f, live, joins)
BY DEF Static, Closed, Targets, Branches, Target, Taken, LiveAfter, ResultsOf, Statement, IsReturn, Stmts

LEMMA SameWritten ==
  ASSUME UNCHANGED program, NEW f, NEW R, NEW S, NEW loop, NEW live, NEW joins
  PROVE  Written(f, R, S, loop, live, joins)' = Written(f, R, S, loop, live, joins)
<1>1. \A p : /\ (Branches(p))' = Branches(p) /\ (Taken(p))' = Taken(p) /\ (Statement(p))' = Statement(p)
             /\ IsReturn(p)' = IsReturn(p) /\ IsCall(p)' = IsCall(p)
             /\ \A n : Target(p, n)' = Target(p, n) /\ ResultsOf(p, n)' = ResultsOf(p, n)
  BY DEF Branches, Taken, Target, ResultsOf, Statement, IsReturn, IsCall
<1>2. \A p, n : After(S, loop, p, n)' = After(S, loop, p, n)
  BY DEF After, LiveAfter, ValueAfter, Source, Index, ResultsOf, Taken, Statement
<1>3. (InitialState(f))' = InitialState(f)
  BY DEF InitialState, Index
<1>4. \A t, state : Origin(f, S, loop, t, state)' = Origin(f, S, loop, t, state)
  BY <1>1, <1>2, <1>3 DEF Origin
<1>5. \A p, n, jump : Leads(S, loop, live, joins, p, n, jump)' = Leads(S, loop, live, joins, p, n, jump)
  BY DEF Leads, Wanted, ValueAfter, Source, Index, ResultsOf, Statement, Target
<1>6. \A p, end : Ends(f, S, loop, live, joins, p, end)' = Ends(f, S, loop, live, joins, p, end)
  BY <1>1, <1>5 DEF Ends, IsReturn, IsCall, Statement, Branches
<1>7. \A p, state, end : Operates(state, p, end)' = Operates(state, p, end)
  BY DEF Operates, Statement
<1>8. \A end : Operates(InitialState(f), program.functions[f].entry, end)' = Operates(InitialState(f), program.functions[f].entry, end)
  BY <1>3 DEF Operates, Statement
<1> QED
  BY <1>1, <1>4, <1>5, <1>6, <1>7, <1>8 DEF Written

\* A region that is left alone means what it meant.
LEMMA MeansKept ==
  ASSUME UNCHANGED program, NEW f, code'[f] = code[f], states'[f] = states[f], tailCall'[f] = tailCall[f],
         Means(f)
  PROVE  Means(f)'
<1>1. PICK R, S, loop, live, joins :
        R = code[f] /\ S = states[f] /\ loop = tailCall[f] /\ live = LiveOf(f) /\ joins = JoinsOf(f)
  OBVIOUS
<1>2. Static(f, live, joins)' /\ Written(f, R, S, loop, live, joins)'
  BY <1>1, SameStatic, SameWritten DEF Means
<1>3. /\ (code[f])' = R /\ (states[f])' = S /\ (tailCall[f])' = loop
      /\ (LiveOf(f))' = live /\ (JoinsOf(f))' = joins
  BY <1>1 DEF LiveOf, JoinsOf, landing_block
<1>4. MeansFrom'
  BY MeansFor, PTL
<1>5. /\ Static(f, LiveOf(f), JoinsOf(f))'
      /\ Written(f, code[f], states[f], tailCall[f], LiveOf(f), JoinsOf(f))'
  BY <1>2, <1>3, <1>4 DEF MeansFrom
<1>6. /\ (\A p \in DOMAIN states[f] :
            /\ libfunc_block(p) \in DOMAIN code[f]
            /\ code[f][libfunc_block(p)].params = Len(Statement(p).args))'
      /\ ({pre_entry_block, entry_block} \subseteq DOMAIN code[f])'
      /\ (tailCall[f] # 0 =>
            /\ cont_block(tailCall[f]) \in DOMAIN code[f]
            /\ code[f][cont_block(tailCall[f])].params = Len(program.functions[f].rets))'
  BY DEF Means, Statement, libfunc_block, cont_block, pre_entry_block, entry_block
<1> QED
  BY <1>5, <1>6 DEF Means
-----------------------------------------------------------------------------
(* Every step of the compiler keeps what was written.                      *)

\* A step that goes on with the same function.
LEMMA SameMeaningStep ==
  ASSUME MeaningInv, todo # <<>>, pass \in {"structure", "body"}, UNCHANGED <<program, todo>>, CompilerInv',
         DOMAIN states' = DOMAIN states,
         \A f \in Functions : f # fn =>
           code'[f] = code[f] /\ states'[f] = states[f] /\ tailCall'[f] = tailCall[f],
         pass' \in {"structure", "body", "failed"},
         pass' = "structure" => GraphInv' /\ UNCHANGED states /\ pass = "structure",
         pass' = "body" => WrittenInv'
  PROVE  MeaningInv'
<1>1. /\ fn \in Elements(todo) /\ Elements(todo) = Elements(Tail(todo)) \cup {fn}
      /\ fn \notin Elements(Tail(todo)) /\ Elements(todo) \subseteq Functions
  BY FirstOfTodo DEF MeaningInv, CompilerInv, Pending
<1>2. Functions' = Functions
  BY DEF Functions
<1>3. ASSUME NEW f \in Functions \ Elements(todo), pass' # "failed" PROVE Means(f)'
  <2>1. f # fn /\ Means(f)
    BY <1>1, <1>3 DEF MeaningInv
  <2> QED
    BY <2>1, MeansKept
<1>4. pass' = "structure" => \A f \in Elements(todo) : states'[f] = <<>>
  BY DEF MeaningInv
<1>5. pass' = "body" => \A f \in Elements(Tail(todo)) : states'[f] = <<>>
  <2> SUFFICES ASSUME pass' = "body", NEW f \in Elements(Tail(todo)) PROVE states'[f] = <<>>
    OBVIOUS
  <2>1. f # fn /\ f \in Functions /\ f \in Elements(todo)
    BY <1>1
  <2>2. states[f] = <<>>
    BY <2>1 DEF MeaningInv
  <2> QED
    BY <2>1, <2>2
<1>6. todo' = todo /\ Elements(todo)' = Elements(todo) /\ Elements(Tail(todo))' = Elements(Tail(todo))
  OBVIOUS
<1>7. DOMAIN states' = Functions'
  BY <1>2 DEF MeaningInv
<1> QED
  BY <1>2, <1>3, <1>4, <1>5, <1>6, <1>7 DEF MeaningInv

\* The next function begins, or none remains.
LEMMA FinishMeaningStep ==
  ASSUME MeaningInv, FinishBody, UNCHANGED program, CompilerInv'
  PROVE  MeaningInv'
<1>1. /\ pass = "body" /\ queue = <<>> /\ todo' = Tail(todo) /\ UNCHANGED <<program, code, states, tailCall>>
      /\ pass' \in {"structure", "verify"}
  BY DEF FinishBody
<1>2. /\ ProgramInv /\ Pending /\ todo # <<>> /\ BodyInv /\ WrittenInv
      /\ \A f \in Elements(Tail(todo)) : states[f] = <<>>
  BY <1>1 DEF MeaningInv, CompilerInv
<1>3. /\ fn \in Functions /\ fn \in Elements(todo)
      /\ Elements(todo) = Elements(Tail(todo)) \cup {fn}
      /\ Tail(todo) # <<>> => todo[2] = Head(Tail(todo)) /\ Head(Tail(todo)) \in Functions
  BY <1>2, FirstOfTodo
<1>4. Means(fn)
  BY <1>1, <1>2, FunctionMeans
<1>5. \A f \in Functions \ Elements(Tail(todo)) : Means(f)
  BY <1>1, <1>3, <1>4 DEF MeaningInv
<1>6. \A f \in Functions' \ Elements(todo') : Means(f)'
  <2> SUFFICES ASSUME NEW f \in Functions \ Elements(Tail(todo)) PROVE Means(f)'
    BY <1>1 DEF Functions
  <2> QED
    BY <1>1, <1>5, MeansKept
<1>7. DOMAIN states' = Functions'
  BY <1>1 DEF MeaningInv, Functions
<1>8. ASSUME pass' = "structure" PROVE GraphInv' /\ \A f \in Elements(todo') : states'[f] = <<>>
  <2>1. /\ Tail(todo) # <<>> /\ queue' = FirstVisit(todo[2]) /\ visited' = {}
        /\ preds' = FirstPreds(todo[2]) /\ tails' = 0
    BY <1>8 DEF FinishBody
  <2>2. fn' = todo[2] /\ todo[2] \in Functions
    BY <1>1, <1>3, <2>1 DEF fn
  <2>3. queue' = (FirstVisit(fn))' /\ preds' = (FirstPreds(fn))'
    BY <1>1, <2>1, <2>2 DEF FirstVisit, FirstPreds
  <2>4. ProgramInv'
    BY <1>1, <1>2 DEF ProgramInv
  <2>5. Begins' /\ (tails = 0)'
    BY <1>1, <2>1, <2>2, <2>3, <2>4 DEF Begins, Functions
  <2>6. GraphInv'
    BY <2>5, GraphFirst, PTL
  <2> QED
    BY <1>1, <1>2, <2>6
<1> QED
  BY <1>1, <1>6, <1>7, <1>8 DEF MeaningInv

\* The verifier and the run change no code.
LEMMA UnchangedMeaningStep ==
  ASSUME MeaningInv, CompilerInv', UNCHANGED <<program, todo, queue, visited, preds, tails, returnTo, code, states, tailCall>>,
         pass' = pass \/ (pass = "verify" /\ pass' \in {"run", "failed"})
  PROVE  MeaningInv'
<1>1. Functions' = Functions /\ Elements(todo)' = Elements(todo)
  BY DEF Functions
<1>2. pass' # "failed" => \A f \in Functions' \ Elements(todo') : Means(f)'
  <2> SUFFICES ASSUME pass' # "failed", NEW f \in Functions \ Elements(todo) PROVE Means(f)'
    BY <1>1
  <2>1. Means(f)
    BY DEF MeaningInv
  <2> QED
    BY <2>1, MeansKept
<1>3. pass' = "structure" => GraphInv' /\ \A f \in Elements(todo') : states'[f] = <<>>
  <2> SUFFICES ASSUME pass' = "structure" PROVE GraphInv' /\ \A f \in Elements(todo) : states[f] = <<>>
    OBVIOUS
  <2>1. GraphInv /\ \A f \in Elements(todo) : states[f] = <<>>
    BY DEF MeaningInv
  <2> QED
    BY <2>1, GraphSame
<1>4. pass' = "body" => WrittenInv' /\ \A f \in Elements(Tail(todo)) : states'[f] = <<>>
  <2> SUFFICES ASSUME pass' = "body" PROVE WrittenInv' /\ \A f \in Elements(Tail(todo)) : states[f] = <<>>
    OBVIOUS
  <2>1. /\ WrittenInv /\ BodyInv /\ ProgramInv /\ Pending /\ todo # <<>>
        /\ \A f \in Elements(Tail(todo)) : states[f] = <<>>
    BY DEF MeaningInv, CompilerInv
  <2>2. fn \in Functions /\ fn \in DOMAIN code /\ fn \in DOMAIN states
    BY <2>1, FirstOfTodo DEF MeaningInv
  <2>3. /\ (code[fn])' = code[fn] /\ Elements(queue') \subseteq Elements(queue)
        /\ Written(fn, code[fn], states[fn], returnTo, LiveHere, JoinsHere)
    BY <2>1 DEF fn, WrittenInv
  <2> QED
    BY <2>1, <2>2, <2>3, LandOnlyWritten
<1>5. DOMAIN states' = Functions'
  BY <1>1 DEF MeaningInv
<1>6. pass' = "verify" \/ pass' = "run" \/ pass' = "structure" \/ pass' = "body" \/ pass' = "failed"
  BY DEF MeaningInv, CompilerInv, Pending
<1> QED
  BY <1>1, <1>2, <1>3, <1>4, <1>5 DEF MeaningInv

LEMMA InitMeaningInv == Init => MeaningInv
<1> SUFFICES ASSUME Init PROVE MeaningInv
  OBVIOUS
<1>1. CompilerInv
  BY InitCompilerInv
<1>2. /\ program \in Programs /\ pass = "structure" /\ todo = SetToSeq(Functions)
      /\ queue = FirstVisit(fn) /\ visited = {} /\ preds = FirstPreds(fn) /\ tails = 0
      /\ DOMAIN states = Functions /\ \A f \in Functions : states[f] = <<>>
  BY DEF Init, CompilerInit, Functions
<1>3. ProgramInv /\ IsFiniteSet(Functions)
  BY <1>2, ProgramsAssumption DEF ProgramInv, IsProgram, Functions
<1>4. Elements(todo) = Functions /\ fn \in Functions
  <2>1. Pending /\ todo # <<>>
    BY <1>1, <1>2 DEF CompilerInv
  <2> QED
    BY <1>2, <1>3, <2>1, SetToSeqOf, FirstOfTodo
<1>5. GraphInv
  BY <1>2, <1>3, <1>4, GraphFirst DEF Begins, Functions
<1> QED
  BY <1>1, <1>2, <1>4, <1>5 DEF MeaningInv

LEMMA NextMeaningInv ==
  ASSUME MeaningInv, [Next]_vars
  PROVE  MeaningInv'
<1>1. CompilerInv /\ CompilerInv'
  BY NextCompilerInv DEF MeaningInv
<1>2. CASE UNCHANGED vars
  <2>1. UNCHANGED <<program, todo, queue, visited, preds, tails, returnTo, code, states, tailCall>>
    BY <1>2 DEF vars, compilerVars
  <2>2. pass' = pass
    BY <1>2 DEF vars, compilerVars
  <2> QED
    BY <1>1, <2>1, <2>2, UnchangedMeaningStep
<1>3. CASE Run /\ UNCHANGED compilerVars /\ UNCHANGED <<program, input>>
  <2>1. UNCHANGED <<program, todo, queue, visited, preds, tails, returnTo, code, states, tailCall>>
    BY <1>3 DEF compilerVars
  <2>2. pass' = pass
    BY <1>3 DEF vars, compilerVars
  <2> QED
    BY <1>1, <2>1, <2>2, UnchangedMeaningStep
<1>4. CASE Compile /\ UNCHANGED <<program, input>>
  <2> USE <1>4
  <2>1. ProgramInv /\ Pending
    BY <1>1 DEF CompilerInv
  <2>2. ASSUME pass = "structure"
        PROVE  /\ todo # <<>> /\ StructureInv /\ returnTo = 0 /\ GraphInv /\ states[fn] = <<>>
               /\ fn \in Functions /\ fn \in DOMAIN code /\ fn \in DOMAIN states
    BY <1>1, <2>1, <2>2, FirstOfTodo DEF MeaningInv, CompilerInv
  <2>3. ASSUME pass = "body"
        PROVE  /\ todo # <<>> /\ BodyInv /\ WrittenInv
               /\ fn \in Functions /\ fn \in DOMAIN code /\ fn \in DOMAIN states
    BY <1>1, <2>1, <2>3, FirstOfTodo DEF MeaningInv, CompilerInv
  <2>4. \A f \in Functions : f \in DOMAIN code /\ f \in DOMAIN states /\ f \in DOMAIN tailCall
    BY <2>1 DEF MeaningInv, Pending
  <2>5. CASE SkipVisited
    <3>1. pass \in {"structure", "body"} /\ UNCHANGED <<pass, todo, code, states, tailCall>>
      BY <2>5 DEF SkipVisited
    <3>2. pass = "structure" => GraphInv'
      BY <2>2, <2>5, GraphSkip
    <3>3. pass = "body" => WrittenInv'
      BY <2>1, <2>3, <2>5, SkipWritten
    <3> QED
      BY <1>1, <2>2, <2>3, <3>1, <3>2, <3>3, SameMeaningStep
  <2>6. CASE VisitStructure
    <3>1. /\ pass = "structure" /\ pass' \in {"structure", "failed"}
          /\ UNCHANGED <<todo, code, states, tailCall>>
      BY <2>6 DEF VisitStructure, Visiting
    <3>2. pass' # "failed" => GraphInv'
      BY <2>1, <2>2, <2>6, <3>1, GraphVisitStep
    <3> QED
      BY <1>1, <2>2, <3>1, <3>2, SameMeaningStep
  <2>7. CASE FinishStructure
    <3>1. /\ pass = "structure" /\ pass' = "body" /\ UNCHANGED <<todo, states, tailCall>>
          /\ \A f \in DOMAIN code : f # fn => code'[f] = code[f]
      BY <2>7 DEF FinishStructure
    <3>2. WrittenInv'
      BY <2>1, <2>2, <2>7, <3>1, FinishWritten
    <3> QED
      BY <1>1, <2>2, <2>4, <3>1, <3>2, SameMeaningStep
  <2>8. CASE BuildInvocation
    <3>1. /\ pass = "body" /\ pass' = "body" /\ UNCHANGED <<todo, tailCall>>
          /\ \A f \in DOMAIN code : f # fn => code'[f] = code[f]
          /\ DOMAIN states' = DOMAIN states /\ \A f \in DOMAIN states : f # fn => states'[f] = states[f]
      BY <2>8, Zenon DEF BuildInvocation, Visiting, Processed
    <3>2. WrittenInv'
      BY <2>1, <2>3, <2>8, <3>1, InvocationWritten
    <3> QED
      BY <1>1, <2>3, <2>4, <3>1, <3>2, SameMeaningStep
  <2>9. CASE BuildTailCall
    <3>1. /\ pass = "body" /\ pass' = "body" /\ UNCHANGED todo
          /\ \A f \in DOMAIN code : f # fn => code'[f] = code[f]
          /\ \A f \in DOMAIN tailCall : f # fn => tailCall'[f] = tailCall[f]
          /\ DOMAIN states' = DOMAIN states /\ \A f \in DOMAIN states : f # fn => states'[f] = states[f]
      BY <2>9, Zenon DEF BuildTailCall, Visiting, Processed
    <3>2. WrittenInv'
      BY <2>1, <2>3, <2>9, <3>1, TailCallWritten
    <3> QED
      BY <1>1, <2>3, <2>4, <3>1, <3>2, SameMeaningStep
  <2>10. CASE DeferReturn
    <3>1. /\ pass = "body" /\ pass' = "body" /\ UNCHANGED <<todo, states, tailCall>>
          /\ \A f \in DOMAIN code : f # fn => code'[f] = code[f]
      BY <2>10 DEF DeferReturn, Visiting
    <3>2. WrittenInv'
      BY <2>1, <2>3, <2>10, <3>1, DeferWritten
    <3> QED
      BY <1>1, <2>3, <2>4, <3>1, <3>2, SameMeaningStep
  <2>11. CASE BuildReturn
    <3>1. /\ pass = "body" /\ pass' \in {"body", "failed"} /\ UNCHANGED <<todo, tailCall>>
          /\ \A f \in DOMAIN code : f # fn => code'[f] = code[f]
          /\ DOMAIN states' = DOMAIN states /\ \A f \in DOMAIN states : f # fn => states'[f] = states[f]
      BY <2>11, Zenon DEF BuildReturn, Visiting, Processed
    <3>2. WrittenInv'
      BY <2>1, <2>3, <2>11, <3>1, ReturnWritten
    <3> QED
      BY <1>1, <2>3, <2>4, <3>1, <3>2, SameMeaningStep
  <2>12. CASE FinishBody
    BY <1>1, <2>12, FinishMeaningStep
  <2>13. CASE Verify
    BY <1>1, <2>13, UnchangedMeaningStep DEF Verify
  <2> QED
    BY <2>5, <2>6, <2>7, <2>8, <2>9, <2>10, <2>11, <2>12, <2>13 DEF Compile
<1> QED
  BY <1>2, <1>3, <1>4 DEF Next
-----------------------------------------------------------------------------
(* Stacks: what is on top.                                                 *)

LEMMA Pushed ==
  ASSUME NEW L, IsSequence(L), NEW x
  PROVE  /\ IsSequence(L \o <<x>>) /\ Len(L \o <<x>>) = Len(L) + 1 /\ L \o <<x>> # <<>>
         /\ Front(L \o <<x>>) = L /\ Last(L \o <<x>>) = x
         /\ (L \o <<x>>)[Len(L) + 1] = x /\ \A i \in 1..Len(L) : (L \o <<x>>)[i] = L[i]
<1> DEFINE s == L \o <<x>>
<1>1. /\ IsSequence(s) /\ Len(s) = Len(L) + 1 /\ Len(L) \in Nat
      /\ s[Len(L) + 1] = x /\ \A i \in 1..Len(L) : s[i] = L[i]
  BY OneElement, Concatenation, SequenceDomain
<1> HIDE DEF s
<1>2. s # <<>>
  BY <1>1, Empty
<1>3. /\ IsSequence(Front(s)) /\ Len(Front(s)) = Len(s) - 1 /\ Last(s) = s[Len(s)]
      /\ \A i \in 1..(Len(s) - 1) : Front(s)[i] = s[i]
  BY <1>1, <1>2, FrontLast
<1>4. Len(Front(s)) = Len(L) /\ \A i \in 1..Len(Front(s)) : Front(s)[i] = L[i]
  BY <1>1, <1>3
<1>5. Front(s) = L
  BY <1>3, <1>4, SameSequence
<1> QED
  BY <1>1, <1>2, <1>3, <1>5 DEF s

LEMMA Extends ==
  ASSUME NEW h, IsSequence(h), NEW x, NEW g, IsSequence(g), Len(g) = Len(h) + 1,
         \A i \in 1..Len(h) : g[i] = h[i], g[Len(h) + 1] = x
  PROVE  g = h \o <<x>>
<1> DEFINE t == h \o <<x>>
<1>1. /\ IsSequence(t) /\ Len(t) = Len(h) + 1 /\ t[Len(h) + 1] = x /\ \A i \in 1..Len(h) : t[i] = h[i]
      /\ Len(h) \in Nat
  BY Pushed, SequenceDomain
<1> HIDE DEF t
<1>2. \A i \in 1..(Len(h) + 1) : i \in 1..Len(h) \/ i = Len(h) + 1
  BY <1>1
<1>3. \A i \in 1..Len(g) : g[i] = t[i]
  BY <1>1, <1>2
<1>4. g = t
  BY <1>1, <1>3, SameSequence
<1> QED
  BY <1>4 DEF t

LEMMA Popped ==
  ASSUME NEW s, IsSequence(s), s # <<>>
  PROVE  IsSequence(Front(s)) /\ s = Front(s) \o <<Last(s)>> /\ Len(Front(s)) + 1 = Len(s)
<1>1. /\ IsSequence(Front(s)) /\ Len(Front(s)) = Len(s) - 1 /\ Last(s) = s[Len(s)] /\ Len(s) \in Nat \ {0}
      /\ \A i \in 1..(Len(s) - 1) : Front(s)[i] = s[i]
  BY FrontLast
<1> DEFINE L == Front(s)
           t == L \o <<Last(s)>>
<1>2. /\ IsSequence(t) /\ Len(t) = Len(L) + 1
      /\ t[Len(L) + 1] = Last(s) /\ \A i \in 1..Len(L) : t[i] = L[i]
  BY <1>1, Pushed
<1> HIDE DEF t
<1>3. Len(t) = Len(s) /\ \A i \in 1..Len(s) : s[i] = t[i]
  BY <1>1, <1>2
<1>4. s = t
  BY <1>2, <1>3, SameSequence
<1> QED
  BY <1>1, <1>4 DEF t

\* A sequence without its last two elements.
LEMMA Shortened ==
  ASSUME NEW s, IsSequence(s), Len(s) >= 2
  PROVE  /\ IsSequence(SubSeq(s, 1, Len(s) - 2)) /\ Len(SubSeq(s, 1, Len(s) - 2)) = Len(s) - 2
         /\ \A i \in 1..(Len(s) - 2) : SubSeq(s, 1, Len(s) - 2)[i] = s[i]
<1>1. Len(s) \in Nat /\ Len(s) - 2 \in 0..Len(s)
  BY SequenceDomain
<1>2. PICK T : T = Elements(s)
  OBVIOUS
<1>3. \A i \in 1..Len(s) : s[i] \in T
  BY <1>2 DEF Elements
<1>4. s \in Seq(T)
  BY <1>3, SequenceIn
<1>5. \A m \in 0..Len(s) : /\ SubSeq(s, 1, m) \in Seq(T) /\ Len(SubSeq(s, 1, m)) = m
                          /\ \A i \in 1..m : SubSeq(s, 1, m)[i] = s[i]
  BY <1>4
<1>6. SubSeq(s, 1, Len(s) - 2) \in Seq(T)
  BY <1>1, <1>5
<1> QED
  BY <1>1, <1>5, <1>6, InSequence

LEMMA TwoPushed ==
  ASSUME NEW L, IsSequence(L), NEW x, NEW y, NEW t, t = L \o <<x>>, NEW s, s = t \o <<y>>
  PROVE  /\ IsSequence(s) /\ Len(s) = Len(L) + 2 /\ s # <<>> /\ Last(s) = y
         /\ s[Len(s) - 1] = x /\ SubSeq(s, 1, Len(s) - 2) = L
<1>1. /\ IsSequence(t) /\ Len(t) = Len(L) + 1 /\ t[Len(L) + 1] = x /\ \A i \in 1..Len(L) : t[i] = L[i]
      /\ Len(L) \in Nat
  BY Pushed, SequenceDomain
<1>3. IsSequence(s) /\ Len(s) = Len(t) + 1 /\ s # <<>> /\ Last(s) = y /\ \A i \in 1..Len(t) : s[i] = t[i]
  <2>1. IsSequence(t)
    BY <1>1
  <2>2. /\ IsSequence(t \o <<y>>) /\ Len(t \o <<y>>) = Len(t) + 1 /\ t \o <<y>> # <<>>
        /\ Last(t \o <<y>>) = y /\ \A i \in 1..Len(t) : (t \o <<y>>)[i] = t[i]
    BY <2>1, Pushed
  <2>3. IsSequence(s) /\ Len(s) = Len(t) + 1
    BY <2>2, Zenon
  <2>4. s # <<>> /\ Last(s) = y
    BY <2>2, Zenon
  <2>5. \A i \in 1..Len(t) : s[i] = t[i]
    BY <2>2, Zenon
  <2> QED
    BY <2>3, <2>4, <2>5
<1>4. Len(s) = Len(L) + 2 /\ s[Len(s) - 1] = x /\ Len(s) >= 2
  BY <1>1, <1>3
<1>5. PICK u : u = SubSeq(s, 1, Len(s) - 2)
  OBVIOUS
<1>6. IsSequence(u) /\ Len(u) = Len(L) /\ \A i \in 1..Len(L) : u[i] = s[i]
  <2>1. /\ IsSequence(SubSeq(s, 1, Len(s) - 2)) /\ Len(SubSeq(s, 1, Len(s) - 2)) = Len(s) - 2
        /\ \A i \in 1..(Len(s) - 2) : SubSeq(s, 1, Len(s) - 2)[i] = s[i]
    <3>1. IsSequence(s) /\ Len(s) >= 2
      BY <1>3, <1>4, Zenon
    <3> QED
      BY <3>1, Shortened
  <2>2. Len(s) - 2 = Len(L)
    BY <1>1, <1>4
  <2> QED
    BY <1>5, <2>1, <2>2
<1>7. \A i \in 1..Len(L) : u[i] = L[i]
  BY <1>1, <1>3, <1>6
<1>8. u = L
  BY <1>6, <1>7, SameSequence
<1> QED
  BY <1>3, <1>4, <1>5, <1>8

LEMMA TwoPopped ==
  ASSUME NEW s, IsSequence(s), Len(s) >= 2
  PROVE  /\ IsSequence(SubSeq(s, 1, Len(s) - 2))
         /\ s = (SubSeq(s, 1, Len(s) - 2) \o <<s[Len(s) - 1]>>) \o <<Last(s)>>
         /\ Front(s) = SubSeq(s, 1, Len(s) - 2) \o <<s[Len(s) - 1]>>
<1>1. s # <<>> /\ Len(s) \in Nat
  BY Empty, SequenceDomain
<1>2. /\ IsSequence(Front(s)) /\ Len(Front(s)) = Len(s) - 1
      /\ \A i \in 1..(Len(s) - 1) : Front(s)[i] = s[i]
      /\ s = Front(s) \o <<Last(s)>>
  BY <1>1, FrontLast, Popped
<1>3. PICK u, x : u = SubSeq(s, 1, Len(s) - 2) /\ x = s[Len(s) - 1]
  OBVIOUS
<1>4. IsSequence(u) /\ Len(u) = Len(s) - 2 /\ \A i \in 1..(Len(s) - 2) : u[i] = s[i]
  BY <1>3, Shortened
<1> DEFINE t == u \o <<x>>
<1>5. IsSequence(t) /\ Len(t) = Len(u) + 1 /\ t[Len(u) + 1] = x /\ \A i \in 1..Len(u) : t[i] = u[i]
  BY <1>4, Pushed
<1> HIDE DEF t
<1>6. Len(t) = Len(Front(s)) /\ \A i \in 1..Len(t) : t[i] = Front(s)[i]
  BY <1>1, <1>2, <1>3, <1>4, <1>5
<1>7. t = Front(s)
  BY <1>2, <1>5, <1>6, SameSequence
<1> QED
  BY <1>2, <1>3, <1>4, <1>7 DEF t

LEMMA Associates ==
  ASSUME NEW a, IsSequence(a), NEW b, IsSequence(b), NEW c, IsSequence(c)
  PROVE  (a \o b) \o c = a \o (b \o c)
<1>1. PICK T : T = Elements(a) \cup Elements(b) \cup Elements(c)
  OBVIOUS
<1>2. /\ \A i \in 1..Len(a) : a[i] \in T
      /\ \A i \in 1..Len(b) : b[i] \in T
      /\ \A i \in 1..Len(c) : c[i] \in T
  BY <1>1 DEF Elements
<1>3. a \in Seq(T) /\ b \in Seq(T) /\ c \in Seq(T)
  BY <1>2, SequenceIn
<1> QED
  BY <1>3

LEMMA EmptyConcat ==
  ASSUME NEW a, IsSequence(a)
  PROVE  <<>> \o a = a
<1>1. PICK T : T = Elements(a)
  OBVIOUS
<1>2. \A i \in 1..Len(a) : a[i] \in T
  BY <1>1 DEF Elements
<1>3. a \in Seq(T)
  BY <1>2, SequenceIn
<1> QED
  BY <1>3

\* What a sequence of sequences is flattened to.
LEMMA FlattenSequence ==
  ASSUME NEW s, IsSequence(s), \A i \in 1..Len(s) : IsSequence(s[i])
  PROVE  IsSequence(FlattenSeq(s))
<1> DEFINE A == {n \in Nat : \A q : IsSequence(q) /\ Len(q) = n /\ (\A i \in 1..Len(q) : IsSequence(q[i]))
                                      => IsSequence(FlattenSeq(q))}
<1>1. 0 \in A
  BY EmptyIs, FlattenEmpty, Empty
<1>2. ASSUME NEW n \in Nat, n \in A PROVE n + 1 \in A
  <2> SUFFICES ASSUME NEW q, IsSequence(q), Len(q) = n + 1, \A i \in 1..Len(q) : IsSequence(q[i])
               PROVE  IsSequence(FlattenSeq(q))
    OBVIOUS
  <2>1. q # <<>>
    BY Empty
  <2>2. PICK r, x : r = Front(q) /\ x = Last(q)
    OBVIOUS
  <2>3. /\ IsSequence(r) /\ q = r \o <<x>> /\ Len(r) = n
        /\ \A i \in 1..(Len(q) - 1) : r[i] = q[i]
        /\ x = q[n + 1]
    <3>1. /\ IsSequence(Front(q)) /\ Len(Front(q)) = Len(q) - 1 /\ Last(q) = q[Len(q)]
          /\ \A i \in 1..(Len(q) - 1) : Front(q)[i] = q[i]
      BY <2>1, FrontLast
    <3>2. q = Front(q) \o <<Last(q)>>
      BY <2>1, Popped
    <3> QED
      BY <2>2, <3>1, <3>2
  <2>4. IsSequence(x) /\ \A i \in 1..Len(r) : IsSequence(r[i])
    BY <2>3
  <2>5. IsSequence(FlattenSeq(r))
    BY <1>2, <2>3, <2>4
  <2>6. FlattenSeq(q) = FlattenSeq(r) \o x
    BY <2>3, <2>4, FlattenAppend
  <2> QED
    BY <2>4, <2>5, <2>6, Concatenation
<1> HIDE DEF A
<1>3. Nat \subseteq A
  BY <1>1, <1>2, NumberInduction
<1>4. Len(s) \in A
  BY <1>3, SequenceDomain
<1> QED
  BY <1>4 DEF A

-----------------------------------------------------------------------------
(* The Sierra frames that native frames stand for, from the first to the   *)
(* last.                                                                   *)

\* The levels of a loop, the frames seen on a stack, and those of a stack that waits for another.
Levels(f, n) == [i \in 1..n |-> [at |-> tailCall[f], state |-> <<>>]]
Now(fr) == Position(fr, FALSE)
Held(fr) == Position(fr, TRUE)
NowOf(fr) == SierraFramesOf(fr, FALSE)
HeldOf(fr) == SierraFramesOf(fr, TRUE)
Seen(st) == FlattenSeq([n \in DOMAIN st |-> SierraFramesOf(st[n], n < Len(st))])
Below(st) == FlattenSeq([n \in DOMAIN st |-> HeldOf(st[n])])

LEMMA LevelsAre ==
  ASSUME NEW f, NEW n \in Nat
  PROVE  /\ IsSequence(Levels(f, n)) /\ Len(Levels(f, n)) = n
         /\ Levels(f, n + 1) = Levels(f, n) \o <<[at |-> tailCall[f], state |-> <<>>]>>
         /\ Levels(f, 0) = <<>>
<1>1. \A m \in Nat : IsSequence(Levels(f, m)) /\ Len(Levels(f, m)) = m
  BY FunctionIsSequence DEF Levels
<1>2. PICK x : x = [at |-> tailCall[f], state |-> <<>>]
  OBVIOUS
<1>3. \A m \in Nat : \A i \in 1..m : Levels(f, m)[i] = x
  BY <1>2 DEF Levels
<1> DEFINE s == Levels(f, n)
           t == s \o <<x>>
           u == Levels(f, n + 1)
<1>4. /\ IsSequence(s) /\ Len(s) = n /\ (\A i \in 1..n : s[i] = x)
      /\ IsSequence(u) /\ Len(u) = n + 1 /\ (\A i \in 1..(n + 1) : u[i] = x)
      /\ IsSequence(Levels(f, 0)) /\ Len(Levels(f, 0)) = 0
  BY <1>1, <1>3
<1> HIDE DEF s, u
<1>5. IsSequence(t) /\ Len(t) = n + 1 /\ t[n + 1] = x /\ \A i \in 1..n : t[i] = s[i]
  BY <1>4, Pushed
<1> HIDE DEF t
<1>6. \A i \in 1..(n + 1) : u[i] = t[i]
  BY <1>4, <1>5
<1>7. u = t
  BY <1>4, <1>5, <1>6, SameSequence
<1>8. Levels(f, 0) = <<>>
  BY <1>4, EmptyIs
<1> QED
  BY <1>2, <1>4, <1>7, <1>8 DEF s, t, u

LEMMA FramesAre ==
  ASSUME NEW fr, fr.depth \in Nat
  PROVE  /\ NowOf(fr) = Levels(fr.fn, fr.depth) \o <<Now(fr)>> /\ IsSequence(NowOf(fr))
         /\ HeldOf(fr) = Levels(fr.fn, fr.depth) \o <<Held(fr)>> /\ IsSequence(HeldOf(fr))
<1>1. /\ NowOf(fr) = Levels(fr.fn, fr.depth) \o <<Now(fr)>>
      /\ HeldOf(fr) = Levels(fr.fn, fr.depth) \o <<Held(fr)>>
  BY DEF NowOf, HeldOf, SierraFramesOf, Levels, Now, Held
<1>2. IsSequence(Levels(fr.fn, fr.depth))
  BY LevelsAre
<1>3. /\ IsSequence(Levels(fr.fn, fr.depth) \o <<Now(fr)>>)
      /\ IsSequence(Levels(fr.fn, fr.depth) \o <<Held(fr)>>)
  BY <1>2, Pushed
<1> QED
  BY <1>1, <1>3, Zenon

LEMMA SeenPushed ==
  ASSUME NEW L, IsSequence(L), \A n \in 1..Len(L) : L[n].depth \in Nat, NEW fr, fr.depth \in Nat
  PROVE  /\ IsSequence(Below(L))
         /\ Seen(L \o <<fr>>) = (Below(L) \o Levels(fr.fn, fr.depth)) \o <<Now(fr)>>
         /\ Below(L \o <<fr>>) = (Below(L) \o Levels(fr.fn, fr.depth)) \o <<Held(fr)>>
         /\ IsSequence(Below(L) \o Levels(fr.fn, fr.depth))
<1> DEFINE st == L \o <<fr>>
           h == [n \in DOMAIN L |-> HeldOf(L[n])]
           g == [n \in DOMAIN st |-> SierraFramesOf(st[n], n < Len(st))]
           b == [n \in DOMAIN st |-> HeldOf(st[n])]
<1>1. /\ IsSequence(st) /\ Len(st) = Len(L) + 1 /\ Len(L) \in Nat
      /\ st[Len(L) + 1] = fr /\ \A i \in 1..Len(L) : st[i] = L[i]
      /\ DOMAIN L = 1..Len(L) /\ DOMAIN st = 1..(Len(L) + 1)
  BY Pushed, SequenceDomain
<1> HIDE DEF st
<1>2. IsSequence(h) /\ Len(h) = Len(L) /\ \A i \in 1..Len(h) : IsSequence(h[i])
  <2>1. IsSequence(h) /\ Len(h) = Len(L)
    BY <1>1, FunctionIsSequence
  <2>2. \A i \in 1..Len(L) : h[i] = HeldOf(L[i])
    BY <1>1
  <2>3. \A i \in 1..Len(L) : IsSequence(HeldOf(L[i]))
    BY FramesAre
  <2> QED
    BY <2>1, <2>2, <2>3
<1>3. IsSequence(Below(L)) /\ Below(L) = FlattenSeq(h)
  BY <1>2, FlattenSequence DEF Below
<1>4. g = h \o <<NowOf(fr)>>
  <2>1. IsSequence(g) /\ Len(g) = Len(L) + 1
    BY <1>1, FunctionIsSequence
  <2>2. \A i \in 1..Len(L) : g[i] = h[i]
    <3> SUFFICES ASSUME NEW i \in 1..Len(L) PROVE g[i] = h[i]
      OBVIOUS
    <3>1. i < Len(st) /\ i \in DOMAIN st /\ i \in DOMAIN L /\ st[i] = L[i]
      BY <1>1
    <3>2. (i < Len(st)) = TRUE
      BY <3>1
    <3>3. g[i] = SierraFramesOf(st[i], i < Len(st)) /\ h[i] = HeldOf(L[i])
      BY <3>1
    <3> QED
      BY <3>1, <3>2, <3>3 DEF HeldOf
  <2>3. g[Len(L) + 1] = NowOf(fr)
    <3>1. (Len(L) + 1 < Len(st)) = FALSE /\ Len(L) + 1 \in DOMAIN st
      BY <1>1
    <3>2. g[Len(L) + 1] = SierraFramesOf(st[Len(L) + 1], Len(L) + 1 < Len(st))
      BY <3>1
    <3> QED
      BY <1>1, <3>1, <3>2 DEF NowOf
  <2>8. IsSequence(h) /\ Len(h) = Len(L)
    BY <1>2
  <2> HIDE DEF g, h
  <2>9. Len(g) = Len(h) + 1 /\ (\A i \in 1..Len(h) : g[i] = h[i]) /\ g[Len(h) + 1] = NowOf(fr)
    BY <2>1, <2>2, <2>3, <2>8
  <2> QED
    BY <2>1, <2>8, <2>9, Extends
<1>5. b = h \o <<HeldOf(fr)>>
  <2>1. IsSequence(b) /\ Len(b) = Len(L) + 1
    BY <1>1, FunctionIsSequence
  <2>2. \A i \in 1..Len(L) : b[i] = h[i]
    <3> SUFFICES ASSUME NEW i \in 1..Len(L) PROVE b[i] = h[i]
      OBVIOUS
    <3>1. i \in DOMAIN st /\ i \in DOMAIN L /\ st[i] = L[i]
      BY <1>1
    <3>2. b[i] = HeldOf(st[i]) /\ h[i] = HeldOf(L[i])
      BY <3>1
    <3> QED
      BY <3>1, <3>2
  <2>3. b[Len(L) + 1] = HeldOf(fr)
    <3>1. Len(L) + 1 \in DOMAIN st
      BY <1>1
    <3>2. b[Len(L) + 1] = HeldOf(st[Len(L) + 1])
      BY <3>1
    <3> QED
      BY <1>1, <3>2
  <2>8. IsSequence(h) /\ Len(h) = Len(L)
    BY <1>2
  <2> HIDE DEF b, h
  <2>9. Len(b) = Len(h) + 1 /\ (\A i \in 1..Len(h) : b[i] = h[i]) /\ b[Len(h) + 1] = HeldOf(fr)
    BY <2>1, <2>2, <2>3, <2>8
  <2> QED
    BY <2>1, <2>8, <2>9, Extends
<1>6. Seen(st) = FlattenSeq(g) /\ Below(st) = FlattenSeq(b)
  BY DEF Seen, Below, g, b
<1> HIDE DEF h, g, b
<1>7. /\ NowOf(fr) = Levels(fr.fn, fr.depth) \o <<Now(fr)>>
      /\ HeldOf(fr) = Levels(fr.fn, fr.depth) \o <<Held(fr)>>
  BY FramesAre
<1>8. IsSequence(HeldOf(fr)) /\ IsSequence(NowOf(fr))
  BY FramesAre
<1>9. FlattenSeq(g) = Below(L) \o NowOf(fr) /\ FlattenSeq(b) = Below(L) \o HeldOf(fr)
  BY <1>2, <1>3, <1>4, <1>5, <1>8, FlattenAppend
<1>10. IsSequence(Levels(fr.fn, fr.depth))
  BY LevelsAre
<1>11. ASSUME NEW x
       PROVE  Below(L) \o (Levels(fr.fn, fr.depth) \o <<x>>) = (Below(L) \o Levels(fr.fn, fr.depth)) \o <<x>>
  <2>1. PICK a, m : a = Below(L) /\ m = Levels(fr.fn, fr.depth)
    OBVIOUS
  <2>2. IsSequence(a) /\ IsSequence(m) /\ IsSequence(<<x>>)
    BY <1>3, <1>10, <2>1, OneElement
  <2> QED
    BY <2>1, <2>2, Associates
<1> QED
  BY <1>3, <1>6, <1>7, <1>9, <1>10, <1>11, Concatenation DEF st
-----------------------------------------------------------------------------
(* Sorted identifiers have an index each.                                  *)

LEMMA SortedIs ==
  ASSUME NEW S \in SUBSET Nat, IsFiniteSet(S), NEW s, s = Sorted(S)
  PROVE  /\ IsSequence(s) /\ Len(s) = Cardinality(S) /\ DOMAIN s = 1..Len(s) /\ Len(s) \in Nat
         /\ \A i \in DOMAIN s : s[i] \in S
         /\ \A i, j \in DOMAIN s : i < j => s[i] < s[j]
         /\ \A v \in S : Index(s, v) \in DOMAIN s /\ s[Index(s, v)] = v
<1> DEFINE n == Cardinality(S)
<1>1. s \in [1..n -> S] /\ Increasing(s) /\ n \in Nat /\ Len(s) = n
  BY SortedLen
<1> HIDE DEF n
<1>2. s = [i \in 1..n |-> s[i]]
  BY <1>1
<1>3. IsSequence(s) /\ DOMAIN s = 1..n
  BY <1>1, <1>2, FunctionIsSequence
<1>4. \A i, j \in 1..n : i # j => s[i] # s[j]
  <2> SUFFICES ASSUME NEW i \in 1..n, NEW j \in 1..n, i # j PROVE s[i] # s[j]
    OBVIOUS
  <2>1. s[i] \in Nat /\ s[j] \in Nat
    BY <1>1
  <2>2. i < j \/ j < i
    BY <1>1
  <2>3. s[i] < s[j] \/ s[j] < s[i]
    BY <1>1, <1>3, <2>2 DEF Increasing
  <2> QED
    BY <2>1, <2>3
<1>5. s \in Injection(1..n, S) /\ Cardinality(1..n) = n /\ IsFiniteSet(1..n)
  <2>1. DOMAIN s = 1..n /\ IsInjective(s)
    BY <1>3, <1>4 DEF IsInjective
  <2>3. s \in Injection(1..n, S)
    BY <1>1, <2>1 DEF Injection
  <2>2. Cardinality(1..n) = n /\ IsFiniteSet(1..n)
    BY <1>1, FS_Interval
  <2> QED
    BY <2>2, <2>3
<1>6. s \in Surjection(1..n, S)
  BY <1>5, FS_Injection DEF n
<1>7. ASSUME NEW v \in S PROVE Index(s, v) \in DOMAIN s /\ s[Index(s, v)] = v
  <2>1. \E i \in DOMAIN s : s[i] = v
    BY <1>3, <1>6 DEF Surjection
  <2> QED
    BY <2>1 DEF Index
<1> QED
  BY <1>1, <1>3, <1>7 DEF n, Increasing

LEMMA SortedAll ==
  ASSUME NEW n \in Nat, NEW S \in SUBSET (1..n), Len(Sorted(S)) = n
  PROVE  \A i \in 1..n : Sorted(S)[i] = i
<1> DEFINE s == Sorted(S)
<1>1. IsFiniteSet(1..n) /\ Cardinality(1..n) = n
  BY FS_Interval
<1>2. IsFiniteSet(S) /\ S \in SUBSET Nat
  <2>1. IsFiniteSet(S)
    BY <1>1, FS_Subset
  <2> QED
    BY <2>1
<1>3. /\ Len(s) = Cardinality(S) /\ DOMAIN s = 1..n
      /\ \A i \in 1..n : s[i] \in S
      /\ \A i, j \in 1..n : i < j => s[i] < s[j]
      /\ \A v \in S : Index(s, v) \in 1..n /\ s[Index(s, v)] = v
  BY <1>2, SortedIs
<1>4. S = 1..n
  BY <1>1, <1>3, FS_Subset
<1> HIDE DEF s
<1>5. \A v \in 1..n : \E k \in 1..n : s[k] = v
  BY <1>3, <1>4
<1> DEFINE T == {i \in 1..n : s[i] # i}
<1>6. ASSUME T # {} PROVE FALSE
  <2>1. T \in SUBSET Nat /\ T # {}
    BY <1>6
  <2>2. PICK i \in T : \A j \in T : i <= j
    BY <2>1, LeastExists
  <2>3. \A j \in 1..n : j < i => s[j] = j
    BY <2>2
  <2>4. PICK k \in 1..n : s[k] = i
    BY <1>5, <2>2
  <2>5. k > i
    BY <2>2, <2>3, <2>4
  <2>6. s[i] < i /\ s[i] \in 1..n
    BY <1>3, <1>4, <2>2, <2>4, <2>5
  <2>7. s[s[i]] = s[i]
    BY <2>3, <2>6
  <2>8. s[s[i]] < s[i]
    BY <1>3, <2>2, <2>6
  <2> QED
    BY <2>6, <2>7, <2>8
<1> QED
  BY <1>6 DEF s

\* A variable of a list has an index there.
LEMMA IndexIn ==
  ASSUME NEW s, IsSequence(s)
  PROVE  \A v \in Range(s) : Index(s, v) \in DOMAIN s /\ s[Index(s, v)] = v
BY DEF Range, Index

-----------------------------------------------------------------------------
(* Registers that are written, and those that are not.                     *)

Names(registers, b) == \A i \in DOMAIN registers : registers[i] = <<b, i>>

LEMMA WriteReads ==
  ASSUME NEW fr, IsFrame(fr), NEW registers, NEW b, Names(registers, b), NEW values,
         NEW fr2, fr2 = Write(fr, registers, values)
  PROVE  /\ IsFrame(fr2) /\ fr2.fn = fr.fn /\ fr2.block = fr.block /\ fr2.depth = fr.depth /\ fr2.slots = fr.slots
         /\ \A i \in DOMAIN registers : Read(fr2, <<b, i>>) = values[i]
         /\ \A r : r[1] # b => Read(fr2, r) = Read(fr, r)
<1> DEFINE regs == [r \in DOMAIN fr.regs \cup Range(registers) |->
                      IF r \in Range(registers) THEN values[CHOOSE i \in DOMAIN registers : registers[i] = r]
                      ELSE fr.regs[r]]
<1>1. fr2 = [fr EXCEPT !.regs = regs]
  BY DEF Write
<1> DEFINE D == DOMAIN registers
<1>2. DOMAIN registers = D /\ \A i \in D : registers[i] = <<b, i>>
  BY DEF Names
<1>3. \A r : r \in Range(registers) <=> \E i \in D : r = <<b, i>>
  BY <1>2 DEF Range
<1>4. \A i \in D : (CHOOSE j \in DOMAIN registers : registers[j] = <<b, i>>) = i
  <2> SUFFICES ASSUME NEW i \in D PROVE (CHOOSE j \in DOMAIN registers : registers[j] = <<b, i>>) = i
    OBVIOUS
  <2>1. \A j \in DOMAIN registers : registers[j] = <<b, i>> <=> j = i
    BY <1>2
  <2> QED
    BY <2>1
<1>5. /\ DOMAIN regs = DOMAIN fr.regs \cup Range(registers)
      /\ \A i \in D : <<b, i>> \in DOMAIN regs /\ regs[<<b, i>>] = values[i]
      /\ \A r \in DOMAIN fr.regs \ Range(registers) : regs[r] = fr.regs[r]
  BY <1>3, <1>4
<1> HIDE DEF regs
<1>6. /\ IsFrame(fr2) /\ fr2.regs = regs
      /\ fr2.fn = fr.fn /\ fr2.block = fr.block /\ fr2.depth = fr.depth /\ fr2.slots = fr.slots
  BY <1>1 DEF IsFrame
<1>7. \A i \in D : Read(fr2, <<b, i>>) = values[i]
  BY <1>5, <1>6 DEF Read
<1>8. ASSUME NEW r, r[1] # b PROVE Read(fr2, r) = Read(fr, r)
  <2>1. r \notin Range(registers)
    BY <1>3, <1>8
  <2> QED
    BY <1>5, <1>6, <2>1 DEF Read
<1> QED
  BY <1>6, <1>7, <1>8

LEMMA JumpReads ==
  ASSUME NEW fr, IsFrame(fr), NEW block, NEW values, IsSequence(values), NEW fr2, fr2 = JumpWith(fr, block, values)
  PROVE  /\ IsFrame(fr2) /\ fr2.fn = fr.fn /\ fr2.block = block /\ fr2.depth = fr.depth /\ fr2.slots = fr.slots
         /\ \A i \in DOMAIN values : Read(fr2, argument(block, i)) = values[i]
         /\ \A r : r[1] # block => Read(fr2, r) = Read(fr, r)
<1> DEFINE registers == Arguments(block, Len(values))
<1>1. PICK mid : mid = Write(fr, registers, values)
  OBVIOUS
<1>2. DOMAIN registers = DOMAIN values /\ Names(registers, block) /\ \A i : argument(block, i) = <<block, i>>
  BY SequenceDomain DEF Arguments, argument, Names
<1>4. fr2 = [mid EXCEPT !.block = block]
  BY <1>1 DEF JumpWith
<1> HIDE DEF registers
<1>3. /\ IsFrame(mid) /\ mid.fn = fr.fn /\ mid.depth = fr.depth /\ mid.slots = fr.slots
      /\ \A i \in DOMAIN registers : Read(mid, <<block, i>>) = values[i]
      /\ \A r : r[1] # block => Read(mid, r) = Read(fr, r)
  BY <1>1, <1>2, WriteReads
<1>5. /\ IsFrame(fr2) /\ fr2.block = block /\ fr2.regs = mid.regs
      /\ fr2.fn = mid.fn /\ fr2.depth = mid.depth /\ fr2.slots = mid.slots
  BY <1>3, <1>4 DEF IsFrame
<1>6. \A r : Read(fr2, r) = Read(mid, r)
  BY <1>5 DEF Read
<1> QED
  BY <1>2, <1>3, <1>5, <1>6

\* A settled register is not written by a jump to a statement, nor by the results of one before.
LEMMA SettledFrom ==
  ASSUME NEW r, NEW p \in Nat, Settled(r, p)
  PROVE  /\ \A q : r[1] # libfunc_block(q)
         /\ \A q \in Nat : q >= p => \A n : r[1] # Results(q, n)
<1>1. \A q : libfunc_block(q)[1] = "libfunc"
  BY DEF libfunc_block
<1>2. \A q, n : Results(q, n)[1] = "result" /\ Results(q, n)[2] = q
  BY DEF Results
<1>3. r[1][1] # "libfunc" /\ (r[1][1] = "result" => r[1][2] \in Nat /\ r[1][2] < p)
  BY DEF Settled
<1>4. \A q : r[1] # libfunc_block(q)
  BY <1>1, <1>3
<1>5. ASSUME NEW q \in Nat, q >= p, NEW n PROVE r[1] # Results(q, n)
  <2> SUFFICES ASSUME r[1] = Results(q, n) PROVE FALSE
    OBVIOUS
  <2>1. r[1][1] = "result" /\ r[1][2] = q
    BY <1>2
  <2>2. q < p
    BY <1>3, <2>1
  <2> QED
    BY <1>5, <2>2
<1> QED
  BY <1>4, <1>5
-----------------------------------------------------------------------------
(* Where a frame arrives.                                                  *)

\* A Sierra frame.
Place(at, state) == [at |-> at, state |-> state]

\* The variables where a tail call continues, at the entry, and after a branch.
ContinuationState(fr, p) ==
  [v \in Range(ResultsOf(p, 1)) |-> Read(fr, argument(cont_block(p), Index(ResultsOf(p, 1), v)))]
EntryState(fr) ==
  [v \in Range(program.functions[fr.fn].params) |->
     Read(fr, argument(fr.block, Index(program.functions[fr.fn].params, v)))]
Given(f, fr, p, n) ==
  [v \in LiveAfter(LiveOf(f)[p], p, n) |-> Read(fr, ValueAfter(states[f], tailCall[f], p, n, v))]

LEMMA Positions ==
  ASSUME NEW fr, NEW p
  PROVE  /\ fr.block = libfunc_block(p) =>
              /\ Now(fr) = [at |-> p, state |-> Valuation(fr, states[fr.fn][p])]
              /\ Held(fr) =
                   [at |-> p, state |-> [v \in DOMAIN Valuation(fr, states[fr.fn][p]) \ Taken(p) |->
                                           Valuation(fr, states[fr.fn][p])[v]]]
         /\ fr.block = landing_block(p) =>
              Now(fr) = [at |-> p, state |-> Valuation(fr, states[fr.fn][p])]
         /\ fr.block = cont_block(p) =>
              Now(fr) = [at |-> Target(p, 1), state |-> ContinuationState(fr, p)]
         /\ fr.block \in {pre_entry_block, entry_block} =>
              Now(fr) = [at |-> program.functions[fr.fn].entry, state |-> EntryState(fr)]
<1>1. ASSUME fr.block = libfunc_block(p)
      PROVE  /\ Now(fr) = [at |-> p, state |-> Valuation(fr, states[fr.fn][p])]
             /\ Held(fr) =
                  [at |-> p, state |-> [v \in DOMAIN Valuation(fr, states[fr.fn][p]) \ Taken(p) |->
                                          Valuation(fr, states[fr.fn][p])[v]]]
  <2>1. fr.block[1] = "libfunc" /\ fr.block[2] = p
    BY <1>1 DEF libfunc_block
  <2> QED
    BY <2>1 DEF Now, Held, Position, Taken
<1>2. ASSUME fr.block = landing_block(p)
      PROVE  Now(fr) = [at |-> p, state |-> Valuation(fr, states[fr.fn][p])]
  <2>1. fr.block[1] = "landing" /\ fr.block[2] = p
    BY <1>2 DEF landing_block
  <2> QED
    BY <2>1 DEF Now, Held, Position
<1>3. ASSUME fr.block = cont_block(p)
      PROVE  Now(fr) = [at |-> Target(p, 1), state |-> ContinuationState(fr, p)]
  <2>1. fr.block[1] = "cont" /\ fr.block[2] = p
    BY <1>3 DEF cont_block
  <2> QED
    BY <1>3, <2>1 DEF Now, Held, Position, ContinuationState, Target, ResultsOf, Index
<1>4. ASSUME fr.block \in {pre_entry_block, entry_block}
      PROVE  Now(fr) = [at |-> program.functions[fr.fn].entry, state |-> EntryState(fr)]
  <2>1. fr.block[1] \in {"pre_entry", "entry"}
    BY <1>4 DEF pre_entry_block, entry_block
  <2> QED
    BY <2>1 DEF Now, Held, Position, EntryState, Index
<1> QED
  BY <1>1, <1>2, <1>3, <1>4

\* What a finished region says of a statement.
LEMMA StatementMeans ==
  ASSUME ProgramInv, NEW f \in Functions, Means(f), NEW p \in DOMAIN states[f]
  PROVE  /\ p \in Stmts /\ p \in Nat /\ p >= program.functions[f].entry
         /\ program.functions[f].entry \in Nat
         /\ DOMAIN states[f][p] = LiveOf(f)[p] /\ Holds(states[f][p], p) /\ Taken(p) \subseteq LiveOf(f)[p]
         /\ LiveOf(f)[p] \in SUBSET Nat /\ IsFiniteSet(LiveOf(f)[p])
         /\ IF p \in JoinsOf(f) THEN states[f][p] = LandingState(LiveOf(f)[p], p)
            ELSE Origin(f, states[f], tailCall[f], p, states[f][p])
         /\ \A end \in Elements(code[f][libfunc_block(p)].ends) :
              Ends(f, states[f], tailCall[f], LiveOf(f), JoinsOf(f), p, end)
         /\ IsReturn(p) => Len(Statement(p).args) = Len(program.functions[f].rets)
<1>1. Static(f, LiveOf(f), JoinsOf(f)) /\ Written(f, code[f], states[f], tailCall[f], LiveOf(f), JoinsOf(f))
  BY DEF Means
<1>2. DOMAIN LiveOf(f) = DOMAIN states[f]
  BY DEF LiveOf
<1>3. p \in Stmts
  BY <1>1, <1>2 DEF Static
<1>4. program.functions[f].entry \in Stmts
  BY FunctionFacts DEF Functions
<1>5. p \in Nat /\ program.functions[f].entry \in Nat
  BY <1>3, <1>4, StatementFacts
<1> QED
  BY <1>1, <1>2, <1>3, <1>5 DEF Static, Written

\* And of the statement that a branch leads to.
LEMMA TargetMeans ==
  ASSUME ProgramInv, NEW f \in Functions, Means(f), NEW p \in DOMAIN states[f], NEW n \in Branches(p),
         NEW t, t = Target(p, n)
  PROVE  /\ t \in DOMAIN states[f] /\ t \in Nat /\ p < t
         /\ LiveOf(f)[t] = LiveAfter(LiveOf(f)[p], p, n)
         /\ t \notin JoinsOf(f) => states[f][t] = After(states[f], tailCall[f], p, n)
<1>1. Static(f, LiveOf(f), JoinsOf(f)) /\ DOMAIN LiveOf(f) = DOMAIN states[f]
  BY DEF Means, LiveOf
<1>2. p \in Stmts /\ p \in Nat /\ program.functions[f].entry \in Nat /\ p >= program.functions[f].entry
  BY StatementMeans
<1>3. t \in Stmts /\ t > p
  BY <1>2, ForwardFacts
<1>4. t \in DOMAIN states[f]
  BY <1>1, TargetsAre DEF Static, Closed
<1>5. t \in Nat /\ t # program.functions[f].entry
  BY <1>2, <1>3, <1>4, StatementMeans
<1>6. LiveOf(f)[t] = LiveAfter(LiveOf(f)[p], p, n)
  BY <1>1 DEF Static
<1>7. ASSUME t \notin JoinsOf(f) PROVE states[f][t] = After(states[f], tailCall[f], p, n)
  <2>1. Origin(f, states[f], tailCall[f], t, states[f][t])
    BY <1>4, <1>7, StatementMeans
  <2>2. PICK q \in DOMAIN states[f] : \E m \in Branches(q) :
          Target(q, m) = t /\ states[f][t] = After(states[f], tailCall[f], q, m)
    BY <1>5, <2>1 DEF Origin
  <2>3. PICK m \in Branches(q) : Target(q, m) = t /\ states[f][t] = After(states[f], tailCall[f], q, m)
    BY <2>2
  <2>4. p = q /\ n = m
    BY <1>1, <1>7, <2>3 DEF Static
  <2> QED
    BY <2>3, <2>4
<1> QED
  BY <1>2, <1>3, <1>4, <1>5, <1>6, <1>7

\* A frame of f that jumps along a branch of p.
Goes(f, p, n, jump, fr) ==
  /\ f \in Functions /\ Means(f) /\ p \in DOMAIN states[f] /\ n \in Branches(p)
  /\ Leads(states[f], tailCall[f], LiveOf(f), JoinsOf(f), p, n, jump)
  /\ IsFrame(fr) /\ fr.fn = f

\* A jump along a branch: the variables of the target hold what the branch gave them.
LEMMA Arrives ==
  ASSUME ProgramInv, NEW f, NEW p, NEW n, NEW jump, NEW fr, Goes(f, p, n, jump, fr)
  PROVE  /\ IsFrame(Jump(fr, jump)) /\ Jump(fr, jump).fn = f /\ Jump(fr, jump).depth = fr.depth
         /\ Stands(Jump(fr, jump))
         /\ Now(Jump(fr, jump)) = Place(Target(p, n), Given(f, fr, p, n))
<1>0. /\ f \in Functions /\ Means(f) /\ p \in DOMAIN states[f] /\ n \in Branches(p)
      /\ Leads(states[f], tailCall[f], LiveOf(f), JoinsOf(f), p, n, jump)
      /\ IsFrame(fr) /\ fr.fn = f
  BY DEF Goes
<1> USE <1>0
<1>15. PICK fr2 : fr2 = Jump(fr, jump)
  OBVIOUS
<1> DEFINE t == Target(p, n)
           S == states[f]
           values == ReadAll(fr, jump.with)
           value(v) == ValueAfter(S, tailCall[f], p, n, v)
           wanted == Wanted(LiveOf(f), JoinsOf(f), t)
<1>1. /\ t \in DOMAIN S /\ t \in Nat
      /\ LiveOf(f)[t] = LiveAfter(LiveOf(f)[p], p, n)
      /\ t \notin JoinsOf(f) => S[t] = After(S, tailCall[f], p, n)
  BY TargetMeans
<1>2. /\ t \in Stmts /\ DOMAIN S[t] = LiveOf(f)[t] /\ Holds(S[t], t) /\ Taken(t) \subseteq LiveOf(f)[t]
      /\ LiveOf(f)[t] \in SUBSET Nat /\ IsFiniteSet(LiveOf(f)[t])
      /\ t \in JoinsOf(f) => S[t] = LandingState(LiveOf(f)[t], t)
      /\ DOMAIN S[p] = LiveOf(f)[p]
  BY <1>1, StatementMeans
<1>3. /\ jump.to = IF t \in JoinsOf(f) THEN landing_block(t) ELSE libfunc_block(t)
      /\ jump.with = [i \in DOMAIN wanted |-> value(wanted[i])]
  BY DEF Leads
<1>4. IsSequence(wanted) /\ DOMAIN wanted = 1..Len(wanted)
  <2>1. IsSequence(Sorted(LiveOf(f)[t])) /\ IsSequence(Statement(t).args)
    BY <1>2, SortedIs, StatementFacts
  <2> QED
    BY <2>1, SequenceDomain DEF Wanted
<1> HIDE DEF wanted, value
<1>5. IsSequence(values) /\ DOMAIN values = DOMAIN wanted /\ \A i \in DOMAIN wanted : values[i] = Read(fr, value(wanted[i]))
  <2>1. values = [i \in DOMAIN wanted |-> Read(fr, value(wanted[i]))]
    BY <1>3 DEF ReadAll
  <2>2. Len(wanted) \in Nat
    BY <1>4, SequenceDomain
  <2> HIDE DEF values
  <2> QED
    BY <1>4, <2>1, <2>2, FunctionIsSequence
<1>6. fr2 = JumpWith(fr, jump.to, values)
  BY <1>15 DEF Jump
<1> HIDE DEF values
<1>7. /\ IsFrame(fr2) /\ fr2.fn = f /\ fr2.block = jump.to /\ fr2.depth = fr.depth
      /\ \A i \in DOMAIN wanted : Read(fr2, argument(jump.to, i)) = Read(fr, value(wanted[i]))
      /\ \A r : r[1] # jump.to => Read(fr2, r) = Read(fr, r)
  <2>1. /\ IsFrame(fr2) /\ fr2.fn = fr.fn /\ fr2.block = jump.to /\ fr2.depth = fr.depth
        /\ \A i \in DOMAIN values : Read(fr2, argument(jump.to, i)) = values[i]
        /\ \A r : r[1] # jump.to => Read(fr2, r) = Read(fr, r)
    BY <1>5, <1>6, JumpReads
  <2> QED
    BY <1>5, <2>1
<1>8. /\ \A v \in LiveOf(f)[t] : Read(fr2, S[t][v]) = Read(fr, value(v))
      /\ Stands(fr2)
      /\ fr2.block \in {landing_block(t), libfunc_block(t)}
  <2>1. CASE t \in JoinsOf(f)
    <3>1. jump.to = landing_block(t) /\ wanted = Sorted(LiveOf(f)[t])
      BY <1>3, <2>1 DEF wanted, Wanted
    <3>2. \A v \in LiveOf(f)[t] : /\ Index(Sorted(LiveOf(f)[t]), v) \in DOMAIN Sorted(LiveOf(f)[t])
                                  /\ Sorted(LiveOf(f)[t])[Index(Sorted(LiveOf(f)[t]), v)] = v
      BY <1>2, SortedIs
    <3>3. \A v \in LiveOf(f)[t] : S[t][v] = argument(landing_block(t), Index(Sorted(LiveOf(f)[t]), v))
      BY <1>2, <2>1 DEF LandingState
    <3>4. \A v \in LiveOf(f)[t] : Read(fr2, S[t][v]) = Read(fr, value(v))
      BY <1>7, <3>1, <3>2, <3>3
    <3>5. Stands(fr2)
      BY <1>7, <2>1, <3>1 DEF Stands
    <3> QED
      BY <1>7, <3>1, <3>4, <3>5
  <2>2. CASE t \notin JoinsOf(f)
    <3>1. jump.to = libfunc_block(t) /\ wanted = Statement(t).args
      BY <1>3, <2>2 DEF wanted, Wanted
    <3>2. \A v \in LiveOf(f)[t] : S[t][v] = value(v)
      BY <1>1, <1>2, <2>2 DEF After, value
    <3>3. \A v \in LiveOf(f)[t] : S[t][v][1] # libfunc_block(t)
      BY <1>1, <1>2, SettledFrom DEF Holds
    <3>4. \A v \in LiveOf(f)[t] : Read(fr2, S[t][v]) = Read(fr, value(v))
      BY <1>7, <3>1, <3>2, <3>3
    <3>5. \A i \in DOMAIN Statement(t).args : Statement(t).args[i] \in LiveOf(f)[t]
      BY <1>2 DEF Taken, Range
    <3>6. Operand(fr2, t)
      BY <1>7, <3>1, <3>4, <3>5 DEF Operand
    <3>7. Stands(fr2)
      BY <1>1, <1>7, <3>1, <3>6 DEF Stands
    <3> QED
      BY <1>7, <3>1, <3>4, <3>7
  <2> QED
    BY <2>1, <2>2
<1>9. Now(fr2) = [at |-> t, state |-> Valuation(fr2, S[t])]
  <2>1. fr2.fn = f /\ (fr2.block = landing_block(t) \/ fr2.block = libfunc_block(t))
    BY <1>7, <1>8
  <2> HIDE DEF t
  <2>2. Now(fr2) = [at |-> t, state |-> Valuation(fr2, states[fr2.fn][t])]
    BY <2>1, Positions
  <2> QED
    BY <2>1, <2>2
<1>10. Valuation(fr2, S[t]) = [v \in LiveAfter(LiveOf(f)[p], p, n) |-> Read(fr, value(v))]
  <2>1. Valuation(fr2, S[t]) = [v \in LiveOf(f)[t] |-> Read(fr2, S[t][v])]
    BY <1>2 DEF Valuation
  <2> QED
    BY <1>1, <1>8, <2>1
<1>11. Valuation(fr2, S[t]) = Given(f, fr, p, n)
  BY <1>10 DEF value, Given
<1> QED
  BY <1>15, <1>7, <1>8, <1>9, <1>11 DEF Place
-----------------------------------------------------------------------------
(* What a frame does, seen as a Sierra frame.                              *)

\* The operators of the Sierra machine.
LEMMA SierraRange ==
  ASSUME NEW s
  PROVE  Sierra!Range(s) = Range(s)
BY DEF Sierra!Range, Range

LEMMA PutVarsIs ==
  ASSUME NEW state, NEW names, NEW values
  PROVE  Sierra!PutVars(state, names, values) =
           [v \in DOMAIN state \cup Range(names) |->
              IF v \in Range(names) THEN values[Index(names, v)] ELSE state[v]]
BY SierraRange DEF Sierra!PutVars, Index

LEMMA WithoutIs ==
  ASSUME NEW state, NEW names
  PROVE  Sierra!Without(state, names) = [v \in DOMAIN state \ Range(names) |-> state[v]]
BY SierraRange DEF Sierra!Without

LEMMA NewFrameIs ==
  ASSUME NEW f, NEW values
  PROVE  Sierra!NewFrame(f, values) =
           [at |-> program.functions[f].entry,
            state |-> [v \in Range(program.functions[f].params) |-> values[Index(program.functions[f].params, v)]]]
<1>1. PICK params : params = program.functions[f].params
  OBVIOUS
<1>2. Sierra!NewFrame(f, values) = [at |-> program.functions[f].entry, state |-> Sierra!PutVars(<<>>, params, values)]
  BY <1>1 DEF Sierra!NewFrame
<1>3. Sierra!PutVars(<<>>, params, values) = [v \in Range(params) |-> values[Index(params, v)]]
  <2>1. DOMAIN <<>> \cup Range(params) = Range(params)
    BY Empty
  <2>2. Sierra!PutVars(<<>>, params, values) =
          [v \in DOMAIN <<>> \cup Range(params) |-> IF v \in Range(params) THEN values[Index(params, v)] ELSE <<>>[v]]
    BY PutVarsIs
  <2> QED
    BY <2>1, <2>2
<1> QED
  BY <1>1, <1>2, <1>3

\* The operands of a statement's block are the variables that the statement takes.
LEMMA OperandsAre ==
  ASSUME ProgramInv, NEW f \in Functions, Means(f), NEW p \in DOMAIN states[f],
         NEW fr, fr.fn = f, fr.block = libfunc_block(p), Operand(fr, p),
         NEW values, values = ReadAll(fr, Arguments(fr.block, code[f][fr.block].params))
  PROVE  /\ values = Sierra!TakeVars(Valuation(fr, states[f][p]), Statement(p).args)
         /\ IsSequence(values) /\ Len(values) = Len(Statement(p).args)
         /\ DOMAIN values = DOMAIN Statement(p).args
         /\ \A i \in DOMAIN values : values[i] = Read(fr, argument(libfunc_block(p), i))
<1> DEFINE args == Statement(p).args
           n == Len(args)
<1>1. /\ p \in Stmts /\ DOMAIN states[f][p] = LiveOf(f)[p] /\ Taken(p) \subseteq LiveOf(f)[p]
  BY StatementMeans
<1>2. IsSequence(args) /\ n \in Nat /\ DOMAIN args = 1..n
  BY <1>1, StatementFacts, SequenceDomain
<1>3. code[f][fr.block].params = n
  BY DEF Means
<1> HIDE DEF n
<1>4. values = [i \in 1..n |-> Read(fr, argument(libfunc_block(p), i))]
  BY <1>3 DEF ReadAll, Arguments
<1>5. \A i \in 1..n : /\ Read(fr, argument(libfunc_block(p), i)) = Read(fr, states[f][p][args[i]])
                      /\ args[i] \in DOMAIN states[f][p]
  BY <1>1, <1>2 DEF Operand, Taken, Range
<1>6. values = [i \in 1..n |-> Valuation(fr, states[f][p])[args[i]]]
  BY <1>4, <1>5 DEF Valuation
<1>7. values = Sierra!TakeVars(Valuation(fr, states[f][p]), args)
  BY <1>2, <1>6 DEF Sierra!TakeVars
<1>8. IsSequence(values) /\ Len(values) = n
  BY <1>2, <1>4, FunctionIsSequence
<1> QED
  BY <1>2, <1>4, <1>7, <1>8 DEF n

\* The registers of the results of a branch.
Produced(p, n, values) == [i \in DOMAIN values |-> result(p, n, i)]

\* The results of a libfunc or of a call reach the target of the branch.
LEMMA Continues ==
  ASSUME ProgramInv, NEW f \in Functions, Means(f), NEW p \in DOMAIN states[f], p # tailCall[f],
         NEW n \in Branches(p), NEW jump, Leads(states[f], tailCall[f], LiveOf(f), JoinsOf(f), p, n, jump),
         NEW fr, IsFrame(fr), fr.fn = f, NEW values, DOMAIN values = DOMAIN ResultsOf(p, n),
         NEW fr2, fr2 = Jump(Write(fr, Produced(p, n, values), values), jump)
  PROVE  /\ IsFrame(fr2) /\ fr2.fn = f /\ fr2.depth = fr.depth /\ Stands(fr2)
         /\ Now(fr2) =
              Place(Target(p, n),
                    Sierra!PutVars(Sierra!Without(Valuation(fr, states[f][p]), Statement(p).args),
                                   ResultsOf(p, n), values))
<1> DEFINE registers == Produced(p, n, values)
           S == states[f]
           found == ResultsOf(p, n)
           all == Valuation(fr, S[p])
           put == Sierra!PutVars(Sierra!Without(all, Statement(p).args), found, values)
<1>1. PICK mid : mid = Write(fr, registers, values)
  OBVIOUS
<1>2. Names(registers, Results(p, n)) /\ DOMAIN registers = DOMAIN values
  BY DEF Names, result, Produced
<1> HIDE DEF registers
<1>3. /\ IsFrame(mid) /\ mid.fn = f /\ mid.depth = fr.depth
      /\ \A i \in DOMAIN values : Read(mid, <<Results(p, n), i>>) = values[i]
      /\ \A r : r[1] # Results(p, n) => Read(mid, r) = Read(fr, r)
  BY <1>1, <1>2, WriteReads
<1>4. fr2 = Jump(mid, jump)
  BY <1>1 DEF registers
<1>5. /\ IsFrame(fr2) /\ fr2.fn = f /\ fr2.depth = fr.depth /\ Stands(fr2)
      /\ Now(fr2) =
           [at |-> Target(p, n),
            state |-> [v \in LiveAfter(LiveOf(f)[p], p, n) |->
                         Read(mid, ValueAfter(S, tailCall[f], p, n, v))]]
  <2>1. Goes(f, p, n, jump, mid)
    BY <1>3 DEF Goes
  <2>2. /\ IsFrame(fr2) /\ fr2.fn = f /\ fr2.depth = mid.depth /\ Stands(fr2)
        /\ Now(fr2) =
             Place(Target(p, n), Given(f, mid, p, n))
    <3>1. /\ IsFrame(Jump(mid, jump)) /\ Jump(mid, jump).fn = f /\ Jump(mid, jump).depth = mid.depth
          /\ Stands(Jump(mid, jump))
          /\ Now(Jump(mid, jump)) = Place(Target(p, n), Given(f, mid, p, n))
      BY <2>1, Arrives
    <3> QED
      BY <1>4, <3>1
  <2> QED
    BY <1>3, <2>2 DEF Given, Place
<1>6. /\ p \in Nat /\ p \in Stmts /\ DOMAIN S[p] = LiveOf(f)[p] /\ Holds(S[p], p)
  BY StatementMeans
<1>7. IsSequence(found)
  BY <1>6, StatementFacts DEF Branches, ResultsOf
<1>8. ASSUME NEW v \in LiveAfter(LiveOf(f)[p], p, n)
      PROVE  Read(mid, ValueAfter(S, tailCall[f], p, n, v)) =
               IF v \in Range(found) THEN values[Index(found, v)] ELSE all[v]
  <2>1. CASE v \in Range(found)
    <3>1. Index(found, v) \in DOMAIN values
      BY <1>7, <2>1, IndexIn
    <3>2. ValueAfter(S, tailCall[f], p, n, v) = <<Results(p, n), Index(found, v)>>
      BY <2>1 DEF ValueAfter, Source, argument
    <3> QED
      BY <1>3, <2>1, <3>1, <3>2
  <2>2. CASE v \notin Range(found)
    <3>1. v \in LiveOf(f)[p]
      BY <2>2 DEF LiveAfter
    <3>2. ValueAfter(S, tailCall[f], p, n, v) = S[p][v]
      BY <2>2 DEF ValueAfter
    <3>3. S[p][v][1] # Results(p, n)
      BY <1>6, <3>1, SettledFrom DEF Holds
    <3>4. all[v] = Read(fr, S[p][v])
      BY <1>6, <3>1 DEF Valuation
    <3> QED
      BY <1>3, <2>2, <3>2, <3>3, <3>4
  <2> QED
    BY <2>1, <2>2
<1>9. /\ DOMAIN all = LiveOf(f)[p]
      /\ \A v \in DOMAIN all \ Range(Statement(p).args) :
           Sierra!Without(all, Statement(p).args)[v] = all[v]
      /\ DOMAIN Sierra!Without(all, Statement(p).args) = DOMAIN all \ Range(Statement(p).args)
  <2>1. DOMAIN all = LiveOf(f)[p]
    BY <1>6 DEF Valuation
  <2> HIDE DEF all
  <2>2. Sierra!Without(all, Statement(p).args) = [v \in DOMAIN all \ Range(Statement(p).args) |-> all[v]]
    BY WithoutIs
  <2> QED
    BY <2>1, <2>2
<1>10. put = [v \in LiveAfter(LiveOf(f)[p], p, n) |->
                IF v \in Range(found) THEN values[Index(found, v)] ELSE all[v]]
  <2>1. PICK rest : rest = Sierra!Without(all, Statement(p).args)
    OBVIOUS
  <2>2. put = [v \in DOMAIN rest \cup Range(found) |->
                 IF v \in Range(found) THEN values[Index(found, v)] ELSE rest[v]]
    BY <2>1, PutVarsIs
  <2>3. DOMAIN rest \cup Range(found) = LiveAfter(LiveOf(f)[p], p, n)
    BY <1>9, <2>1 DEF LiveAfter, Taken
  <2>4. \A v \in DOMAIN rest : rest[v] = all[v]
    BY <1>9, <2>1
  <2> HIDE DEF put, all, found
  <2> QED
    BY <2>2, <2>3, <2>4
<1> HIDE DEF put, all
<1>11. put = [v \in LiveAfter(LiveOf(f)[p], p, n) |-> Read(mid, ValueAfter(S, tailCall[f], p, n, v))]
  BY <1>8, <1>10
<1> QED
  BY <1>5, <1>11 DEF put, all, Place

\* A frame at the entry of its function, or where its tail call continues.
LEMMA AtEntry ==
  ASSUME ProgramInv, NEW f \in Functions, NEW fr, fr.fn = f, fr.block \in {pre_entry_block, entry_block},
         NEW values, \A i \in DOMAIN program.functions[f].params : Read(fr, argument(fr.block, i)) = values[i]
  PROVE  Now(fr) = Sierra!NewFrame(f, values)
<1> DEFINE params == program.functions[f].params
<1>1. IsSequence(params)
  BY FunctionFacts DEF Functions
<1>2. Now(fr) = [at |-> program.functions[f].entry,
                             state |-> [v \in Range(params) |-> Read(fr, argument(fr.block, Index(params, v)))]]
  <2>1. Now(fr) = [at |-> program.functions[f].entry, state |-> EntryState(fr)]
    BY Positions
  <2> QED
    BY <2>1 DEF EntryState
<1>3. \A v \in Range(params) : Read(fr, argument(fr.block, Index(params, v))) = values[Index(params, v)]
  BY <1>1, IndexIn
<1>4. Sierra!NewFrame(f, values) = [at |-> program.functions[f].entry,
                                    state |-> [v \in Range(params) |-> values[Index(params, v)]]]
  BY NewFrameIs
<1> HIDE DEF params
<1> QED
  BY <1>2, <1>3, <1>4

LEMMA AtContinuation ==
  ASSUME ProgramInv, NEW p \in Stmts, NEW fr, fr.block = cont_block(p), 1 \in Branches(p),
         NEW values, \A i \in DOMAIN ResultsOf(p, 1) : Read(fr, argument(fr.block, i)) = values[i]
  PROVE  Now(fr) = [at |-> Target(p, 1), state |-> Sierra!PutVars(<<>>, ResultsOf(p, 1), values)]
<1> DEFINE found == ResultsOf(p, 1)
<1>1. IsSequence(found)
  BY StatementFacts DEF Branches, ResultsOf
<1>2. Now(fr) = [at |-> Target(p, 1),
                             state |-> [v \in Range(found) |-> Read(fr, argument(cont_block(p), Index(found, v)))]]
  <2>1. Now(fr) = [at |-> Target(p, 1), state |-> ContinuationState(fr, p)]
    BY Positions
  <2> QED
    BY <2>1 DEF ContinuationState
<1>3. \A v \in Range(found) : Read(fr, argument(cont_block(p), Index(found, v))) = values[Index(found, v)]
  BY <1>1, IndexIn
<1>4. Sierra!PutVars(<<>>, found, values) = [v \in Range(found) |-> values[Index(found, v)]]
  <2>1. DOMAIN <<>> \cup Range(found) = Range(found)
    BY Empty
  <2>2. Sierra!PutVars(<<>>, found, values) =
          [v \in DOMAIN <<>> \cup Range(found) |-> IF v \in Range(found) THEN values[Index(found, v)] ELSE <<>>[v]]
    BY PutVarsIs
  <2> QED
    BY <2>1, <2>2
<1> HIDE DEF found
<1> QED
  BY <1>2, <1>3, <1>4 DEF found

\* The first frame of a call, whose memory is in the slots of the frame below.
InMemory(f, values, level, below) ==
  /\ IsSequence(values) /\ Len(values) = Len(program.functions[f].params)
  /\ \A i \in DOMAIN values : program.functions[f].types[i] = "memory" => below[level].slots[i] = values[i]

LEMMA Entered ==
  ASSUME ProgramInv, NEW f \in Functions, NEW values, NEW level, NEW below, InMemory(f, values, level, below),
         NEW fr, fr = Enter(f, Passed(f, values, level), below)
  PROVE  /\ IsFrame(fr) /\ fr.fn = f /\ fr.depth = 0 /\ Stands(fr)
         /\ Now(fr) = Sierra!NewFrame(f, values)
<1> DEFINE first == [fn |-> f, block |-> pre_entry_block, regs |-> <<>>, depth |-> 0, slots |-> <<>>]
           types == program.functions[f].types
           passed == Passed(f, values, level)
           loaded == [i \in DOMAIN passed |->
                        IF types[i] = "memory" THEN below[passed[i].level].slots[passed[i].slot] ELSE passed[i]]
<1>0. /\ IsSequence(values) /\ Len(values) = Len(program.functions[f].params)
      /\ \A i \in DOMAIN values : types[i] = "memory" => below[level].slots[i] = values[i]
  BY DEF InMemory
<1>1. DOMAIN values = 1..Len(values) /\ Len(values) \in Nat /\ values = [i \in 1..Len(values) |-> values[i]]
  BY <1>0, SequenceDomain DEF IsSequence
<1>2. fr = JumpWith(first, pre_entry_block, loaded)
  BY DEF Enter
<1>3. /\ DOMAIN passed = DOMAIN values
      /\ \A i \in DOMAIN values :
           passed[i] = IF types[i] = "memory" THEN [level |-> level, slot |-> i] ELSE values[i]
  BY DEF Passed, Pointer
<1> HIDE DEF passed
<1>4. DOMAIN loaded = DOMAIN values /\ \A i \in DOMAIN values : loaded[i] = values[i]
  <2> SUFFICES ASSUME NEW i \in DOMAIN values PROVE loaded[i] = values[i]
    BY <1>3
  <2>1. CASE types[i] = "memory"
    <3>1. passed[i].level = level /\ passed[i].slot = i
      BY <1>3, <2>1
    <3> QED
      BY <1>0, <1>3, <2>1, <3>1
  <2>2. CASE types[i] # "memory"
    BY <1>3, <2>2
  <2> QED
    BY <2>1, <2>2
<1>5. loaded = [i \in 1..Len(values) |-> loaded[i]]
  BY <1>1, <1>4
<1>6. IsFrame(first) /\ first.fn = f /\ first.depth = 0
  BY DEF IsFrame
<1> HIDE DEF loaded, first
<1>7. IsSequence(loaded)
  BY <1>1, <1>5, FunctionIsSequence
<1>8. /\ IsFrame(fr) /\ fr.fn = f /\ fr.block = pre_entry_block /\ fr.depth = 0
      /\ \A i \in DOMAIN values : Read(fr, argument(pre_entry_block, i)) = values[i]
  BY <1>2, <1>4, <1>6, <1>7, JumpReads
<1>9. DOMAIN program.functions[f].params = DOMAIN values
  BY <1>0, <1>1, FunctionFacts, SequenceDomain DEF Functions
<1>10. Now(fr) = Sierra!NewFrame(f, values)
  <2>1. /\ fr.fn = f /\ fr.block \in {pre_entry_block, entry_block}
        /\ \A i \in DOMAIN program.functions[f].params : Read(fr, argument(fr.block, i)) = values[i]
    BY <1>8, <1>9
  <2> QED
    BY <2>1, AtEntry
<1> QED
  BY <1>8, <1>10 DEF Stands
-----------------------------------------------------------------------------
(* A jump inside a function that is no step of the Sierra program.         *)

\* A frame in a finished function that verifies.
Runs(f, fr) == f \in Functions /\ Means(f) /\ Verifies(f) /\ IsFrame(fr) /\ fr.fn = f
OnlyEnd(f, block) == code[f][block].ends[1]

LEMMA EndIs ==
  ASSUME NEW f, Verifies(f), NEW block \in DOMAIN code[f]
  PROVE  /\ OnlyEnd(f, block) \in Elements(code[f][block].ends)
         /\ \A jump \in JumpsOf(OnlyEnd(f, block)) :
              jump.to \in DOMAIN code[f] /\ Len(jump.with) = code[f][jump.to].params
<1>1. Len(code[f][block].ends) = 1
  BY DEF Verifies
<1>2. 1 \in 1..Len(code[f][block].ends)
  BY <1>1
<1>3. \A jump \in JumpsOf(OnlyEnd(f, block)) :
        jump.to \in DOMAIN code[f] /\ Len(jump.with) = code[f][jump.to].params
  BY DEF Verifies, OnlyEnd
<1> QED
  BY <1>2, <1>3 DEF Elements, OnlyEnd

\* What a terminator of the block of a statement is, by its op.
LEMMA EndOps ==
  ASSUME NEW f, NEW S, NEW loop, NEW live, NEW joins, NEW p, NEW end, Ends(f, S, loop, live, joins, p, end)
  PROVE  /\ end.op # "br"
         /\ end.op = "return" => IsReturn(p) /\ loop = 0
         /\ end.op = "shallower" =>
              /\ IsReturn(p) /\ loop # 0 /\ end.to = cont_block(loop)
              /\ \E kept \in SUBSET DOMAIN program.functions[f].rets :
                   end.with = [i \in DOMAIN Sorted(kept) |-> argument(libfunc_block(p), Sorted(kept)[i])]
         /\ end.op = "deeper" =>
              /\ ~IsReturn(p) /\ p = loop /\ end.to = entry_block
              /\ end.with = Arguments(libfunc_block(p), Len(Statement(p).args))
         /\ end.op \in {"call", "libfunc"} =>
              /\ ~IsReturn(p) /\ p # loop /\ (end.op = "call" <=> IsCall(p)) /\ end.fn = Statement(p).fn
              /\ DOMAIN end.branches = Branches(p)
              /\ \A n \in Branches(p) : Leads(S, loop, live, joins, p, n, end.branches[n])
BY DEF Ends

\* The frame jumps to the statement whose variables it holds.
LEMMA Operated ==
  ASSUME ProgramInv, NEW f, NEW fr, Runs(f, fr), NEW p \in DOMAIN states[f], NEW end,
         Operates(states[f][p], p, end), \A v \in DOMAIN states[f][p] : states[f][p][v][1] # libfunc_block(p),
         NEW fr2, fr2 = Jump(fr, end)
  PROVE  /\ Runs(f, fr2) /\ fr2.depth = fr.depth /\ Stands(fr2)
         /\ Now(fr2) = Place(p, Valuation(fr, states[f][p]))
<1> DEFINE args == Statement(p).args
           S == states[f]
           values == ReadAll(fr, end.with)
<1>0. f \in Functions /\ Means(f) /\ Verifies(f) /\ IsFrame(fr) /\ fr.fn = f
  BY DEF Runs
<1>1. p \in Stmts /\ DOMAIN S[p] = LiveOf(f)[p] /\ Taken(p) \subseteq LiveOf(f)[p]
  BY <1>0, StatementMeans
<1>2. IsSequence(args) /\ Len(args) \in Nat /\ DOMAIN args = 1..Len(args)
  BY <1>1, StatementFacts, SequenceDomain
<1>3. /\ end.to = libfunc_block(p) /\ end.with = [i \in DOMAIN args |-> S[p][args[i]]]
  BY DEF Operates
<1>4. values = [i \in DOMAIN args |-> Read(fr, S[p][args[i]])]
  BY <1>3 DEF ReadAll
<1>5. fr2 = JumpWith(fr, libfunc_block(p), values)
  BY <1>3 DEF Jump
<1> HIDE DEF values
<1>6. IsSequence(values) /\ DOMAIN values = DOMAIN args /\ \A i \in DOMAIN args : values[i] = Read(fr, S[p][args[i]])
  BY <1>2, <1>4, FunctionIsSequence
<1>7. /\ IsFrame(fr2) /\ fr2.fn = fr.fn /\ fr2.block = libfunc_block(p) /\ fr2.depth = fr.depth
      /\ \A i \in DOMAIN values : Read(fr2, argument(libfunc_block(p), i)) = values[i]
      /\ \A r : r[1] # libfunc_block(p) => Read(fr2, r) = Read(fr, r)
  BY <1>0, <1>5, <1>6, JumpReads
<1>8. \A i \in DOMAIN args : args[i] \in DOMAIN S[p]
  BY <1>1 DEF Taken, Range
<1>9. \A v \in DOMAIN S[p] : Read(fr2, S[p][v]) = Read(fr, S[p][v])
  BY <1>7
<1>10. Operand(fr2, p)
  BY <1>0, <1>6, <1>7, <1>8, <1>9 DEF Operand
<1>11. Valuation(fr2, S[p]) = Valuation(fr, S[p])
  BY <1>9 DEF Valuation
<1>12. Now(fr2) = [at |-> p, state |-> Valuation(fr2, S[p])]
  <2>1. Now(fr2) = [at |-> p, state |-> Valuation(fr2, states[fr2.fn][p])]
    BY <1>7, Positions
  <2> QED
    BY <1>0, <1>7, <2>1
<1> QED
  BY <1>0, <1>7, <1>10, <1>11, <1>12 DEF Stands, Runs, Place

LEMMA FromPreEntry ==
  ASSUME ProgramInv, NEW f, NEW fr, Runs(f, fr), fr.block = pre_entry_block,
         NEW end, end = OnlyEnd(f, fr.block), NEW fr2, fr2 = Jump(fr, end)
  PROVE  Runs(f, fr2) /\ fr2.depth = fr.depth /\ Stands(fr2) /\ Now(fr2) = Now(fr)
<1> DEFINE params == program.functions[f].params
           n == Len(params)
           values == [i \in 1..n |-> Read(fr, argument(pre_entry_block, i))]
<1>0. f \in Functions /\ Means(f) /\ Verifies(f) /\ IsFrame(fr) /\ fr.fn = f
  BY DEF Runs
<1>1. n \in Nat /\ DOMAIN params = 1..n
  BY <1>0, FunctionFacts, SequenceDomain DEF Functions
<1>2. end \in Elements(code[f][pre_entry_block].ends)
  BY <1>0, EndIs DEF Means
<1>3. end.to = entry_block /\ end.with = Arguments(pre_entry_block, n)
  BY <1>0, <1>2 DEF Means, Written
<1> HIDE DEF n
<1>4. fr2 = JumpWith(fr, entry_block, values)
  BY <1>3 DEF Jump, ReadAll, Arguments
<1>5. DOMAIN values = 1..n /\ \A i \in 1..n : values[i] = Read(fr, argument(pre_entry_block, i))
  OBVIOUS
<1>6. IsSequence(values)
  BY <1>1, FunctionIsSequence
<1> HIDE DEF values
<1>7. /\ IsFrame(fr2) /\ fr2.fn = fr.fn /\ fr2.block = entry_block /\ fr2.depth = fr.depth
      /\ \A i \in DOMAIN values : Read(fr2, argument(entry_block, i)) = values[i]
  BY <1>0, <1>4, <1>6, JumpReads
<1>8. Now(fr) = Sierra!NewFrame(f, values)
  <2>1. fr.block \in {pre_entry_block, entry_block} /\ \A i \in DOMAIN params : Read(fr, argument(fr.block, i)) = values[i]
    BY <1>1, <1>5
  <2> QED
    BY <1>0, <2>1, AtEntry
<1>9. Now(fr2) = Sierra!NewFrame(f, values)
  <2>1. fr2.fn = f /\ fr2.block \in {pre_entry_block, entry_block}
        /\ \A i \in DOMAIN params : Read(fr2, argument(fr2.block, i)) = values[i]
    BY <1>0, <1>1, <1>5, <1>7
  <2> QED
    BY <1>0, <2>1, AtEntry
<1> QED
  BY <1>0, <1>7, <1>8, <1>9 DEF Runs, Stands

LEMMA FromEntry ==
  ASSUME ProgramInv, NEW f, NEW fr, Runs(f, fr), fr.block = entry_block,
         NEW end, end = OnlyEnd(f, fr.block), NEW fr2, fr2 = Jump(fr, end)
  PROVE  Runs(f, fr2) /\ fr2.depth = fr.depth /\ Stands(fr2) /\ Now(fr2) = Now(fr)
<1> DEFINE e == program.functions[f].entry
           params == program.functions[f].params
           S == states[f]
<1>0. f \in Functions /\ Means(f) /\ Verifies(f) /\ IsFrame(fr) /\ fr.fn = f
  BY DEF Runs
<1>1. end \in Elements(code[f][entry_block].ends)
  BY <1>0, EndIs DEF Means
<1>2. Operates(InitialState(f), e, end)
  BY <1>0, <1>1 DEF Means, Written
<1>3. e \in DOMAIN S /\ e \notin JoinsOf(f)
  BY <1>0 DEF Means, Static, LiveOf
<1>4. S[e] = InitialState(f)
  <2>1. Origin(f, S, tailCall[f], e, S[e])
    BY <1>0, <1>3, StatementMeans
  <2>2. SUFFICES ASSUME NEW q \in DOMAIN S, NEW m \in Branches(q), Target(q, m) = e PROVE FALSE
    BY <2>1 DEF Origin
  <2>3. q \in Stmts /\ q \in Nat /\ e \in Nat /\ q >= e
    BY <1>0, StatementMeans
  <2>4. Target(q, m) > q
    BY <2>3, ForwardFacts
  <2> QED
    BY <2>2, <2>3, <2>4
<1>5. DOMAIN S[e] = Range(params) /\ \A v \in Range(params) : S[e][v] = argument(entry_block, Index(params, v))
  BY <1>4 DEF InitialState
<1>6. \A v \in DOMAIN S[e] : S[e][v][1] # libfunc_block(e)
  <2> SUFFICES ASSUME NEW v \in DOMAIN S[e] PROVE S[e][v][1] # libfunc_block(e)
    OBVIOUS
  <2>1. S[e][v] = argument(entry_block, Index(params, v))
    BY <1>5, Zenon
  <2>2. S[e][v][1] = entry_block
    BY <2>1 DEF argument
  <2> QED
    BY <2>2 DEF entry_block, libfunc_block
<1>7. /\ Runs(f, fr2) /\ fr2.depth = fr.depth /\ Stands(fr2)
      /\ Now(fr2) = Place(e, Valuation(fr, S[e]))
  <2>1. Operates(states[f][e], e, end)
    BY <1>2, <1>4
  <2> QED
    BY <1>3, <1>6, <2>1, Operated
<1>8. Valuation(fr, S[e]) = EntryState(fr)
  BY <1>0, <1>5 DEF Valuation, EntryState
<1>9. Now(fr) = [at |-> program.functions[fr.fn].entry, state |-> EntryState(fr)]
  BY Positions
<1> QED
  BY <1>0, <1>7, <1>8, <1>9 DEF Place

LEMMA FromLanding ==
  ASSUME ProgramInv, NEW f, NEW fr, Runs(f, fr), NEW p \in JoinsOf(f), fr.block = landing_block(p),
         NEW end, end = OnlyEnd(f, fr.block), NEW fr2, fr2 = Jump(fr, end)
  PROVE  Runs(f, fr2) /\ fr2.depth = fr.depth /\ Stands(fr2) /\ Now(fr2) = Now(fr)
<1>0. f \in Functions /\ Means(f) /\ Verifies(f) /\ IsFrame(fr) /\ fr.fn = f
  BY DEF Runs
<1>1. p \in DOMAIN states[f] /\ landing_block(p) \in DOMAIN code[f]
  BY DEF JoinsOf
<1>2. end \in Elements(code[f][landing_block(p)].ends)
  BY <1>0, <1>1, EndIs
<1>3. states[f][p] = LandingState(LiveOf(f)[p], p) /\ DOMAIN states[f][p] = LiveOf(f)[p]
  BY <1>0, <1>1, StatementMeans
<1>4. Operates(LandingState(LiveOf(f)[p], p), p, end)
  BY <1>0, <1>2 DEF Means, Written
<1>5. Operates(states[f][p], p, end)
  BY <1>3, <1>4
<1>6. \A v \in DOMAIN states[f][p] : states[f][p][v][1] # libfunc_block(p)
  BY <1>3 DEF LandingState, argument, landing_block, libfunc_block
<1>7. /\ Runs(f, fr2) /\ fr2.depth = fr.depth /\ Stands(fr2)
      /\ Now(fr2) = Place(p, Valuation(fr, states[f][p]))
  BY <1>1, <1>5, <1>6, Operated
<1>8. Now(fr) = [at |-> p, state |-> Valuation(fr, states[fr.fn][p])]
  BY Positions
<1> QED
  BY <1>0, <1>7, <1>8 DEF Place

\* What is known of the tail call of a loop.
LEMMA LoopMeans ==
  ASSUME ProgramInv, NEW f \in Functions, Means(f), NEW p, p = tailCall[f], p # 0
  PROVE  /\ p \in DOMAIN states[f] /\ Statement(p).fn = f /\ IsCall(p) /\ LiveOf(f)[p] = Taken(p)
         /\ 1 \in Branches(p) /\ LiveAfter(LiveOf(f)[p], p, 1) = Range(ResultsOf(p, 1))
         /\ cont_block(p) \in DOMAIN code[f]
         /\ code[f][cont_block(p)].params = Len(program.functions[f].rets)
         /\ Len(ResultsOf(p, 1)) = Len(program.functions[f].rets)
         /\ Len(Statement(p).args) = Len(program.functions[f].params)
         /\ \A end \in Elements(code[f][cont_block(p)].ends) :
              end.op = "br" /\ Leads(states[f], tailCall[f], LiveOf(f), JoinsOf(f), p, 1, end)
<1>1. Written(f, code[f], states[f], p, LiveOf(f), JoinsOf(f))
  BY DEF Means
<1>2. /\ p \in DOMAIN states[f] /\ Statement(p).fn = f /\ LiveOf(f)[p] = Taken(p)
      /\ \A end \in Elements(code[f][cont_block(p)].ends) :
           end.op = "br" /\ Leads(states[f], p, LiveOf(f), JoinsOf(f), p, 1, end)
  BY <1>1 DEF Written
<1>3. p \in Stmts /\ IsCall(p)
  BY <1>2, StatementMeans DEF IsCall, Functions
<1>4. /\ Len(Statement(p).branches) = 1 /\ IsSequence(Statement(p).branches)
      /\ Len(Statement(p).args) = Len(program.functions[f].params)
  BY <1>2, <1>3, StatementFacts
<1>5. 1 \in Branches(p)
  BY <1>4, SequenceDomain DEF Branches
<1>6. Len(ResultsOf(p, 1)) = Len(program.functions[f].rets)
  BY <1>2, <1>3, ForwardFacts
<1>7. /\ cont_block(p) \in DOMAIN code[f]
      /\ code[f][cont_block(p)].params = Len(program.functions[f].rets)
  BY DEF Means
<1>8. LiveAfter(LiveOf(f)[p], p, 1) = Range(ResultsOf(p, 1))
  BY <1>2 DEF LiveAfter
<1> QED
  BY <1>2, <1>3, <1>4, <1>5, <1>6, <1>7, <1>8

LEMMA FromContinuation ==
  ASSUME ProgramInv, NEW f, NEW fr, Runs(f, fr), NEW p, p = tailCall[f], p # 0, fr.block = cont_block(p),
         NEW end, end = OnlyEnd(f, fr.block), NEW fr2, fr2 = Jump(fr, end)
  PROVE  Runs(f, fr2) /\ fr2.depth = fr.depth /\ Stands(fr2) /\ Now(fr2) = Now(fr)
<1> DEFINE found == ResultsOf(p, 1)
<1>0. f \in Functions /\ Means(f) /\ Verifies(f) /\ IsFrame(fr) /\ fr.fn = f
  BY DEF Runs
<1>1. /\ p \in DOMAIN states[f] /\ 1 \in Branches(p) /\ LiveAfter(LiveOf(f)[p], p, 1) = Range(found)
      /\ cont_block(p) \in DOMAIN code[f]
      /\ \A x \in Elements(code[f][cont_block(p)].ends) :
           Leads(states[f], tailCall[f], LiveOf(f), JoinsOf(f), p, 1, x)
  BY <1>0, LoopMeans
<1>2. end \in Elements(code[f][cont_block(p)].ends)
  BY <1>0, <1>1, EndIs
<1>3. Goes(f, p, 1, end, fr)
  BY <1>0, <1>1, <1>2 DEF Goes
<1>4. /\ IsFrame(fr2) /\ fr2.fn = f /\ fr2.depth = fr.depth /\ Stands(fr2)
      /\ Now(fr2) = Place(Target(p, 1), Given(f, fr, p, 1))
  <2>1. PICK jump : jump = end
    OBVIOUS
  <2>2. Goes(f, p, 1, jump, fr)
    BY <1>3, <2>1
  <2>3. /\ IsFrame(Jump(fr, jump)) /\ Jump(fr, jump).fn = f /\ Jump(fr, jump).depth = fr.depth
        /\ Stands(Jump(fr, jump))
        /\ Now(Jump(fr, jump)) = Place(Target(p, 1), Given(f, fr, p, 1))
    BY <2>2, Arrives
  <2> QED
    BY <2>1, <2>3
<1>5. Given(f, fr, p, 1) = ContinuationState(fr, p)
  <2>1. Given(f, fr, p, 1) = [v \in Range(found) |-> Read(fr, ValueAfter(states[f], tailCall[f], p, 1, v))]
    BY <1>1 DEF Given
  <2>2. \A v \in Range(found) : ValueAfter(states[f], tailCall[f], p, 1, v) = argument(cont_block(p), Index(found, v))
    BY DEF ValueAfter, Source
  <2>3. ContinuationState(fr, p) = [v \in Range(found) |-> Read(fr, argument(cont_block(p), Index(found, v)))]
    BY DEF ContinuationState
  <2> HIDE DEF found
  <2> QED
    BY <2>1, <2>2, <2>3
<1>6. Now(fr) = [at |-> Target(p, 1), state |-> ContinuationState(fr, p)]
  BY Positions
<1> QED
  BY <1>0, <1>4, <1>5, <1>6 DEF Runs, Place

\* An unconditional jump leaves the Sierra frame as it is.
LEMMA BranchKeeps ==
  ASSUME ProgramInv, NEW f, NEW fr, Runs(f, fr), Stands(fr),
         NEW end, end = OnlyEnd(f, fr.block), end.op = "br", NEW fr2, fr2 = Jump(fr, end)
  PROVE  Runs(f, fr2) /\ fr2.depth = fr.depth /\ Stands(fr2) /\ Now(fr2) = Now(fr)
<1>0. f \in Functions /\ Means(f) /\ Verifies(f) /\ fr.fn = f
  BY DEF Runs
<1>1. ASSUME NEW p \in DOMAIN states[f], fr.block = libfunc_block(p) PROVE FALSE
  <2>1. end \in Elements(code[f][libfunc_block(p)].ends)
    BY <1>0, <1>1, EndIs DEF Means
  <2>2. Ends(f, states[f], tailCall[f], LiveOf(f), JoinsOf(f), p, end)
    BY <1>0, <1>1, <2>1, StatementMeans
  <2> QED
    BY <2>2, EndOps
<1>2. CASE fr.block = pre_entry_block
  BY <1>2, FromPreEntry
<1>3. CASE fr.block = entry_block
  BY <1>3, FromEntry
<1>4. CASE tailCall[f] # 0 /\ fr.block = cont_block(tailCall[f])
  BY <1>4, FromContinuation
<1>5. ASSUME NEW p \in JoinsOf(f), fr.block = landing_block(p)
      PROVE  Runs(f, fr2) /\ fr2.depth = fr.depth /\ Stands(fr2) /\ Now(fr2) = Now(fr)
  BY <1>5, FromLanding
<1> QED
  BY <1>0, <1>1, <1>2, <1>3, <1>4, <1>5 DEF Stands
-----------------------------------------------------------------------------
(* Stacks of native frames, and the Sierra frames seen there.              *)

\* The function that a waiting frame called; frames that wait for a call of f; a stack.
Callee(frame) == Statement(frame.block[2]).fn
Suspended(L, f) ==
  /\ IsSequence(L)
  /\ \A n \in 1..Len(L) :
       /\ FrameInv(L[n]) /\ Waits(L[n])
       /\ n < Len(L) => L[n + 1].fn = Callee(L[n])
       /\ n = Len(L) => f = Callee(L[n])
StackOf(st) ==
  /\ IsSequence(st)
  /\ \A n \in 1..Len(st) :
       /\ FrameInv(st[n])
       /\ n = Len(st) => Stands(st[n])
       /\ n < Len(st) => Waits(st[n]) /\ st[n + 1].fn = Callee(st[n])

LEMMA StackOn ==
  ASSUME NEW L, NEW fr, Suspended(L, fr.fn), FrameInv(fr), Stands(fr)
  PROVE  StackOf(L \o <<fr>>)
<1> DEFINE st == L \o <<fr>>
<1>1. /\ IsSequence(st) /\ Len(st) = Len(L) + 1 /\ Len(L) \in Nat
      /\ st[Len(L) + 1] = fr /\ \A i \in 1..Len(L) : st[i] = L[i]
  BY Pushed, SequenceDomain DEF Suspended
<1> HIDE DEF st
<1>2. ASSUME NEW n \in 1..Len(st), n < Len(st)
      PROVE  FrameInv(st[n]) /\ Waits(st[n]) /\ st[n + 1].fn = Callee(st[n])
  <2>1. n \in 1..Len(L) /\ st[n] = L[n]
    BY <1>1, <1>2
  <2>2. CASE n < Len(L)
    <3>1. st[n + 1] = L[n + 1]
      BY <1>1, <2>1, <2>2
    <3> QED
      BY <2>1, <2>2, <3>1 DEF Suspended
  <2>3. CASE n = Len(L)
    BY <1>1, <2>1, <2>3 DEF Suspended
  <2> QED
    BY <1>1, <2>1, <2>2, <2>3
<1>3. ASSUME NEW n \in 1..Len(st), n = Len(st) PROVE FrameInv(st[n]) /\ Stands(st[n])
  BY <1>1, <1>3
<1>4. \A n \in 1..Len(st) : n < Len(st) \/ n = Len(st)
  BY <1>1
<1> QED
  BY <1>1, <1>2, <1>3, <1>4 DEF StackOf, st

LEMMA StackOff ==
  ASSUME NEW L, IsSequence(L), NEW fr, StackOf(L \o <<fr>>)
  PROVE  Suspended(L, fr.fn) /\ FrameInv(fr) /\ Stands(fr)
<1> DEFINE st == L \o <<fr>>
<1>1. /\ IsSequence(st) /\ Len(st) = Len(L) + 1 /\ Len(L) \in Nat
      /\ st[Len(L) + 1] = fr /\ \A i \in 1..Len(L) : st[i] = L[i]
  BY Pushed, SequenceDomain
<1>2. StackOf(st)
  OBVIOUS
<1> HIDE DEF st
<1>3. FrameInv(fr) /\ Stands(fr)
  BY <1>1, <1>2 DEF StackOf
<1>4. ASSUME NEW n \in 1..Len(L)
      PROVE  /\ FrameInv(L[n]) /\ Waits(L[n])
             /\ n < Len(L) => L[n + 1].fn = Callee(L[n])
             /\ n = Len(L) => fr.fn = Callee(L[n])
  <2>1. n \in 1..Len(st) /\ n < Len(st) /\ st[n] = L[n]
    BY <1>1
  <2>2. FrameInv(L[n]) /\ Waits(L[n]) /\ st[n + 1].fn = Callee(L[n])
    BY <1>2, <2>1 DEF StackOf
  <2>3. n < Len(L) => st[n + 1] = L[n + 1]
    BY <1>1
  <2>4. n = Len(L) => st[n + 1] = fr
    BY <1>1
  <2> QED
    BY <2>2, <2>3, <2>4
<1> QED
  BY <1>3, <1>4 DEF Suspended

LEMMA SuspendedOn ==
  ASSUME NEW L, NEW c, Suspended(L, c.fn), FrameInv(c), Waits(c)
  PROVE  Suspended(L \o <<c>>, Callee(c))
<1> DEFINE st == L \o <<c>>
<1>1. /\ IsSequence(st) /\ Len(st) = Len(L) + 1 /\ Len(L) \in Nat
      /\ st[Len(L) + 1] = c /\ \A i \in 1..Len(L) : st[i] = L[i]
  BY Pushed, SequenceDomain DEF Suspended
<1> HIDE DEF st
<1>2. ASSUME NEW n \in 1..Len(st), n < Len(st)
      PROVE  FrameInv(st[n]) /\ Waits(st[n]) /\ st[n + 1].fn = Callee(st[n])
  <2>1. n \in 1..Len(L) /\ st[n] = L[n]
    BY <1>1, <1>2
  <2>2. CASE n < Len(L)
    <3>1. st[n + 1] = L[n + 1]
      BY <1>1, <2>1, <2>2
    <3> QED
      BY <2>1, <2>2, <3>1 DEF Suspended
  <2>3. CASE n = Len(L)
    BY <1>1, <2>1, <2>3 DEF Suspended
  <2> QED
    BY <1>1, <2>1, <2>2, <2>3
<1>4. \A n \in 1..Len(st) : n < Len(st) \/ (n = Len(st) /\ st[n] = c)
  BY <1>1
<1>5. \A n \in 1..Len(st) : ~(n < Len(st) /\ n = Len(st))
  BY <1>1
<1> QED
  BY <1>1, <1>2, <1>4, <1>5 DEF Suspended, st

LEMMA SuspendedOff ==
  ASSUME NEW L, IsSequence(L), NEW c, NEW f, Suspended(L \o <<c>>, f)
  PROVE  Suspended(L, c.fn) /\ FrameInv(c) /\ Waits(c) /\ f = Callee(c)
<1> DEFINE st == L \o <<c>>
<1>1. /\ IsSequence(st) /\ Len(st) = Len(L) + 1 /\ Len(L) \in Nat
      /\ st[Len(L) + 1] = c /\ \A i \in 1..Len(L) : st[i] = L[i]
  BY Pushed, SequenceDomain
<1>2. Suspended(st, f)
  OBVIOUS
<1> HIDE DEF st
<1>3. FrameInv(c) /\ Waits(c) /\ f = Callee(c)
  <2>1. Len(st) \in 1..Len(st) /\ st[Len(st)] = c
    BY <1>1
  <2> QED
    BY <1>2, <2>1 DEF Suspended
<1>4. ASSUME NEW n \in 1..Len(L)
      PROVE  /\ FrameInv(L[n]) /\ Waits(L[n])
             /\ n < Len(L) => L[n + 1].fn = Callee(L[n])
             /\ n = Len(L) => c.fn = Callee(L[n])
  <2>1. n \in 1..Len(st) /\ n < Len(st) /\ st[n] = L[n]
    BY <1>1
  <2>2. FrameInv(L[n]) /\ Waits(L[n]) /\ st[n + 1].fn = Callee(L[n])
    BY <1>2, <2>1 DEF Suspended
  <2>3. n < Len(L) => st[n + 1] = L[n + 1]
    BY <1>1
  <2>4. n = Len(L) => st[n + 1] = c
    BY <1>1
  <2> QED
    BY <2>2, <2>3, <2>4
<1> QED
  BY <1>3, <1>4 DEF Suspended

\* The Sierra frames before the one on top.
Prefix(L, f, n) == Below(L) \o Levels(f, n)

LEMMA SeenIs ==
  ASSUME NEW L, NEW f, Suspended(L, f), NEW fr, FrameInv(fr)
  PROVE  /\ IsSequence(Prefix(L, fr.fn, fr.depth))
         /\ Seen(L \o <<fr>>) = Prefix(L, fr.fn, fr.depth) \o <<Now(fr)>>
         /\ Below(L \o <<fr>>) = Prefix(L, fr.fn, fr.depth) \o <<Held(fr)>>
         /\ IsSequence(Below(L))
<1>1. IsSequence(L) /\ (\A n \in 1..Len(L) : L[n].depth \in Nat) /\ fr.depth \in Nat
  BY DEF Suspended, FrameInv
<1> QED
  BY <1>1, SeenPushed DEF Prefix

LEMMA ConcatEmpty ==
  ASSUME NEW a, IsSequence(a)
  PROVE  a \o <<>> = a
<1>1. PICK T : T = Elements(a)
  OBVIOUS
<1>2. \A i \in 1..Len(a) : a[i] \in T
  BY <1>1 DEF Elements
<1>3. a \in Seq(T)
  BY <1>2, SequenceIn
<1> QED
  BY <1>3

LEMMA NothingBelow ==
  ASSUME NEW f
  PROVE  Below(<<>>) = <<>> /\ Prefix(<<>>, f, 0) = <<>> /\ Suspended(<<>>, f)
<1> DEFINE h == [n \in DOMAIN <<>> |-> HeldOf(<<>>[n])]
<1>1. DOMAIN <<>> = 1..0 /\ 0 \in Nat
  BY Empty
<1>2. h = [n \in 1..0 |-> h[n]]
  BY <1>1
<1>3. IsSequence(h) /\ Len(h) = 0
  BY <1>1, <1>2, FunctionIsSequence
<1>4. h = <<>>
  BY <1>3, EmptyIs
<1>5. Below(<<>>) = <<>>
  BY <1>4, FlattenEmpty DEF Below
<1>6. Levels(f, 0) = <<>>
  BY LevelsAre
<1>7. Prefix(<<>>, f, 0) = <<>>
  BY <1>5, <1>6, Empty, EmptyConcat DEF Prefix
<1>8. IsSequence(<<>>) /\ \A n \in 1..Len(<<>>) : FALSE
  BY Empty
<1> QED
  BY <1>5, <1>7, <1>8 DEF Suspended

-----------------------------------------------------------------------------
(* A step of the stack.                                                    *)

SameCompiled == UNCHANGED <<program, compilerVars>>

LEMMA FrameSame ==
  ASSUME SameCompiled, NEW fr
  PROVE  /\ FrameInv(fr)' <=> FrameInv(fr)
         /\ Stands(fr)' <=> Stands(fr)
         /\ Waits(fr)' <=> Waits(fr)
         /\ Callee(fr)' = Callee(fr)
<1>1. program' = program /\ states' = states /\ code' = code /\ tailCall' = tailCall
  BY DEF SameCompiled, compilerVars
<1>2. FrameInv(fr)' <=> FrameInv(fr)
  BY <1>1 DEF FrameInv, IsFrame, Functions
<1>3. Stands(fr)' <=> Stands(fr)
  BY <1>1 DEF Stands, JoinsOf, Operand, Statement, Read
<1>4. Waits(fr)' <=> Waits(fr)
  BY <1>1 DEF Waits, IsCall, Statement
<1>5. Callee(fr)' = Callee(fr)
  BY <1>1 DEF Callee, Statement
<1> QED
  BY <1>2, <1>3, <1>4, <1>5

LEMMA StackSame ==
  ASSUME SameCompiled, NEW st, StackOf(st), stack' = st
  PROVE  StackInv'
<1>1. StackInv' <=> StackOf(stack)'
  BY DEF StackInv, StackOf, Callee
<1>2. StackOf(stack)' <=> StackOf(st)'
  BY DEF StackOf
<1>3. StackOf(st)' <=> StackOf(st)
  BY FrameSame DEF StackOf
<1> QED
  BY <1>1, <1>2, <1>3

LEMMA SeenSame ==
  ASSUME SameCompiled, NEW st, st # <<>>, stack' = st
  PROVE  SierraFrames' = Seen(st)
<1>0. program' = program /\ states' = states /\ tailCall' = tailCall
  BY DEF SameCompiled, compilerVars
<1>1. SierraFrames' = Seen(stack)'
  BY DEF SierraFrames, Seen
<1>2. Seen(stack)' = Seen(st)'
  BY DEF Seen
<1>3. Seen(st)' = Seen(st)
  BY <1>0 DEF Seen, SierraFramesOf, Position, Valuation, Read, Statement
<1> QED
  BY <1>1, <1>2, <1>3

\* The frame on top changes, under a stack that waits.
LEMMA Becomes ==
  ASSUME SameCompiled, NEW L, NEW fr, Suspended(L, fr.fn), FrameInv(fr), Stands(fr), stack' = L \o <<fr>>
  PROVE  StackInv' /\ SierraFrames' = Prefix(L, fr.fn, fr.depth) \o <<Now(fr)>>
<1>1. L \o <<fr>> # <<>>
  BY Pushed DEF Suspended
<1>2. StackOf(L \o <<fr>>)
  BY StackOn
<1>3. PICK st : st = L \o <<fr>>
  OBVIOUS
<1>4. StackInv' /\ SierraFrames' = Seen(st)
  BY <1>1, <1>2, <1>3, StackSame, SeenSame
<1>5. Seen(L \o <<fr>>) = Prefix(L, fr.fn, fr.depth) \o <<Now(fr)>>
  BY SeenIs
<1> QED
  BY <1>3, <1>4, <1>5

\* What a step starts from.
OnTop(L, f, fr) ==
  /\ ProgramInv /\ IsSequence(L) /\ stack = L \o <<fr>>
  /\ Suspended(L, f) /\ FrameInv(fr) /\ Stands(fr) /\ Runs(f, fr)
  /\ Frame = fr /\ Front(stack) = L /\ Len(stack) = Len(L) + 1
  /\ Block = code[f][fr.block] /\ End = OnlyEnd(f, fr.block)
  /\ IsSequence(Prefix(L, f, fr.depth))
  /\ SierraFrames = Prefix(L, f, fr.depth) \o <<Now(fr)>>

\* What is finished means what it should and verifies.
AllRun == \A g \in Functions : Means(g) /\ Verifies(g)

LEMMA Finished ==
  ASSUME MeaningInv, RunInv, pass = "run"
  PROVE  ProgramInv /\ AllRun
<1>1. ProgramInv /\ todo = <<>> /\ \A f \in Functions \ Elements(todo) : Means(f)
  BY DEF MeaningInv, CompilerInv
<1>2. Elements(<<>>) = {}
  BY Empty
<1>3. \A f \in Functions : Verifies(f)
  BY DEF RunInv
<1> QED
  BY <1>1, <1>2, <1>3 DEF AllRun

LEMMA TopFrame ==
  ASSUME MeaningInv, RunInv, pass = "run", stack # <<>>
  PROVE  \E L, fr : OnTop(L, fr.fn, fr)
<1>1. ProgramInv /\ AllRun
  BY Finished
<1>2. PICK L, fr : L = Front(stack) /\ fr = Last(stack)
  OBVIOUS
<1>3. StackOf(stack)
  BY DEF RunInv, StackInv, StackOf, Callee
<1>4. IsSequence(L) /\ stack = L \o <<fr>> /\ Len(stack) = Len(L) + 1
  BY <1>2, <1>3, Popped DEF StackOf
<1>5. Suspended(L, fr.fn) /\ FrameInv(fr) /\ Stands(fr)
  BY <1>3, <1>4, StackOff
<1>6. Runs(fr.fn, fr)
  BY <1>1, <1>5 DEF Runs, FrameInv, AllRun
<1>7. Frame = fr /\ Block = code[fr.fn][fr.block] /\ End = OnlyEnd(fr.fn, fr.block)
  BY <1>2 DEF Frame, Block, End, OnlyEnd
<1>8. SierraFrames = Seen(stack)
  BY DEF SierraFrames, Seen
<1>9. /\ IsSequence(Prefix(L, fr.fn, fr.depth))
      /\ Seen(L \o <<fr>>) = Prefix(L, fr.fn, fr.depth) \o <<Now(fr)>>
  BY <1>5, SeenIs
<1>10. OnTop(L, fr.fn, fr)
  BY <1>1, <1>2, <1>4, <1>5, <1>6, <1>7, <1>8, <1>9 DEF OnTop
<1> QED
  BY <1>10
-----------------------------------------------------------------------------
(* Steps of the Sierra machine, by the frames before and after.            *)

LEMMA SierraSequences ==
  ASSUME NEW s
  PROVE  Sierra!Last(s) = Last(s) /\ Sierra!Front(s) = Front(s)
BY DEF Sierra!Last, Last, Sierra!Front, Front

LEMMA SierraTop ==
  ASSUME NEW X, IsSequence(X), NEW at, NEW state, SierraFrames = X \o <<Place(at, state)>>
  PROVE  /\ Sierra!Top = Place(at, state) /\ Sierra!Top.at = at /\ Sierra!Top.state = state
         /\ SierraFrames # <<>> /\ Sierra!Front(SierraFrames) = X
         /\ Sierra!Taken = Sierra!TakeVars(state, Statement(at).args)
<1>1. PICK x : x = Place(at, state)
  OBVIOUS
<1>2. SierraFrames # <<>> /\ Front(SierraFrames) = X /\ Last(SierraFrames) = x
  BY <1>1, Pushed
<1>3. Sierra!Top = Place(at, state)
  BY <1>1, <1>2, SierraSequences DEF Sierra!Top
<1>4. Sierra!Top.at = at /\ Sierra!Top.state = state
  BY <1>3 DEF Place
<1> QED
  BY <1>2, <1>3, <1>4, SierraSequences DEF Sierra!Taken, Sierra!Statement, Statement

LEMMA InvokeIs ==
  ASSUME NEW X, IsSequence(X), NEW at, NEW state, SierraFrames = X \o <<Place(at, state)>>,
         ~IsReturn(at), ~IsCall(at), NEW out,
         out = Libfunc(Statement(at).fn, Sierra!TakeVars(state, Statement(at).args)),
         SierraFrames' = X \o <<Place(Target(at, out.branch),
                                      Sierra!PutVars(Sierra!Without(state, Statement(at).args),
                                                     ResultsOf(at, out.branch), out.results))>>,
         UNCHANGED <<program, input, answer>>
  PROVE  Sierra!Next
<1>1. /\ Sierra!Top.at = at /\ Sierra!Top.state = state
      /\ SierraFrames # <<>> /\ Sierra!Front(SierraFrames) = X
      /\ Sierra!Taken = Sierra!TakeVars(state, Statement(at).args)
  BY SierraTop
<1>2. Sierra!Invoke
  BY <1>1, Zenon DEF Sierra!Invoke, Sierra!IsReturn, Sierra!IsCall, Sierra!Statement,
              IsReturn, IsCall, Statement, Target, ResultsOf, Place
<1> QED
  BY <1>2 DEF Sierra!Next

LEMMA CallIs ==
  ASSUME NEW X, IsSequence(X), NEW at, NEW state, SierraFrames = X \o <<Place(at, state)>>,
         ~IsReturn(at), IsCall(at),
         SierraFrames' = (X \o <<Place(at, Sierra!Without(state, Statement(at).args))>>)
                           \o <<Sierra!NewFrame(Statement(at).fn, Sierra!TakeVars(state, Statement(at).args))>>,
         UNCHANGED <<program, input, answer>>
  PROVE  Sierra!Next
<1>1. /\ Sierra!Top.at = at /\ Sierra!Top.state = state /\ Sierra!Top = Place(at, state)
      /\ SierraFrames # <<>> /\ Sierra!Front(SierraFrames) = X
      /\ Sierra!Taken = Sierra!TakeVars(state, Statement(at).args)
  BY SierraTop
<1>2. PICK a, b : /\ a = Place(at, Sierra!Without(state, Statement(at).args))
                  /\ b = Sierra!NewFrame(Statement(at).fn, Sierra!TakeVars(state, Statement(at).args))
  OBVIOUS
<1>3. [Sierra!Top EXCEPT !.state = Sierra!Without(Sierra!Top.state, Statement(at).args)] = a
  BY <1>1, <1>2 DEF Place
<1>4. SierraFrames' = X \o <<a, b>>
  <2>1. SierraFrames' = (X \o <<a>>) \o <<b>>
    BY <1>2
  <2>2. IsSequence(<<a>>) /\ IsSequence(<<b>>)
    BY OneElement
  <2>3. (X \o <<a>>) \o <<b>> = X \o (<<a>> \o <<b>>)
    BY <2>2, Associates
  <2>4. <<a>> \o <<b>> = <<a, b>>
    <3>1. IsSequence(<<a, b>>) /\ Len(<<a, b>>) = 2 /\ <<a, b>>[1] = a /\ <<a, b>>[2] = b
      BY DEF IsSequence
    <3>2. PICK s, t : s = <<a, b>> /\ t = <<a>> \o <<b>>
      OBVIOUS
    <3>3. IsSequence(t) /\ Len(t) = 2 /\ t[1] = a /\ t[2] = b
      BY <3>2, OneElement, Pushed
    <3>4. IsSequence(s) /\ Len(s) = 2 /\ s[1] = a /\ s[2] = b
      BY <3>1, <3>2
    <3>5. \A i \in 1..2 : i = 1 \/ i = 2
      OBVIOUS
    <3>6. s = t
      BY <3>3, <3>4, <3>5, SameSequence
    <3> QED
      BY <3>2, <3>6
  <2> QED
    BY <2>1, <2>3, <2>4
<1>5. Sierra!Call
  BY <1>1, <1>2, <1>3, <1>4 DEF Sierra!Call, Sierra!IsReturn, Sierra!IsCall, Sierra!Statement,
                             IsReturn, IsCall, Statement
<1> QED
  BY <1>5 DEF Sierra!Next

\* A sequence that ends with two elements.
EndsWith(s, X, c, d) == IsSequence(X) /\ s = (X \o <<c>>) \o <<d>>

LEMMA EndsWithTwo ==
  ASSUME NEW s, NEW X, NEW c, NEW d, EndsWith(s, X, c, d)
  PROVE  IsSequence(s) /\ Len(s) = Len(X) + 2 /\ s[Len(s) - 1] = c /\ SubSeq(s, 1, Len(s) - 2) = X
<1>1. PICK t : t = X \o <<c>>
  OBVIOUS
<1>2. IsSequence(X) /\ s = t \o <<d>>
  BY <1>1 DEF EndsWith
<1>3. IsSequence(s) /\ Len(s) = Len(X) + 2
  <2>1. IsSequence(t) /\ Len(t) = Len(X) + 1
    BY <1>1, <1>2, Pushed
  <2>2. IsSequence(s) /\ Len(s) = Len(t) + 1
    BY <1>2, <2>1, Pushed
  <2>3. Len(X) \in Nat
    BY <1>2, SequenceDomain
  <2>4. Len(s) = Len(X) + 2
    <3>1. Len(t) = Len(X) + 1 /\ Len(s) = Len(t) + 1
      BY <2>1, <2>2, Zenon
    <3> QED
      BY <2>3, <3>1
  <2> QED
    BY <2>2, <2>4, Zenon
<1>4. s[Len(s) - 1] = c
  BY <1>1, <1>2, TwoPushed
<1>5. SubSeq(s, 1, Len(s) - 2) = X
  BY <1>1, <1>2, TwoPushed, SMTT(30)
<1> QED
  BY <1>3, <1>4, <1>5

LEMMA ReturnIs ==
  ASSUME NEW X, IsSequence(X), NEW below, NEW rest, NEW at, NEW state,
         SierraFrames = (X \o <<Place(below, rest)>>) \o <<Place(at, state)>>, IsReturn(at),
         SierraFrames' = X \o <<Place(Target(below, 1),
                                      Sierra!PutVars(rest, ResultsOf(below, 1),
                                                     Sierra!TakeVars(state, Statement(at).args)))>>,
         UNCHANGED <<program, input, answer>>
  PROVE  Sierra!Next
<1>1. PICK c, d : c = Place(below, rest) /\ d = Place(at, state)
  OBVIOUS
<1>2. IsSequence(X \o <<c>>)
  BY Pushed
<1>3. SierraFrames = (X \o <<c>>) \o <<d>>
  BY <1>1
<1>4. /\ IsSequence(SierraFrames) /\ Len(SierraFrames) = Len(X) + 2
      /\ SierraFrames[Len(SierraFrames) - 1] = c /\ SubSeq(SierraFrames, 1, Len(SierraFrames) - 2) = X
  <2>1. PICK s : s = SierraFrames
    OBVIOUS
  <2>2. EndsWith(s, X, c, d)
    BY <1>3, <2>1 DEF EndsWith
  <2>3. IsSequence(s) /\ Len(s) = Len(X) + 2 /\ s[Len(s) - 1] = c /\ SubSeq(s, 1, Len(s) - 2) = X
    BY <2>2, EndsWithTwo
  <2> QED
    BY <2>1, <2>3
<1>5. /\ Sierra!Top.at = at /\ SierraFrames # <<>>
      /\ Sierra!Taken = Sierra!TakeVars(state, Statement(at).args)
  <2>1. PICK Y : Y = X \o <<c>>
    OBVIOUS
  <2>2. IsSequence(Y) /\ SierraFrames = Y \o <<Place(at, state)>>
    BY <1>1, <1>2, <1>3, <2>1
  <2> QED
    BY <2>2, SierraTop
<1>6. Len(SierraFrames) # 1
  BY <1>4, SequenceDomain
<1>7. c.at = below /\ c.state = rest
  BY <1>1 DEF Place
<1>8. Sierra!Return
  BY <1>4, <1>5, <1>6, <1>7, Zenon DEF Sierra!Return, Sierra!IsReturn, Sierra!Statement, IsReturn, Statement,
                                Target, ResultsOf, Place
<1> QED
  BY <1>8 DEF Sierra!Next

LEMMA LastReturnIs ==
  ASSUME NEW at, NEW state, SierraFrames = <<Place(at, state)>>, IsReturn(at), SierraFrames' = <<>>,
         answer' = <<Sierra!TakeVars(state, Statement(at).args)>>, UNCHANGED <<program, input>>
  PROVE  Sierra!Next
<1>1. IsSequence(<<>>) /\ IsSequence(<<Place(at, state)>>) /\ Len(<<Place(at, state)>>) = 1
  BY Empty, OneElement
<1>2. SierraFrames = <<>> \o <<Place(at, state)>>
  BY <1>1, EmptyConcat
<1>3. /\ Sierra!Top.at = at /\ SierraFrames # <<>>
      /\ Sierra!Taken = Sierra!TakeVars(state, Statement(at).args)
  <2>1. PICK Y : Y = <<>>
    OBVIOUS
  <2>2. IsSequence(Y) /\ SierraFrames = Y \o <<Place(at, state)>>
    BY <1>1, <1>2, <2>1
  <2> QED
    BY <2>2, SierraTop
<1>4. Len(SierraFrames) = 1
  BY <1>1
<1>5. Sierra!Return
  BY <1>3, <1>4 DEF Sierra!Return, Sierra!IsReturn, Sierra!Statement, IsReturn, Statement
<1> QED
  BY <1>5 DEF Sierra!Next

-----------------------------------------------------------------------------
(* What the steps need besides.                                            *)

LEMMA Modulo ==
  ASSUME NEW a \in Nat, NEW b \in Nat, a < b
  PROVE  a % b = a /\ (a + b) % b = a
OBVIOUS

\* No variables.
LEMMA NoVariables ==
  ASSUME NEW state, NEW names, DOMAIN state \subseteq Range(names)
  PROVE  Sierra!Without(state, names) = <<>>
<1> DEFINE D == DOMAIN state \ Range(names)
           r == [v \in D |-> state[v]]
<1>1. Sierra!Without(state, names) = r
  BY WithoutIs
<1>2. D = 1..0
  OBVIOUS
<1>3. r = [v \in 1..0 |-> r[v]]
  BY <1>2
<1> HIDE DEF r
<1>4. IsSequence(r) /\ Len(r) = 0
  BY <1>3, FunctionIsSequence
<1> QED
  BY <1>1, <1>4, EmptyIs

\* A frame at a terminator other than a jump is at a statement, with its operands.
LEMMA AtStatement ==
  ASSUME ProgramInv, NEW f, NEW fr, Runs(f, fr), Stands(fr), OnlyEnd(f, fr.block).op # "br"
  PROVE  \E p \in DOMAIN states[f] :
           /\ fr.block = libfunc_block(p) /\ Operand(fr, p)
           /\ Ends(f, states[f], tailCall[f], LiveOf(f), JoinsOf(f), p, OnlyEnd(f, fr.block))
<1>0. f \in Functions /\ Means(f) /\ Verifies(f) /\ fr.fn = f
  BY DEF Runs
<1>1. ASSUME NEW p \in DOMAIN states[f], fr.block = libfunc_block(p)
      PROVE  Ends(f, states[f], tailCall[f], LiveOf(f), JoinsOf(f), p, OnlyEnd(f, fr.block))
  <2>1. OnlyEnd(f, fr.block) \in Elements(code[f][libfunc_block(p)].ends)
    BY <1>0, <1>1, EndIs DEF Means
  <2> QED
    BY <1>0, <1>1, <2>1, StatementMeans
<1>2. Written(f, code[f], states[f], tailCall[f], LiveOf(f), JoinsOf(f))
  BY <1>0 DEF Means
<1>3. fr.block \notin {pre_entry_block, entry_block}
  <2> SUFFICES ASSUME fr.block \in {pre_entry_block, entry_block} PROVE FALSE
    OBVIOUS
  <2>1. OnlyEnd(f, fr.block) \in Elements(code[f][fr.block].ends)
    BY <1>0, EndIs DEF Means
  <2> QED
    BY <1>2, <2>1 DEF Written, Operates
<1>4. ~(tailCall[f] # 0 /\ fr.block = cont_block(tailCall[f]))
  <2> SUFFICES ASSUME tailCall[f] # 0, fr.block = cont_block(tailCall[f]) PROVE FALSE
    OBVIOUS
  <2>1. OnlyEnd(f, fr.block) \in Elements(code[f][fr.block].ends)
    BY <1>0, EndIs DEF Means
  <2> QED
    BY <1>2, <2>1 DEF Written
<1>5. ASSUME NEW p \in JoinsOf(f), fr.block = landing_block(p) PROVE FALSE
  <2>1. OnlyEnd(f, fr.block) \in Elements(code[f][landing_block(p)].ends)
    BY <1>0, <1>5, EndIs DEF JoinsOf
  <2> QED
    BY <1>2, <1>5, <2>1 DEF Written, Operates
<1> QED
  BY <1>0, <1>1, <1>3, <1>4, <1>5 DEF Stands

\* There, the operands are the variables that the statement takes.
AtWork(L, f, fr, p) ==
  /\ OnTop(L, f, fr) /\ p \in DOMAIN states[f] /\ fr.block = libfunc_block(p)
  /\ Ends(f, states[f], tailCall[f], LiveOf(f), JoinsOf(f), p, End)
  /\ Now(fr) = Place(p, Valuation(fr, states[f][p]))
  /\ Operands = Sierra!TakeVars(Valuation(fr, states[f][p]), Statement(p).args)
  /\ IsSequence(Operands) /\ Len(Operands) = Len(Statement(p).args)
  /\ \A i \in DOMAIN Operands : Operands[i] = Read(fr, argument(libfunc_block(p), i))
  /\ p \in Stmts /\ p \in Nat \ {0} /\ Frame.block[2] = p

LEMMA Working ==
  ASSUME MeaningInv, RunInv, pass = "run", stack # <<>>, End.op # "br"
  PROVE  \E L, fr, p : AtWork(L, fr.fn, fr, p)
<1>1. PICK L, fr : OnTop(L, fr.fn, fr)
  BY TopFrame
<1>2. PICK f : f = fr.fn
  OBVIOUS
<1>3. /\ ProgramInv /\ Runs(f, fr) /\ Stands(fr) /\ End = OnlyEnd(f, fr.block)
      /\ Frame = fr /\ Block = code[f][fr.block]
  BY <1>1, <1>2 DEF OnTop
<1>4. PICK p \in DOMAIN states[f] :
        /\ fr.block = libfunc_block(p) /\ Operand(fr, p)
        /\ Ends(f, states[f], tailCall[f], LiveOf(f), JoinsOf(f), p, End)
  BY <1>3, AtStatement
<1>5. f \in Functions /\ Means(f) /\ fr.fn = f
  BY <1>3 DEF Runs
<1>6. Operands = ReadAll(fr, Arguments(fr.block, code[f][fr.block].params))
  BY <1>3 DEF Operands
<1>7. /\ Operands = Sierra!TakeVars(Valuation(fr, states[f][p]), Statement(p).args)
      /\ IsSequence(Operands) /\ Len(Operands) = Len(Statement(p).args)
      /\ \A i \in DOMAIN Operands : Operands[i] = Read(fr, argument(libfunc_block(p), i))
  <2>1. PICK values : values = Operands
    OBVIOUS
  <2>2. values = ReadAll(fr, Arguments(fr.block, code[f][fr.block].params))
    BY <1>6, <2>1
  <2>3. /\ values = Sierra!TakeVars(Valuation(fr, states[f][p]), Statement(p).args)
        /\ IsSequence(values) /\ Len(values) = Len(Statement(p).args)
        /\ \A i \in DOMAIN values : values[i] = Read(fr, argument(libfunc_block(p), i))
    BY <1>3, <1>4, <1>5, <2>2, OperandsAre
  <2> QED
    BY <2>1, <2>3
<1>8. Now(fr) = [at |-> p, state |-> Valuation(fr, states[fr.fn][p])]
  BY <1>4, Positions
<1>9. p \in Stmts /\ p \in Nat \ {0}
  BY <1>3, <1>4, <1>5, StatementMeans, StatementFacts
<1>10. Frame.block[2] = p
  BY <1>3, <1>4 DEF libfunc_block
<1>11. AtWork(L, fr.fn, fr, p)
  BY <1>1, <1>2, <1>4, <1>7, <1>8, <1>9, <1>10 DEF AtWork, Place
<1> QED
  BY <1>11
-----------------------------------------------------------------------------
(* The steps of compiled code.                                             *)

\* What is shown of each: the stack keeps its shape, and the Sierra machine takes a step or none.
Simulates == StackInv' /\ [Sierra!Next]_Sierra!vars

LEMMA BranchSimulates ==
  ASSUME MeaningInv, RunInv, SameCompiled, UNCHANGED input, Branch
  PROVE  Simulates
<1>1. PICK L, fr : OnTop(L, fr.fn, fr)
  BY TopFrame DEF Branch, Running
<1>2. PICK f, fr2 : f = fr.fn /\ fr2 = Jump(fr, End)
  OBVIOUS
<1>3. /\ ProgramInv /\ Suspended(L, f) /\ FrameInv(fr) /\ Stands(fr) /\ Runs(f, fr)
      /\ Frame = fr /\ Front(stack) = L /\ End = OnlyEnd(f, fr.block)
      /\ SierraFrames = Prefix(L, f, fr.depth) \o <<Now(fr)>>
  BY <1>1, <1>2 DEF OnTop
<1>4. End.op = "br" /\ stack' = L \o <<fr2>> /\ answer' = answer
  BY <1>2, <1>3 DEF Branch, Running
<1>5. Runs(f, fr2) /\ fr2.depth = fr.depth /\ Stands(fr2) /\ Now(fr2) = Now(fr)
  BY <1>2, <1>3, <1>4, BranchKeeps
<1>6. FrameInv(fr2) /\ fr2.fn = f
  BY <1>2, <1>3, <1>5 DEF FrameInv, Runs
<1>7. StackInv' /\ SierraFrames' = Prefix(L, f, fr2.depth) \o <<Now(fr2)>>
  BY <1>3, <1>4, <1>5, <1>6, Becomes
<1>8. SierraFrames' = SierraFrames
  BY <1>3, <1>5, <1>7
<1> QED
  BY <1>4, <1>7, <1>8 DEF Simulates, Sierra!vars, SameCompiled

\* A libfunc takes its branch with the results that the interpreter sees.
LEMMA EvaluateSimulates ==
  ASSUME MeaningInv, RunInv, WithinBounds, SameCompiled, UNCHANGED input, Evaluate
  PROVE  Simulates
<1>0. pass = "run" /\ stack # <<>> /\ End.op = "libfunc"
  BY DEF Evaluate, Running
<1>1. PICK L, fr, p : AtWork(L, fr.fn, fr, p)
  BY <1>0, Working
<1>2. PICK f, S, X, out : /\ f = fr.fn /\ S = states[f][p] /\ X = Prefix(L, f, fr.depth)
                          /\ out = Libfunc(End.fn, Operands)
  OBVIOUS
<1>3. /\ ProgramInv /\ Suspended(L, f) /\ FrameInv(fr) /\ Stands(fr) /\ Runs(f, fr)
      /\ Frame = fr /\ Front(stack) = L /\ IsSequence(X)
      /\ SierraFrames = X \o <<Now(fr)>>
      /\ p \in DOMAIN states[f] /\ Frame.block[2] = p
      /\ Ends(f, states[f], tailCall[f], LiveOf(f), JoinsOf(f), p, End)
      /\ Now(fr) = Place(p, Valuation(fr, S))
      /\ Operands = Sierra!TakeVars(Valuation(fr, S), Statement(p).args)
  BY <1>1, <1>2 DEF AtWork, OnTop
<1>4. /\ ~IsReturn(p) /\ p # tailCall[f] /\ ~IsCall(p) /\ End.fn = Statement(p).fn
      /\ DOMAIN End.branches = Branches(p)
      /\ \A n \in Branches(p) : Leads(states[f], tailCall[f], LiveOf(f), JoinsOf(f), p, n, End.branches[n])
  <2>1. PICK end : end = End
    OBVIOUS
  <2>2. Ends(f, states[f], tailCall[f], LiveOf(f), JoinsOf(f), p, end) /\ end.op = "libfunc"
    BY <1>0, <1>3, <2>1
  <2>3. /\ ~IsReturn(p) /\ p # tailCall[f] /\ ~IsCall(p) /\ end.fn = Statement(p).fn
        /\ DOMAIN end.branches = Branches(p)
        /\ \A n \in Branches(p) : Leads(states[f], tailCall[f], LiveOf(f), JoinsOf(f), p, n, end.branches[n])
    BY <2>2, EndOps
  <2> QED
    BY <2>1, <2>3
<1>5. out.branch \in Branches(p) /\ DOMAIN out.results = DOMAIN ResultsOf(p, out.branch)
  BY <1>0, <1>2, <1>3, <1>4 DEF WithinBounds, Running
<1>6. PICK n, values, jump, fr2 :
        /\ n = out.branch /\ values = out.results /\ jump = End.branches[n]
        /\ fr2 = Jump(Write(fr, Produced(p, n, values), values), jump)
  OBVIOUS
<1>7. stack' = L \o <<fr2>> /\ answer' = answer
  BY <1>2, <1>3, <1>6, Zenon DEF Evaluate, Produced
<1>8. /\ IsFrame(fr2) /\ fr2.fn = f /\ fr2.depth = fr.depth /\ Stands(fr2)
      /\ Now(fr2) = Place(Target(p, n),
                          Sierra!PutVars(Sierra!Without(Valuation(fr, S), Statement(p).args),
                                         ResultsOf(p, n), values))
  <2>1. f \in Functions /\ Means(f) /\ IsFrame(fr) /\ fr.fn = f
    BY <1>3 DEF Runs
  <2>2. n \in Branches(p) /\ DOMAIN values = DOMAIN ResultsOf(p, n)
    BY <1>5, <1>6
  <2>3. Leads(states[f], tailCall[f], LiveOf(f), JoinsOf(f), p, n, jump)
    BY <1>4, <1>6, <2>2
  <2> QED
    <3>1. /\ IsFrame(fr2) /\ fr2.fn = f /\ fr2.depth = fr.depth /\ Stands(fr2)
          /\ Now(fr2) = Place(Target(p, n),
                              Sierra!PutVars(Sierra!Without(Valuation(fr, states[f][p]), Statement(p).args),
                                             ResultsOf(p, n), values))
      BY <1>3, <1>4, <1>6, <2>1, <2>2, <2>3, Continues
    <3> QED
      BY <1>2, <3>1
<1>9. FrameInv(fr2)
  BY <1>2, <1>3, <1>8 DEF FrameInv
<1>10. StackInv' /\ SierraFrames' = Prefix(L, f, fr2.depth) \o <<Now(fr2)>>
  BY <1>3, <1>7, <1>8, <1>9, Becomes
<1>11. SierraFrames' = X \o <<Place(Target(p, out.branch),
                                    Sierra!PutVars(Sierra!Without(Valuation(fr, S), Statement(p).args),
                                                   ResultsOf(p, out.branch), out.results))>>
  BY <1>2, <1>6, <1>8, <1>10
<1>12. Sierra!Next
  <2>1. PICK state : state = Valuation(fr, S)
    OBVIOUS
  <2>2. out = Libfunc(Statement(p).fn, Sierra!TakeVars(state, Statement(p).args))
    BY <1>2, <1>3, <1>4, <2>1
  <2>3. SierraFrames = X \o <<Place(p, state)>>
    BY <1>3, <2>1
  <2>4. UNCHANGED <<program, input, answer>>
    BY <1>7 DEF SameCompiled
  <2> QED
    BY <1>3, <1>4, <1>11, <2>1, <2>2, <2>3, <2>4, InvokeIs
<1> QED
  BY <1>10, <1>12 DEF Simulates

\* What a frame that waits for its call holds.
LEMMA HeldIs ==
  ASSUME NEW fr, NEW p, fr.block = libfunc_block(p)
  PROVE  Held(fr) = Place(p, Sierra!Without(Valuation(fr, states[fr.fn][p]), Statement(p).args))
<1>1. PICK all : all = Valuation(fr, states[fr.fn][p])
  OBVIOUS
<1>2. Held(fr) = [at |-> p, state |-> [v \in DOMAIN all \ Taken(p) |-> all[v]]]
  BY <1>1, Positions
<1>3. Sierra!Without(all, Statement(p).args) = [v \in DOMAIN all \ Range(Statement(p).args) |-> all[v]]
  BY WithoutIs
<1> QED
  BY <1>1, <1>2, <1>3 DEF Place, Taken

\* A call: the callee finds what it is passed, be it in memory.
LEMMA CallSimulates ==
  ASSUME MeaningInv, RunInv, SameCompiled, UNCHANGED input, Call
  PROVE  Simulates
<1>0. pass = "run" /\ stack # <<>> /\ End.op = "call"
  BY DEF Call, Running
<1>1. PICK L, fr, p : AtWork(L, fr.fn, fr, p)
  BY <1>0, Working
<1>2. PICK f, S, X, values : f = fr.fn /\ S = states[f][p] /\ X = Prefix(L, f, fr.depth) /\ values = Operands
  OBVIOUS
<1>3. /\ ProgramInv /\ IsSequence(L) /\ Suspended(L, f) /\ FrameInv(fr) /\ Stands(fr) /\ Runs(f, fr)
      /\ Frame = fr /\ Front(stack) = L /\ Len(stack) = Len(L) + 1 /\ IsSequence(X)
      /\ SierraFrames = X \o <<Now(fr)>>
      /\ p \in DOMAIN states[f] /\ p \in Stmts /\ fr.block = libfunc_block(p)
      /\ Ends(f, states[f], tailCall[f], LiveOf(f), JoinsOf(f), p, End)
      /\ Now(fr) = Place(p, Valuation(fr, S))
      /\ values = Sierra!TakeVars(Valuation(fr, S), Statement(p).args)
      /\ IsSequence(values) /\ Len(values) = Len(Statement(p).args)
  BY <1>1, <1>2 DEF AtWork, OnTop
<1>4. ~IsReturn(p) /\ p # tailCall[f] /\ IsCall(p) /\ End.fn = Statement(p).fn
  <2>1. PICK end : end = End
    OBVIOUS
  <2>2. Ends(f, states[f], tailCall[f], LiveOf(f), JoinsOf(f), p, end) /\ end.op = "call"
    BY <1>0, <1>3, <2>1
  <2>3. ~IsReturn(p) /\ p # tailCall[f] /\ IsCall(p) /\ end.fn = Statement(p).fn
    BY <2>2, EndOps
  <2> QED
    BY <2>1, <2>3
<1>5. PICK g : g = Statement(p).fn
  OBVIOUS
<1>6. g \in Functions /\ Len(values) = Len(program.functions[g].params)
  BY <1>3, <1>4, <1>5, StatementFacts DEF IsCall, Functions
<1> DEFINE level == Len(stack)
           spilled == [i \in {i \in DOMAIN Operands : program.functions[End.fn].types[i] = "memory"} |->
                         Operands[i]]
           caller == [Frame EXCEPT !.slots = [s \in DOMAIN @ \cup DOMAIN spilled |->
                                                IF s \in DOMAIN spilled THEN spilled[s] ELSE @[s]]]
<1>7. PICK c, below, fr2 :
        /\ c = caller /\ below = L \o <<c>> /\ fr2 = Enter(g, Passed(g, values, level), below)
  BY Zenon
<1>8. stack' = below \o <<fr2>> /\ answer' = answer
  BY <1>2, <1>3, <1>4, <1>5, <1>7, Zenon DEF Call
<1>9. /\ IsFrame(c) /\ c.fn = f /\ c.block = fr.block /\ c.regs = fr.regs /\ c.depth = fr.depth
      /\ \A i \in DOMAIN values : program.functions[g].types[i] = "memory" => c.slots[i] = values[i]
  <2>1. IsFrame(fr)
    BY <1>3 DEF FrameInv
  <2>2. PICK slots : slots = [s \in DOMAIN fr.slots \cup DOMAIN spilled |->
                                IF s \in DOMAIN spilled THEN spilled[s] ELSE fr.slots[s]]
    BY Zenon
  <2>3. c = [fr EXCEPT !.slots = slots]
    BY <1>3, <1>7, <2>2, Zenon
  <2>4. /\ DOMAIN spilled = {i \in DOMAIN values : program.functions[g].types[i] = "memory"}
        /\ \A i \in DOMAIN spilled : spilled[i] = values[i]
    BY <1>2, <1>4, <1>5
  <2> HIDE DEF spilled
  <2>5. \A i \in DOMAIN values : program.functions[g].types[i] = "memory" => slots[i] = values[i]
    BY <2>2, <2>4
  <2> QED
    BY <1>2, <2>1, <2>3, <2>5 DEF IsFrame
<1> HIDE DEF caller, spilled
<1>10. FrameInv(c) /\ Waits(c) /\ Callee(c) = g
  <2>1. FrameInv(c)
    BY <1>2, <1>3, <1>9 DEF FrameInv
  <2>2. c.block[2] = p
    BY <1>3, <1>9 DEF libfunc_block
  <2> QED
    BY <1>3, <1>4, <1>5, <1>9, <2>1, <2>2 DEF Waits, Callee
<1>11. Suspended(below, g)
  <2>1. Suspended(L, c.fn)
    BY <1>3, <1>9
  <2> QED
    BY <1>7, <1>10, <2>1, SuspendedOn
<1>12. below[level] = c
  BY <1>3, <1>7, Pushed
<1>13. IsFrame(fr2) /\ fr2.fn = g /\ fr2.depth = 0 /\ Stands(fr2) /\ Now(fr2) = Sierra!NewFrame(g, values)
  <2>1. \A i \in DOMAIN values : program.functions[g].types[i] = "memory" => below[level].slots[i] = values[i]
    BY <1>9, <1>12
  <2> HIDE DEF level
  <2>2. InMemory(g, values, level, below)
    BY <1>3, <1>6, <2>1 DEF InMemory
  <2> QED
    BY <1>3, <1>6, <1>7, <2>2, Entered
<1>14. FrameInv(fr2)
  BY <1>6, <1>13, DepthAssumption DEF FrameInv
<1>15. StackInv' /\ SierraFrames' = Prefix(below, g, 0) \o <<Now(fr2)>>
  BY <1>8, <1>11, <1>13, <1>14, Becomes
<1>16. Prefix(below, g, 0) = X \o <<Held(c)>>
  <2>1. Below(L \o <<c>>) = Prefix(L, c.fn, c.depth) \o <<Held(c)>>
    BY <1>3, <1>10, SeenIs
  <2>2. Below(below) = X \o <<Held(c)>>
    BY <1>2, <1>7, <1>9, <2>1
  <2>3. IsSequence(Below(below)) /\ Levels(g, 0) = <<>>
    BY <1>3, <2>2, Pushed, LevelsAre
  <2> QED
    BY <2>2, <2>3, ConcatEmpty DEF Prefix
<1>17. Held(c) = Place(p, Sierra!Without(Valuation(fr, S), Statement(p).args))
  <2>1. c.block = libfunc_block(p)
    BY <1>3, <1>9
  <2>2. Held(c) = Place(p, Sierra!Without(Valuation(c, states[c.fn][p]), Statement(p).args))
    BY <2>1, HeldIs
  <2>3. Valuation(c, states[c.fn][p]) = Valuation(fr, S)
    BY <1>2, <1>9 DEF Valuation, Read
  <2> QED
    BY <2>2, <2>3
<1>18. Sierra!Next
  <2>1. PICK state : state = Valuation(fr, S)
    OBVIOUS
  <2>2. SierraFrames = X \o <<Place(p, state)>>
    BY <1>3, <2>1
  <2>3. SierraFrames' = (X \o <<Place(p, Sierra!Without(state, Statement(p).args))>>)
                          \o <<Sierra!NewFrame(Statement(p).fn, Sierra!TakeVars(state, Statement(p).args))>>
    BY <1>3, <1>5, <1>13, <1>15, <1>16, <1>17, <2>1
  <2>4. UNCHANGED <<program, input, answer>>
    BY <1>8 DEF SameCompiled
  <2> QED
    BY <1>3, <1>4, <2>2, <2>3, <2>4, CallIs
<1> QED
  BY <1>15, <1>18 DEF Simulates

\* The jump of a tail call, or of a return inside a loop, with the depth that goes with it.
AtDepth(fr, d) == [fr EXCEPT !.depth = d]

LEMMA Lowered ==
  ASSUME NEW fr, IsFrame(fr), NEW d, NEW mid, mid = AtDepth(fr, d),
         NEW end, IsSequence(end.with), NEW fr2, fr2 = Jump(mid, end)
  PROVE  /\ IsFrame(fr2) /\ fr2.fn = fr.fn /\ fr2.block = end.to /\ fr2.depth = d
         /\ \A i \in DOMAIN end.with : Read(fr2, argument(end.to, i)) = Read(fr, end.with[i])
<1>1. PICK values, block : values = ReadAll(mid, end.with) /\ block = end.to
  OBVIOUS
<1>2. IsFrame(mid) /\ mid.fn = fr.fn /\ mid.depth = d /\ mid.regs = fr.regs
  BY DEF IsFrame, AtDepth
<1>3. DOMAIN values = DOMAIN end.with /\ \A i \in DOMAIN end.with : values[i] = Read(fr, end.with[i])
  BY <1>1, <1>2 DEF ReadAll, Read
<1>4. IsSequence(values)
  <2>1. Len(end.with) \in Nat /\ DOMAIN end.with = 1..Len(end.with)
    BY SequenceDomain
  <2>2. values = [i \in 1..Len(end.with) |-> values[i]]
    BY <1>1, <2>1 DEF ReadAll
  <2> QED
    BY <2>1, <2>2, FunctionIsSequence
<1>5. fr2 = JumpWith(mid, block, values)
  BY <1>1 DEF Jump
<1>6. /\ IsFrame(fr2) /\ fr2.fn = mid.fn /\ fr2.block = block /\ fr2.depth = mid.depth
      /\ \A i \in DOMAIN values : Read(fr2, argument(block, i)) = values[i]
  BY <1>2, <1>4, <1>5, JumpReads
<1> QED
  BY <1>1, <1>2, <1>3, <1>6

\* A tail call: one more frame waits at it, holding nothing.
LEMMA GoDeeperSimulates ==
  ASSUME MeaningInv, RunInv, WithinBounds, SameCompiled, UNCHANGED input, GoDeeper
  PROVE  Simulates
<1>0. pass = "run" /\ stack # <<>> /\ End.op = "deeper"
  BY DEF GoDeeper, Running
<1>1. PICK L, fr, p : AtWork(L, fr.fn, fr, p)
  BY <1>0, Working
<1>2. PICK f, S, X, values, d : /\ f = fr.fn /\ S = states[f][p] /\ X = Prefix(L, f, fr.depth) /\ values = Operands
                                /\ d = fr.depth
  OBVIOUS
<1>3. /\ ProgramInv /\ IsSequence(L) /\ Suspended(L, f) /\ FrameInv(fr) /\ Stands(fr) /\ Runs(f, fr)
      /\ Frame = fr /\ Front(stack) = L /\ IsSequence(X)
      /\ SierraFrames = X \o <<Now(fr)>>
      /\ p \in DOMAIN states[f] /\ p \in Stmts /\ p # 0 /\ fr.block = libfunc_block(p)
      /\ Ends(f, states[f], tailCall[f], LiveOf(f), JoinsOf(f), p, End)
      /\ Now(fr) = Place(p, Valuation(fr, S))
      /\ values = Sierra!TakeVars(Valuation(fr, S), Statement(p).args)
      /\ IsSequence(values) /\ Len(values) = Len(Statement(p).args)
      /\ \A i \in DOMAIN values : values[i] = Read(fr, argument(libfunc_block(p), i))
  BY <1>1, <1>2 DEF AtWork, OnTop
<1>4. PICK end, mid, fr2 : end = End /\ mid = AtDepth(fr, d + 1) /\ fr2 = Jump(mid, end)
  OBVIOUS
<1>5. /\ ~IsReturn(p) /\ p = tailCall[f] /\ end.to = entry_block
      /\ end.with = Arguments(libfunc_block(p), Len(Statement(p).args))
  <2>2. Ends(f, states[f], tailCall[f], LiveOf(f), JoinsOf(f), p, end) /\ end.op = "deeper"
    BY <1>0, <1>3, <1>4
  <2> QED
    BY <2>2, EndOps
<1>6. /\ f \in Functions /\ Means(f) /\ IsFrame(fr) /\ fr.fn = f /\ d \in Nat
      /\ d + 1 \in Nat /\ d + 1 < DepthModulus /\ (d + 1) % DepthModulus = d + 1
  <2>1. f \in Functions /\ Means(f) /\ IsFrame(fr) /\ fr.fn = f /\ d \in Nat /\ DepthModulus \in Nat
    BY <1>2, <1>3, DepthAssumption DEF Runs, FrameInv
  <2>2. d + 1 < DepthModulus
    BY <1>0, <1>2, <1>3 DEF WithinBounds, Running
  <2>3. d + 1 \in Nat
    BY <2>1
  <2> QED
    BY <2>1, <2>2, <2>3, Modulo
<1>7. stack' = L \o <<fr2>> /\ answer' = answer
  <2>1. [fr EXCEPT !.depth = ((@) + 1) % DepthModulus] = AtDepth(fr, d + 1)
    BY <1>2, <1>6 DEF AtDepth
  <2> QED
    BY <1>3, <1>4, <2>1 DEF GoDeeper
<1>8. /\ IsCall(p) /\ Statement(p).fn = f /\ LiveOf(f)[p] = Taken(p)
      /\ Len(Statement(p).args) = Len(program.functions[f].params)
  BY <1>3, <1>5, <1>6, LoopMeans
<1>9. /\ IsSequence(end.with) /\ DOMAIN end.with = DOMAIN values
      /\ \A i \in DOMAIN values : end.with[i] = argument(libfunc_block(p), i)
  <2>1. DOMAIN values = 1..Len(Statement(p).args) /\ Len(Statement(p).args) \in Nat
    BY <1>3, SequenceDomain
  <2> QED
    BY <1>5, <2>1, FunctionIsSequence DEF Arguments
<1>10. /\ IsFrame(fr2) /\ fr2.fn = f /\ fr2.block = entry_block /\ fr2.depth = d + 1
       /\ \A i \in DOMAIN values : Read(fr2, argument(entry_block, i)) = values[i]
  <2>1. /\ IsFrame(fr2) /\ fr2.fn = fr.fn /\ fr2.block = end.to /\ fr2.depth = d + 1
        /\ \A i \in DOMAIN end.with : Read(fr2, argument(end.to, i)) = Read(fr, end.with[i])
    BY <1>4, <1>6, <1>9, Lowered
  <2> QED
    BY <1>3, <1>5, <1>6, <1>9, <2>1
<1>11. Now(fr2) = Sierra!NewFrame(f, values)
  <2>1. DOMAIN program.functions[f].params = DOMAIN values
    BY <1>3, <1>6, <1>8, FunctionFacts, SequenceDomain DEF Functions
  <2>2. /\ fr2.block \in {pre_entry_block, entry_block}
        /\ \A i \in DOMAIN program.functions[f].params : Read(fr2, argument(fr2.block, i)) = values[i]
    BY <1>10, <2>1
  <2> QED
    BY <1>3, <1>6, <1>10, <2>2, AtEntry
<1>12. FrameInv(fr2) /\ Stands(fr2)
  BY <1>3, <1>5, <1>6, <1>10 DEF FrameInv, Stands
<1>13. StackInv' /\ SierraFrames' = Prefix(L, f, d + 1) \o <<Now(fr2)>>
  BY <1>3, <1>7, <1>10, <1>12, Becomes
<1>14. Prefix(L, f, d + 1) = X \o <<Place(p, Sierra!Without(Valuation(fr, S), Statement(p).args))>>
  <2>1. Levels(f, d + 1) = Levels(f, d) \o <<[at |-> tailCall[f], state |-> <<>>]>> /\ IsSequence(Levels(f, d))
    BY <1>6, LevelsAre
  <2>2. IsSequence(Below(L))
    BY <1>3, SeenIs
  <2>3. Sierra!Without(Valuation(fr, S), Statement(p).args) = <<>>
    <3>1. PICK all : all = Valuation(fr, S)
      OBVIOUS
    <3>2. DOMAIN all = LiveOf(f)[p]
      BY <1>2, <1>3, <3>1 DEF Valuation, LiveOf
    <3>3. DOMAIN all \subseteq Range(Statement(p).args)
      BY <1>8, <3>2 DEF Taken
    <3> QED
      BY <3>1, <3>3, NoVariables
  <2>4. PICK x : x = [at |-> tailCall[f], state |-> <<>>]
    OBVIOUS
  <2>5. Below(L) \o (Levels(f, d) \o <<x>>) = (Below(L) \o Levels(f, d)) \o <<x>>
    <3>1. IsSequence(<<x>>)
      BY OneElement
    <3>2. PICK a, b, c : a = Below(L) /\ b = Levels(f, d) /\ c = <<x>>
      OBVIOUS
    <3>3. (a \o b) \o c = a \o (b \o c)
      BY <2>1, <2>2, <3>1, <3>2, Associates
    <3> QED
      BY <3>2, <3>3
  <2>6. x = Place(p, Sierra!Without(Valuation(fr, S), Statement(p).args))
    BY <1>5, <2>3, <2>4 DEF Place
  <2> QED
    BY <1>2, <2>1, <2>4, <2>5, <2>6 DEF Prefix
<1>15. Sierra!Next
  <2>1. PICK state : state = Valuation(fr, S)
    OBVIOUS
  <2>2. SierraFrames = X \o <<Place(p, state)>>
    BY <1>3, <2>1
  <2>3. SierraFrames' = (X \o <<Place(p, Sierra!Without(state, Statement(p).args))>>)
                          \o <<Sierra!NewFrame(Statement(p).fn, Sierra!TakeVars(state, Statement(p).args))>>
    BY <1>3, <1>8, <1>11, <1>13, <1>14, <2>1
  <2>4. UNCHANGED <<program, input, answer>>
    BY <1>7 DEF SameCompiled
  <2> QED
    BY <1>3, <1>5, <1>8, <2>2, <2>3, <2>4, CallIs
<1> QED
  BY <1>13, <1>15 DEF Simulates

\* No frame is left: no Sierra frame is.
LEMMA StackEnds ==
  ASSUME stack' = <<>>, answer' # <<>>
  PROVE  StackInv' /\ SierraFrames' = <<>>
<1>1. IsSequence(<<>>) /\ \A n \in 1..Len(<<>>) : FALSE
  BY Empty
<1>2. StackInv'
  BY <1>1 DEF StackInv
<1>3. SierraFrames' = <<>>
  BY DEF SierraFrames, NoAnswer
<1> QED
  BY <1>2, <1>3

\* A return to a caller: its results are those of the call.
LEMMA LeaveSimulates ==
  ASSUME MeaningInv, RunInv, pass = "run", SameCompiled, UNCHANGED input,
         NEW L, NEW fr, NEW p, AtWork(L, fr.fn, fr, p), IsReturn(p), fr.depth = 0, Leave(Operands)
  PROVE  Simulates
<1>1. PICK f, S, values : f = fr.fn /\ S = states[f][p] /\ values = Operands
  OBVIOUS
<1>2. /\ ProgramInv /\ IsSequence(L) /\ Suspended(L, f) /\ FrameInv(fr) /\ Runs(f, fr)
      /\ stack = L \o <<fr>> /\ Len(stack) = Len(L) + 1
      /\ SierraFrames = Prefix(L, f, 0) \o <<Now(fr)>>
      /\ p \in DOMAIN states[f] /\ Now(fr) = Place(p, Valuation(fr, S))
      /\ values = Sierra!TakeVars(Valuation(fr, S), Statement(p).args)
      /\ IsSequence(values) /\ Len(values) = Len(Statement(p).args) /\ Len(L) \in Nat
  BY <1>1, SequenceDomain DEF AtWork, OnTop
<1>3. f \in Functions /\ Means(f) /\ Len(values) = Len(program.functions[f].rets)
  BY <1>2, StatementMeans DEF Runs
<1>4. CASE Len(stack) = 1
  <2>1. L = <<>>
    BY <1>2, <1>4, EmptyIs
  <2>2. Prefix(L, f, 0) = <<>>
    BY <2>1, NothingBelow
  <2>3. SierraFrames = <<Now(fr)>>
    BY <1>2, <2>2, OneElement, EmptyConcat
  <2>4. stack' = <<>> /\ answer' = <<values>>
    BY <1>1, <1>4 DEF Leave
  <2>5. answer' # <<>>
    BY <2>4
  <2>6. StackInv' /\ SierraFrames' = <<>>
    BY <2>4, <2>5, StackEnds
  <2>7. Sierra!Next
    <3>1. PICK state : state = Valuation(fr, S)
      OBVIOUS
    <3>2. SierraFrames = <<Place(p, state)>> /\ answer' = <<Sierra!TakeVars(state, Statement(p).args)>>
      BY <1>2, <2>3, <2>4, <3>1
    <3>3. UNCHANGED <<program, input>>
      BY DEF SameCompiled
    <3> QED
      BY <2>6, <3>2, <3>3, LastReturnIs
  <2> QED
    BY <2>6, <2>7 DEF Simulates
<1>5. CASE Len(stack) # 1
  <2>1. L # <<>>
    BY <1>2, <1>5, Empty
  <2>2. PICK K, c : K = Front(L) /\ c = Last(L)
    OBVIOUS
  <2>3. IsSequence(K) /\ L = K \o <<c>>
    BY <1>2, <2>1, <2>2, Popped
  <2>4. Suspended(K, c.fn) /\ FrameInv(c) /\ Waits(c) /\ f = Callee(c)
    BY <1>2, <2>3, SuspendedOff
  <2>5. SubSeq(stack, 1, Len(stack) - 2) = K /\ stack[Len(stack) - 1] = c
    <3>1. PICK s : s = stack
      OBVIOUS
    <3>2. EndsWith(s, K, c, fr)
      BY <1>2, <2>3, <3>1 DEF EndsWith
    <3>3. s[Len(s) - 1] = c /\ SubSeq(s, 1, Len(s) - 2) = K
      BY <3>2, EndsWithTwo
    <3> QED
      BY <3>1, <3>3
  <2>6. PICK g, X : g = c.fn /\ X = Prefix(K, g, c.depth)
    OBVIOUS
  <2>7. IsSequence(X) /\ Below(L) = X \o <<Held(c)>>
    <3>1. /\ IsSequence(Prefix(K, c.fn, c.depth))
          /\ Below(K \o <<c>>) = Prefix(K, c.fn, c.depth) \o <<Held(c)>>
      BY <2>4, SeenIs
    <3>2. Below(L) = Below(K \o <<c>>)
      BY <2>3, Zenon
    <3>3. X = Prefix(K, c.fn, c.depth)
      BY <2>6
    <3> QED
      BY <3>1, <3>2, <3>3, Zenon
  <2>8. SierraFrames = (X \o <<Held(c)>>) \o <<Now(fr)>>
    <3>1. IsSequence(Below(L)) /\ Levels(f, 0) = <<>>
      <4>1. IsSequence(X \o <<Held(c)>>)
        BY <2>7, Pushed
      <4>2. IsSequence(Below(L))
        BY <2>7, <4>1, Zenon
      <4>3. Levels(f, 0) = <<>>
        BY LevelsAre
      <4> QED
        BY <4>2, <4>3
    <3>2. Prefix(L, f, 0) = X \o <<Held(c)>>
      BY <2>7, <3>1, ConcatEmpty DEF Prefix
    <3> QED
      BY <1>2, <3>2
  <2>9. PICK q \in DOMAIN states[g] : c.block = libfunc_block(q) /\ IsCall(q) /\ q # tailCall[g]
    BY <2>4, <2>6 DEF Waits
  <2>10. c.block[2] = q /\ Statement(q).fn = f
    BY <2>4, <2>9 DEF libfunc_block, Callee
  <2>11. g \in Functions /\ Means(g) /\ Verifies(g) /\ IsFrame(c)
    BY <2>4, <2>6, Finished DEF AllRun, FrameInv
  <2>12. q \in Stmts
    BY <1>2, <2>9, <2>11, StatementMeans
  <2>13. 1 \in Branches(q) /\ Len(ResultsOf(q, 1)) = Len(values) /\ DOMAIN values = DOMAIN ResultsOf(q, 1)
    <3>1. Len(Statement(q).branches) = 1 /\ IsSequence(Statement(q).branches)
      BY <1>2, <2>9, <2>12, StatementFacts
    <3>2. 1 \in Branches(q)
      BY <3>1, SequenceDomain DEF Branches
    <3>3. IsSequence(ResultsOf(q, 1))
      BY <1>2, <2>12, <3>2, StatementFacts DEF Branches, ResultsOf
    <3>4. Len(ResultsOf(q, 1)) = Len(values)
      BY <1>2, <1>3, <2>9, <2>10, <2>12, ForwardFacts
    <3> QED
      BY <1>2, <3>2, <3>3, <3>4, SequenceDomain
  <2>14. PICK end, jump : end = OnlyEnd(g, c.block) /\ jump = end.branches[1]
    OBVIOUS
  <2>15. Leads(states[g], tailCall[g], LiveOf(g), JoinsOf(g), q, 1, jump)
    <3>1. end \in Elements(code[g][libfunc_block(q)].ends)
      BY <2>9, <2>11, <2>14, EndIs DEF Means
    <3>2. Ends(g, states[g], tailCall[g], LiveOf(g), JoinsOf(g), q, end)
      BY <1>2, <2>9, <2>11, <3>1, StatementMeans
    <3>3. ~IsReturn(q)
      BY <1>2, <2>9, <2>12, StatementFacts
    <3>4. end.op \in {"call", "libfunc"}
      BY <2>9, <3>2, <3>3 DEF Ends
    <3>5. \A n \in Branches(q) : Leads(states[g], tailCall[g], LiveOf(g), JoinsOf(g), q, n, end.branches[n])
      BY <3>2, <3>4, EndOps
    <3> QED
      BY <2>13, <2>14, <3>5
  <2>16. PICK fr2 : fr2 = Jump(Write(c, Produced(q, 1, values), values), jump)
    OBVIOUS
  <2>17. stack' = K \o <<fr2>> /\ answer' = answer
    BY <1>1, <1>5, <2>5, <2>6, <2>10, <2>14, <2>16, Zenon DEF Leave, Produced, OnlyEnd
  <2>18. /\ IsFrame(fr2) /\ fr2.fn = g /\ fr2.depth = c.depth /\ Stands(fr2)
         /\ Now(fr2) = Place(Target(q, 1),
                             Sierra!PutVars(Sierra!Without(Valuation(c, states[g][q]), Statement(q).args),
                                            ResultsOf(q, 1), values))
    <3>1. c.fn = g /\ 1 \in Branches(q) /\ DOMAIN values = DOMAIN ResultsOf(q, 1)
      BY <2>6, <2>13
    <3> QED
      BY <1>2, <2>9, <2>11, <2>15, <2>16, <3>1, Continues
  <2>19. FrameInv(fr2)
    BY <2>4, <2>6, <2>18 DEF FrameInv
  <2>20. StackInv' /\ SierraFrames' = X \o <<Now(fr2)>>
    <3>1. Suspended(K, fr2.fn)
      BY <2>4, <2>6, <2>18
    <3>2. StackInv' /\ SierraFrames' = Prefix(K, fr2.fn, fr2.depth) \o <<Now(fr2)>>
      BY <2>17, <2>18, <2>19, <3>1, Becomes
    <3> QED
      BY <2>6, <2>18, <3>2
  <2>21. Held(c) = Place(q, Sierra!Without(Valuation(c, states[g][q]), Statement(q).args))
    BY <2>6, <2>9, HeldIs
  <2>22. Sierra!Next
    <3>1. PICK state, rest : /\ state = Valuation(fr, S)
                             /\ rest = Sierra!Without(Valuation(c, states[g][q]), Statement(q).args)
      OBVIOUS
    <3>2. SierraFrames = (X \o <<Place(q, rest)>>) \o <<Place(p, state)>>
      BY <1>2, <2>8, <2>21, <3>1
    <3>3. SierraFrames' = X \o <<Place(Target(q, 1),
                                       Sierra!PutVars(rest, ResultsOf(q, 1),
                                                      Sierra!TakeVars(state, Statement(p).args)))>>
      BY <1>2, <2>18, <2>20, <3>1
    <3>4. UNCHANGED <<program, input, answer>>
      BY <2>17 DEF SameCompiled
    <3> QED
      BY <2>7, <3>2, <3>3, <3>4, ReturnIs
  <2> QED
    BY <2>20, <2>22 DEF Simulates
<1> QED
  BY <1>4, <1>5

LEMMA ReturnSimulates ==
  ASSUME MeaningInv, RunInv, SameCompiled, UNCHANGED input, Return
  PROVE  Simulates
<1>1. pass = "run" /\ stack # <<>> /\ End.op = "return" /\ Leave(Operands)
  BY DEF Return, Running
<1>2. PICK L, fr, p : AtWork(L, fr.fn, fr, p)
  BY <1>1, Working
<1>3. PICK end, f : end = End /\ f = fr.fn
  OBVIOUS
<1>4. Ends(f, states[f], tailCall[f], LiveOf(f), JoinsOf(f), p, end) /\ end.op = "return" /\ FrameInv(fr)
  BY <1>1, <1>2, <1>3 DEF AtWork, OnTop
<1>5. IsReturn(p) /\ tailCall[f] = 0
  BY <1>4, EndOps
<1>6. fr.depth = 0
  BY <1>3, <1>4, <1>5 DEF FrameInv
<1> QED
  BY <1>1, <1>2, <1>5, <1>6, LeaveSimulates

\* The return of a loop at a positive depth: the frame that waits for the tail call goes on.
LEMMA GoShallowerSimulates ==
  ASSUME MeaningInv, RunInv, SameCompiled, UNCHANGED input, GoShallower
  PROVE  Simulates
<1>0. pass = "run" /\ stack # <<>> /\ End.op = "shallower"
  BY DEF GoShallower, Running
<1>1. PICK L, fr, p : AtWork(L, fr.fn, fr, p)
  BY <1>0, Working
<1>2. PICK f, S, values, d, end, loop :
        f = fr.fn /\ S = states[f][p] /\ values = Operands /\ d = fr.depth /\ end = End /\ loop = tailCall[f]
  OBVIOUS
<1>3. /\ ProgramInv /\ IsSequence(L) /\ Suspended(L, f) /\ FrameInv(fr) /\ Stands(fr) /\ Runs(f, fr)
      /\ Frame = fr /\ Front(stack) = L /\ end = OnlyEnd(f, fr.block)
      /\ SierraFrames = Prefix(L, f, d) \o <<Now(fr)>>
      /\ p \in DOMAIN states[f] /\ fr.block = libfunc_block(p)
      /\ Ends(f, states[f], loop, LiveOf(f), JoinsOf(f), p, end)
      /\ Now(fr) = Place(p, Valuation(fr, S))
      /\ values = Sierra!TakeVars(Valuation(fr, S), Statement(p).args)
      /\ IsSequence(values) /\ Len(values) = Len(Statement(p).args)
      /\ \A i \in DOMAIN values : values[i] = Read(fr, argument(libfunc_block(p), i))
  BY <1>1, <1>2 DEF AtWork, OnTop
<1>4. /\ IsReturn(p) /\ loop # 0 /\ end.to = cont_block(loop)
      /\ \E kept \in SUBSET DOMAIN program.functions[f].rets :
           end.with = [i \in DOMAIN Sorted(kept) |-> argument(libfunc_block(p), Sorted(kept)[i])]
  <2>1. end.op = "shallower"
    BY <1>0, <1>2
  <2> QED
    BY <1>3, <2>1, EndOps
<1>5. CASE d = 0
  <2>1. Leave(Operands)
    BY <1>2, <1>3, <1>5 DEF GoShallower
  <2> QED
    BY <1>0, <1>1, <1>2, <1>4, <1>5, <2>1, LeaveSimulates, ZenonT(60)
<1>6. CASE d # 0
  <2>1. /\ f \in Functions /\ Means(f) /\ Verifies(f) /\ IsFrame(fr) /\ fr.fn = f
        /\ d \in Nat \ {0} /\ d < DepthModulus /\ DepthModulus \in Nat
    BY <1>2, <1>3, <1>6, DepthAssumption DEF Runs, FrameInv
  <2>2. d - 1 \in Nat /\ d - 1 < DepthModulus /\ (d + DepthModulus - 1) % DepthModulus = d - 1
    <3>1. d - 1 \in Nat /\ d - 1 < DepthModulus
      BY <2>1
    <3>2. ((d - 1) + DepthModulus) % DepthModulus = d - 1
      BY <2>1, <3>1, Modulo
    <3>3. d + DepthModulus - 1 = (d - 1) + DepthModulus
      BY <2>1
    <3> QED
      BY <3>1, <3>2, <3>3
  <2>3. PICK mid, fr2 : mid = AtDepth(fr, d - 1) /\ fr2 = Jump(mid, end)
    OBVIOUS
  <2>4. stack' = L \o <<fr2>> /\ answer' = answer
    <3>1. [fr EXCEPT !.depth = ((@) + DepthModulus - 1) % DepthModulus] = mid
      BY <1>2, <2>2, <2>3 DEF AtDepth
    <3> QED
      BY <1>2, <1>3, <1>6, <2>3, <3>1 DEF GoShallower
  <2>5. PICK n : n = Len(program.functions[f].rets)
    OBVIOUS
  <2>6. n \in Nat /\ DOMAIN program.functions[f].rets = 1..n
    BY <1>3, <2>1, <2>5, FunctionFacts, SequenceDomain DEF Functions
  <2>7. Len(values) = n /\ DOMAIN values = 1..n
    BY <1>3, <1>4, <2>1, <2>5, StatementMeans, SequenceDomain
  <2>8. /\ loop \in DOMAIN states[f] /\ Statement(loop).fn = f /\ 1 \in Branches(loop)
        /\ code[f][cont_block(loop)].params = n /\ Len(ResultsOf(loop, 1)) = n
    BY <1>2, <1>3, <1>4, <2>1, <2>5, LoopMeans
  <2>9. PICK kept \in SUBSET (1..n) :
          end.with = [i \in DOMAIN Sorted(kept) |-> argument(libfunc_block(p), Sorted(kept)[i])]
    BY <1>4, <2>6
  <2>10. kept \in SUBSET Nat /\ IsFiniteSet(kept)
    <3>1. IsFiniteSet(1..n)
      BY <2>6, FS_Interval
    <3>2. IsFiniteSet(kept)
      BY <3>1, FS_Subset
    <3> QED
      BY <3>2
  <2>11. IsSequence(end.with) /\ Len(end.with) = Len(Sorted(kept)) /\ DOMAIN end.with = DOMAIN Sorted(kept)
    <3>1. DOMAIN Sorted(kept) = 1..Len(Sorted(kept)) /\ Len(Sorted(kept)) \in Nat
      BY <2>10, SortedIs
    <3>2. PICK w : w = end.with
      OBVIOUS
    <3>3. w = [i \in 1..Len(Sorted(kept)) |-> w[i]] /\ DOMAIN w = 1..Len(Sorted(kept))
      BY <2>9, <3>1, <3>2
    <3>4. IsSequence(w) /\ Len(w) = Len(Sorted(kept))
      BY <3>1, <3>3, FunctionIsSequence
    <3> QED
      BY <3>1, <3>2, <3>3, <3>4
  <2>12. Len(end.with) = n
    <3>1. libfunc_block(p) \in DOMAIN code[f]
      BY <1>3, <2>1 DEF Means
    <3>2. end \in JumpsOf(end)
      BY <1>0, <1>2 DEF JumpsOf
    <3>3. Len(end.with) = code[f][end.to].params
      BY <1>3, <2>1, <3>1, <3>2, EndIs
    <3> QED
      BY <1>4, <2>8, <3>3
  <2>13. DOMAIN end.with = 1..n /\ \A i \in 1..n : end.with[i] = argument(libfunc_block(p), i)
    <3>1. Len(Sorted(kept)) = n
      BY <2>11, <2>12
    <3>2. \A i \in 1..n : Sorted(kept)[i] = i
      BY <2>6, <3>1, SortedAll
    <3>3. DOMAIN end.with = 1..n
      BY <2>11, <2>12, SequenceDomain
    <3> QED
      BY <2>9, <2>11, <3>2, <3>3
  <2>14. /\ IsFrame(fr2) /\ fr2.fn = f /\ fr2.block = cont_block(loop) /\ fr2.depth = d - 1
         /\ \A i \in 1..n : Read(fr2, argument(cont_block(loop), i)) = values[i]
    <3>1. /\ IsFrame(fr2) /\ fr2.fn = fr.fn /\ fr2.block = end.to /\ fr2.depth = d - 1
          /\ \A i \in DOMAIN end.with : Read(fr2, argument(end.to, i)) = Read(fr, end.with[i])
      BY <2>1, <2>3, <2>11, Lowered
    <3> QED
      BY <1>3, <1>4, <2>1, <2>7, <2>13, <3>1
  <2>15. loop \in Stmts
    BY <1>3, <2>1, <2>8, StatementMeans
  <2>16. Now(fr2) = [at |-> Target(loop, 1), state |-> Sierra!PutVars(<<>>, ResultsOf(loop, 1), values)]
    <3>1. IsSequence(ResultsOf(loop, 1))
      BY <1>3, <2>8, <2>15, StatementFacts DEF Branches, ResultsOf
    <3>2. DOMAIN ResultsOf(loop, 1) = 1..n
      BY <2>8, <3>1, SequenceDomain
    <3>3. \A i \in DOMAIN ResultsOf(loop, 1) : Read(fr2, argument(fr2.block, i)) = values[i]
      BY <2>14, <3>2
    <3>4. fr2.block = cont_block(loop)
      BY <2>14
    <3>5. ProgramInv /\ 1 \in Branches(loop)
      BY <1>3, <2>8
    <3> QED
      BY <2>15, <3>3, <3>4, <3>5, AtContinuation
  <2>17. FrameInv(fr2) /\ Stands(fr2)
    BY <1>2, <1>4, <2>1, <2>2, <2>14 DEF FrameInv, Stands
  <2>18. PICK X : X = Prefix(L, f, d - 1)
    OBVIOUS
  <2>19. StackInv' /\ SierraFrames' = X \o <<Now(fr2)>>
    <3>1. StackInv' /\ SierraFrames' = Prefix(L, fr2.fn, fr2.depth) \o <<Now(fr2)>>
      BY <1>3, <2>4, <2>14, <2>17, Becomes
    <3> QED
      BY <2>14, <2>18, <3>1
  <2>20. IsSequence(X) /\ Prefix(L, f, d) = X \o <<Place(loop, <<>>)>>
    <3>1. Levels(f, (d - 1) + 1) = Levels(f, d - 1) \o <<[at |-> tailCall[f], state |-> <<>>]>>
          /\ IsSequence(Levels(f, d - 1))
      BY <2>2, LevelsAre
    <3>2. (d - 1) + 1 = d
      BY <2>1
    <3>3. IsSequence(Below(L))
      BY <1>3, SeenIs
    <3>4. PICK x : x = [at |-> tailCall[f], state |-> <<>>]
      OBVIOUS
    <3>5. Below(L) \o (Levels(f, d - 1) \o <<x>>) = (Below(L) \o Levels(f, d - 1)) \o <<x>>
      <4>1. IsSequence(<<x>>)
        BY OneElement
      <4>2. PICK a, b, c : a = Below(L) /\ b = Levels(f, d - 1) /\ c = <<x>>
        OBVIOUS
      <4>3. (a \o b) \o c = a \o (b \o c)
        BY <3>1, <3>3, <4>1, <4>2, Associates
      <4> QED
        BY <4>2, <4>3
    <3>6. x = Place(loop, <<>>)
      BY <1>2, <3>4 DEF Place
    <3>7. IsSequence(Below(L) \o Levels(f, d - 1))
      BY <3>1, <3>3, Concatenation
    <3> QED
      BY <2>18, <3>1, <3>2, <3>4, <3>5, <3>6, <3>7 DEF Prefix
  <2>21. Sierra!Next
    <3>1. PICK state, rest : state = Valuation(fr, S) /\ rest = <<>>
      OBVIOUS
    <3>2. SierraFrames = (X \o <<Place(loop, rest)>>) \o <<Place(p, state)>>
      BY <1>3, <2>20, <3>1
    <3>3. SierraFrames' = X \o <<Place(Target(loop, 1),
                                       Sierra!PutVars(rest, ResultsOf(loop, 1),
                                                      Sierra!TakeVars(state, Statement(p).args)))>>
      BY <1>3, <2>16, <2>19, <3>1 DEF Place
    <3>4. UNCHANGED <<program, input, answer>>
      BY <2>4 DEF SameCompiled
    <3> QED
      BY <1>4, <2>20, <3>2, <3>3, <3>4, ReturnIs
  <2> QED
    BY <2>19, <2>21 DEF Simulates
<1> QED
  BY <1>5, <1>6
-----------------------------------------------------------------------------
(* Before the first frame.                                                 *)

LEMMA MainInput ==
  ASSUME ProgramInv, input \in [DOMAIN program.functions[program.main].params -> Inputs]
  PROVE  /\ program.main \in Functions /\ IsSequence(input)
         /\ Len(input) = Len(program.functions[program.main].params)
         /\ InitialFrame = Sierra!NewFrame(program.main, input)
<1> DEFINE params == program.functions[program.main].params
<1>1. program.main \in Functions
  BY ProgramsAssumption DEF ProgramInv, IsProgram, Functions
<1>2. Len(params) \in Nat /\ DOMAIN params = 1..Len(params)
  BY <1>1, FunctionFacts, SequenceDomain DEF Functions
<1>3. input = [i \in 1..Len(params) |-> input[i]]
  BY <1>2
<1>4. IsSequence(input) /\ Len(input) = Len(params)
  BY <1>2, <1>3, FunctionIsSequence
<1>5. InitialFrame = Sierra!NewFrame(program.main, input)
  BY NewFrameIs DEF InitialFrame, Index
<1> QED
  BY <1>1, <1>4, <1>5

LEMMA BeginSimulates ==
  ASSUME MeaningInv, RunInv, SameCompiled, UNCHANGED input, Begin
  PROVE  Simulates
<1>0. pass = "run" /\ stack = <<>> /\ answer = NoAnswer /\ answer' = answer
  BY DEF Begin
<1>1. ProgramInv /\ input \in [DOMAIN program.functions[program.main].params -> Inputs]
  BY <1>0, Finished DEF RunInv
<1>2. PICK f, below, fr : /\ f = program.main /\ below = <<Host>>
                          /\ fr = Enter(f, Passed(f, input, 1), below)
  OBVIOUS
<1>3. /\ f \in Functions /\ IsSequence(input) /\ Len(input) = Len(program.functions[f].params)
      /\ InitialFrame = Sierra!NewFrame(f, input)
  BY <1>1, <1>2, MainInput
<1>4. InMemory(f, input, 1, below)
  <2>1. below[1] = Host
    BY <1>2
  <2>2. \A i \in DOMAIN input : below[1].slots[i] = input[i]
    BY <2>1 DEF Host
  <2> QED
    BY <1>3, <2>2 DEF InMemory
<1>5. IsFrame(fr) /\ fr.fn = f /\ fr.depth = 0 /\ Stands(fr) /\ Now(fr) = Sierra!NewFrame(f, input)
  <2>1. PICK level, values : level = 1 /\ values = input
    OBVIOUS
  <2>2. InMemory(f, values, level, below) /\ fr = Enter(f, Passed(f, values, level), below)
    BY <1>2, <1>4, <2>1
  <2>3. IsFrame(fr) /\ fr.fn = f /\ fr.depth = 0 /\ Stands(fr) /\ Now(fr) = Sierra!NewFrame(f, values)
    BY <1>1, <1>3, <2>2, Entered
  <2> QED
    BY <2>1, <2>3
<1>6. FrameInv(fr)
  BY <1>3, <1>5, DepthAssumption DEF FrameInv
<1>7. stack' = <<>> \o <<fr>>
  <2>1. stack' = <<fr>>
    BY <1>2 DEF Begin
  <2> QED
    BY <2>1, OneElement, EmptyConcat
<1>8. StackInv' /\ SierraFrames' = <<Now(fr)>>
  <2>1. PICK L : L = <<>>
    OBVIOUS
  <2>2. Suspended(L, fr.fn) /\ Prefix(L, fr.fn, 0) = <<>>
    BY <2>1, NothingBelow
  <2>3. StackInv' /\ SierraFrames' = Prefix(L, fr.fn, fr.depth) \o <<Now(fr)>>
    BY <1>5, <1>6, <1>7, <2>1, <2>2, Becomes
  <2> QED
    BY <1>5, <2>2, <2>3, OneElement, EmptyConcat
<1>9. SierraFrames = <<InitialFrame>>
  BY <1>0 DEF SierraFrames
<1>10. SierraFrames' = SierraFrames
  BY <1>3, <1>5, <1>8, <1>9
<1> QED
  BY <1>0, <1>8, <1>10 DEF Simulates, Sierra!vars, SameCompiled

\* The compiler works before anything runs.
LEMMA CompileSimulates ==
  ASSUME RunInv, UNCHANGED <<program, input>>, Compile, UNCHANGED machineVars
  PROVE  Simulates
<1>1. pass # "run"
  BY Zenon DEF Compile, SkipVisited, VisitStructure, Visiting, FinishStructure, BuildInvocation, BuildTailCall,
         DeferReturn, BuildReturn, FinishBody, Verify
<1>2. stack = <<>> /\ answer = NoAnswer /\ stack' = <<>> /\ answer' = NoAnswer
  BY <1>1 DEF RunInv, machineVars, NoAnswer
<1>3. IsSequence(<<>>) /\ \A n \in 1..Len(<<>>) : FALSE
  BY Empty
<1>4. StackInv'
  BY <1>2, <1>3 DEF StackInv
<1>5. SierraFrames = <<InitialFrame>> /\ SierraFrames' = <<InitialFrame'>>
  BY <1>2 DEF SierraFrames, NoAnswer
<1>6. InitialFrame' = InitialFrame
  BY DEF InitialFrame
<1> QED
  BY <1>2, <1>4, <1>5, <1>6 DEF Simulates, Sierra!vars

LEMMA UnchangedSimulates ==
  ASSUME RunInv, UNCHANGED vars
  PROVE  Simulates
<1>1. SameCompiled /\ UNCHANGED <<program, input, stack, answer>>
  BY DEF vars, machineVars, SameCompiled
<1>2. StackInv'
  <2>1. PICK st : st = stack
    OBVIOUS
  <2>2. StackOf(st) /\ stack' = st
    BY <1>1, <2>1 DEF RunInv, StackInv, StackOf, Callee
  <2> QED
    BY <1>1, <2>2, StackSame
<1>3. SierraFrames' = SierraFrames
  BY <1>1 DEF SameCompiled, compilerVars, SierraFrames, InitialFrame, SierraFramesOf, Position, Valuation,
              Read, Statement
<1> QED
  BY <1>1, <1>2, <1>3 DEF Simulates, Sierra!vars

-----------------------------------------------------------------------------
(* Every step.                                                             *)

LEMMA NextSimulates ==
  ASSUME MeaningInv, RunInv, WithinBounds, [Next]_vars
  PROVE  Simulates
<1>1. CASE UNCHANGED vars
  BY <1>1, UnchangedSimulates
<1>2. CASE UNCHANGED <<program, input>> /\ Compile /\ UNCHANGED machineVars
  BY <1>2, CompileSimulates
<1>3. CASE UNCHANGED <<program, input>> /\ Run /\ UNCHANGED compilerVars
  <2>1. SameCompiled /\ UNCHANGED input
    BY <1>3 DEF SameCompiled
  <2>2. CASE Begin
    BY <2>1, <2>2, BeginSimulates
  <2>3. CASE Branch
    BY <2>1, <2>3, BranchSimulates
  <2>4. CASE Evaluate
    BY <2>1, <2>4, EvaluateSimulates
  <2>5. CASE Call
    BY <2>1, <2>5, CallSimulates
  <2>6. CASE Return
    BY <2>1, <2>6, ReturnSimulates
  <2>7. CASE GoDeeper
    BY <2>1, <2>7, GoDeeperSimulates
  <2>8. CASE GoShallower
    BY <2>1, <2>8, GoShallowerSimulates
  <2> QED
    BY <1>3, <2>2, <2>3, <2>4, <2>5, <2>6, <2>7, <2>8 DEF Run
<1> QED
  BY <1>1, <1>2, <1>3 DEF Next

\* The machine starts once every region verifies, and the regions stay.
LEMMA NextRunInv ==
  ASSUME MeaningInv, RunInv, WithinBounds, [Next]_vars
  PROVE  RunInv'
<1>1. StackInv'
  BY NextSimulates DEF Simulates
<1>2. UNCHANGED <<program, input>>
  BY DEF Next, vars
<1>3. input' \in [DOMAIN program'.functions[program'.main].params -> Inputs]
  BY <1>2 DEF RunInv
<1>4. CASE UNCHANGED <<compilerVars>>
  <2>1. pass' = pass /\ code' = code
    BY <1>4 DEF compilerVars
  <2>2. \A f \in Functions' : (pass' = "run" => Verifies(f)')
    BY <1>2, <2>1 DEF RunInv, Functions, Verifies, JumpsOf
  <2>3. pass # "run" => UNCHANGED <<stack, answer>>
    BY Zenon DEF Next, vars, machineVars, Run, Begin, Branch, Evaluate, Call, Return, GoDeeper, GoShallower, Running
  <2>4. pass' # "run" => stack' = <<>> /\ answer' = NoAnswer'
    BY <2>1, <2>3 DEF RunInv, NoAnswer
  <2> QED
    BY <1>1, <1>3, <2>2, <2>4 DEF RunInv
<1>5. CASE Compile /\ UNCHANGED machineVars
  <2>1. pass # "run"
    BY <1>5, Zenon DEF Compile, SkipVisited, VisitStructure, Visiting, FinishStructure, BuildInvocation, BuildTailCall,
                DeferReturn, BuildReturn, FinishBody, Verify
  <2>2. stack' = <<>> /\ answer' = NoAnswer'
    BY <1>5, <2>1 DEF RunInv, machineVars, NoAnswer
  <2>3. pass' = "run" => Verify
    BY <1>5, <2>1 DEF Compile, SkipVisited, VisitStructure, FinishStructure, BuildInvocation, BuildTailCall,
                      DeferReturn, BuildReturn, FinishBody
  <2>4. DOMAIN code = Functions
    BY DEF MeaningInv, CompilerInv, Pending
  <2>5. ASSUME Verify, pass' = "run" PROVE \A f \in Functions' : Verifies(f)'
    <3>1. code' = code /\ \A f \in Functions : Verifies(f)
      BY <2>4, <2>5 DEF Verify
    <3> QED
      BY <1>2, <3>1 DEF Functions, Verifies, JumpsOf
  <2> QED
    BY <1>1, <1>3, <2>2, <2>3, <2>5 DEF RunInv
<1> QED
  BY <1>4, <1>5 DEF Next, vars

LEMMA InitRuns == Init => RunInv /\ Sierra!Init
<1> SUFFICES ASSUME Init PROVE RunInv /\ Sierra!Init
  OBVIOUS
<1>1. /\ program \in Programs
      /\ input \in [DOMAIN program.functions[program.main].params -> Inputs]
      /\ pass = "structure" /\ stack = <<>> /\ answer = NoAnswer
  BY DEF Init, CompilerInit
<1>2. IsSequence(<<>>) /\ \A n \in 1..Len(<<>>) : FALSE
  BY Empty
<1>3. RunInv
  BY <1>1, <1>2 DEF RunInv, StackInv
<1>4. SierraFrames = <<Sierra!NewFrame(program.main, input)>>
  BY <1>1, MainInput DEF SierraFrames, ProgramInv
<1>5. Sierra!Init
  BY <1>1, <1>4 DEF Sierra!Init, Sierra!NoAnswer, NoAnswer
<1> QED
  BY <1>3, <1>5

\* Whenever a traversal of compile_func stands, each block written so far means its statement: it
\* takes the arguments that the statement's variables are in and jumps where the branches lead.
THEOREM BlocksMeanStatements == Spec => []MeaningInv
<1>1. Init => MeaningInv
  BY InitMeaningInv
<1>2. MeaningInv /\ [Next]_vars => MeaningInv'
  BY NextMeaningInv
<1> QED
  BY <1>1, <1>2, PTL DEF Spec

\* A compiled program means what its Sierra program means (compile_func, function_call::build):
\* as long as libfuncs answer as their branches declare and the depth counter does not wrap, every
\* step of native code is a step of the interpreter or none, with the same values in the variables.
THEOREM CompiledRunsTheProgram == Spec /\ []WithinBounds => RunsTheProgram
<1>1. Init => MeaningInv /\ RunInv /\ Sierra!Init
  BY InitMeaningInv, InitRuns
<1>2. MeaningInv /\ RunInv /\ WithinBounds /\ [Next]_vars => MeaningInv' /\ RunInv'
  BY NextMeaningInv, NextRunInv
<1>3. MeaningInv /\ RunInv /\ WithinBounds /\ [Next]_vars => [Sierra!Next]_Sierra!vars
  BY NextSimulates DEF Simulates
<1> QED
  BY <1>1, <1>2, <1>3, PTL DEF Spec, RunsTheProgram, Sierra!Spec
=============================================================================
