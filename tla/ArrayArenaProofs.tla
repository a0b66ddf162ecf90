-------------------------- MODULE ArrayArenaProofs --------------------------
(***************************************************************************)
(* Arrays that stay below half the range of a word (2^31 elements in the   *)
(* code) never read outside written memory, never append into a cell that  *)
(* a snapshot or a box can see, and never overwrite a written cell: for    *)
(* any number of snapshots, boxes, buffers and elements.                   *)
(***************************************************************************)
EXTENDS ArrayArena, SequenceTheorems, TLAPS

\* Doubling a capacity that has to grow does not wrap.
HalfRange == 2 * MaxEnd <= Modulus

Buffers == UNION {[0..(n - 1) -> Values \cup {Undef}] : n \in Words}

Written(h, b, lo, hi) ==
  \A k \in Int : lo <= k /\ k < hi => b \in DOMAIN h /\ k \in DOMAIN h[b] /\ h[b][k] # Undef

\* Cells that a handle or a box may read in heap h beside owner o: written, and in the
\* owner's buffer below its end, where append never writes.
Region(h, o, b, lo, hi) ==
  /\ b \in 0..Len(h)
  /\ lo \in Nat /\ hi \in Nat
  /\ Written(h, b, lo, hi)
  /\ b = o.buf => hi <= o.end
  /\ b = 0 => hi = 0

HandleOK(h, o, a) ==
  /\ a \in Handle /\ a.start <= a.end
  /\ Region(h, o, a.buf, a.off + a.start, a.off + a.end)

Boxes == [buf : 0..MaxBuffers, off : Nat, n : Words]

BoxOK(h, o, x) == x \in Boxes /\ Region(h, o, x.buf, x.off, x.off + x.n)

\* The owner has its buffer to itself from end on: nothing is written there yet.
OwnerInv ==
  /\ owner \in Handle /\ owner.off = 0
  /\ owner.start <= owner.end /\ owner.end <= owner.cap /\ owner.end <= MaxEnd
  /\ Region(heap, owner, owner.buf, owner.start, owner.end)
  /\ owner.buf = 0 => owner.cap = 0
  /\ owner.buf # 0 => /\ DOMAIN heap[owner.buf] = 0..(owner.cap - 1)
                      /\ \A k \in owner.end..(owner.cap - 1) : heap[owner.buf][k] = Undef

HeapInv == heap \in Seq(Buffers) /\ Len(heap) <= MaxBuffers

SharedInv ==
  /\ snaps \in [SnapIds -> Handle] /\ \A s \in SnapIds : HandleOK(heap, owner, snaps[s])
  /\ boxes \in [BoxIds -> Boxes] /\ \A b \in BoxIds : BoxOK(heap, owner, boxes[b])

ReplyInv == reply \in [branch : 0..1, checks : 0..1, len : Words]

IInv == HeapInv /\ OwnerInv /\ SharedInv /\ ReplyInv

-----------------------------------------------------------------------------
(* Words *)

LEMMA WordArithmetic ==
  /\ Words \subseteq Nat /\ 0 \in Words
  /\ \A x, y \in Words : x <= y => SubW(y, x) = y - x /\ y - x \in Words
  /\ \A x, y \in Words : AddW(x, y) \in Words
  /\ \A x, y \in Words : x + y < Modulus => AddW(x, y) = x + y
<1>1. Modulus \in Nat \ {0} /\ Words = 0..(Modulus - 1)
  BY WordsAssumption DEF Words
<1>2. ASSUME NEW z \in 0..(Modulus - 1) PROVE z % Modulus = z
  BY <1>1
<1>3. ASSUME NEW x \in Words, NEW y \in Words, x <= y
      PROVE  SubW(y, x) = y - x /\ y - x \in Words
  <2>1. y - x \in 0..(Modulus - 1)
    BY <1>1, <1>3
  <2>2. QED
    BY <1>1, <1>2, <2>1 DEF SubW
<1>4. ASSUME NEW x \in Words, NEW y \in Words
      PROVE  AddW(x, y) \in Words
  <2>1. x + y \in Nat
    BY <1>1
  <2>2. QED
    BY <1>1, <2>1 DEF AddW
<1>5. ASSUME NEW x \in Words, NEW y \in Words, x + y < Modulus
      PROVE  AddW(x, y) = x + y
  <2>1. x + y \in 0..(Modulus - 1)
    BY <1>1, <1>5
  <2>2. QED
    BY <1>2, <2>1 DEF AddW
<1>6. QED
  BY <1>1, <1>3, <1>4, <1>5

\* The length of a handle whose offsets are in order.
LEMMA Length32 ==
  ASSUME NEW a \in Handle, a.start <= a.end
  PROVE  LenW(a) = a.end - a.start /\ LenW(a) \in Words
  BY WordArithmetic, ZenonT(60) DEF LenW, Handle

-----------------------------------------------------------------------------
(* Regions *)

LEMMA RegionShrinks ==
  ASSUME NEW h, NEW o, NEW b, NEW lo, NEW hi, Region(h, o, b, lo, hi),
         NEW x \in Nat, NEW y \in Nat, lo <= x, y <= hi, o.end \in Nat
  PROVE  Region(h, o, b, x, y)
<1>1. Written(h, b, x, y)
  BY DEF Region, Written
<1>2. QED
  BY <1>1 DEF Region

\* Snapshots and boxes survive a step after which their regions are still regions.
LEMMA SharedSurvives ==
  ASSUME SharedInv, UNCHANGED <<snaps, boxes>>,
         \A b, lo, hi : Region(heap, owner, b, lo, hi) => Region(heap', owner', b, lo, hi)
  PROVE  SharedInv'
  BY DEF SharedInv, HandleOK, BoxOK

LEMMA NullRegion ==
  ASSUME NEW h, Len(h) \in Nat, NEW o, o.end \in Nat
  PROVE  Region(h, o, 0, 0, 0)
  BY DEF Region, Written

LEMMA OwnerTyped ==
  OwnerInv => /\ owner.start \in Words /\ owner.end \in Words /\ owner.cap \in Words
              /\ owner.start \in Nat /\ owner.end \in Nat /\ owner.cap \in Nat
              /\ owner.buf \in Nat /\ owner.end + 1 <= Modulus
  BY WordsAssumption DEF OwnerInv, Handle, Words

LEMMA HeapTyped ==
  HeapInv => /\ Len(heap) \in Nat /\ Len(heap) <= MaxBuffers
             /\ DOMAIN heap = 1..Len(heap)
             /\ \A b \in 1..Len(heap) : heap[b] \in Buffers
  BY ElementOfSeq DEF HeapInv

LEMMA BufferTyped ==
  ASSUME NEW f \in Buffers
  PROVE  \E n \in Words : DOMAIN f = 0..(n - 1) /\ f \in [0..(n - 1) -> Values \cup {Undef}]
  BY DEF Buffers

\* A buffer that is pushed is a new one.
LEMMA PushRegions ==
  ASSUME HeapInv, NEW f \in Buffers, heap' = Append(heap, f), Len(heap) < MaxBuffers
  PROVE  /\ HeapInv' /\ Len(heap') = Len(heap) + 1
         /\ \A b \in 1..Len(heap) : heap'[b] = heap[b]
         /\ heap'[Len(heap) + 1] = f
         /\ \A b, lo, hi : Region(heap, owner, b, lo, hi) =>
              b # Len(heap) + 1 /\ Written(heap', b, lo, hi)
<1>1. heap \in Seq(Buffers) /\ Len(heap) \in Nat /\ DOMAIN heap = 1..Len(heap)
  BY HeapTyped DEF HeapInv
<1>2. /\ heap' \in Seq(Buffers) /\ Len(heap') = Len(heap) + 1
      /\ \A b \in 1..Len(heap) : heap'[b] = heap[b]
      /\ heap'[Len(heap) + 1] = f
  BY <1>1, AppendProperties
<1>3. DOMAIN heap' = 1..(Len(heap) + 1)
  BY <1>2
<1>4. HeapInv'
  BY <1>1, <1>2, WordsAssumption DEF HeapInv
<1>5. \A b, lo, hi : Region(heap, owner, b, lo, hi) =>
        b # Len(heap) + 1 /\ Written(heap', b, lo, hi)
  BY <1>1, <1>2, <1>3 DEF Region, Written
<1>6. QED
  BY <1>2, <1>4, <1>5

-----------------------------------------------------------------------------
(* The owner's steps *)

LEMMA NewStep ==
  ASSUME HeapInv, OwnerInv, SharedInv, New
  PROVE  HeapInv' /\ OwnerInv' /\ SharedInv'
<1>1. heap' = heap /\ owner' = NullArray /\ UNCHANGED <<snaps, boxes>>
  BY DEF New
<1>2. Len(heap) \in Nat /\ HeapInv'
  BY <1>1, HeapTyped DEF HeapInv
<1>3. /\ NullArray.buf = 0 /\ NullArray.off = 0 /\ NullArray.start = 0
      /\ NullArray.end = 0 /\ NullArray.cap = 0
  BY DEF NullArray
<1>4. NullArray \in Handle
  BY WordArithmetic, WordsAssumption DEF NullArray, Handle
<1>5. Region(heap, NullArray, 0, 0, 0)
  BY <1>2, <1>3, NullRegion
<1>6. OwnerInv'
  BY <1>1, <1>3, <1>4, <1>5, WordsAssumption, WordArithmetic DEF OwnerInv
<1>7. \A b, lo, hi : Region(heap, owner, b, lo, hi) => Region(heap', owner', b, lo, hi)
  BY <1>1, <1>3 DEF Region
<1>8. QED
  BY <1>1, <1>2, <1>6, <1>7, SharedSurvives

LEMMA ReceiveStep ==
  ASSUME HeapInv, OwnerInv, SharedInv, NEW n \in ReceiveLens, Receive(n)
  PROVE  HeapInv' /\ OwnerInv' /\ SharedInv'
<1>1. CASE n = 0
  <2>1. heap' = heap /\ owner' = NullArray /\ UNCHANGED <<snaps, boxes>>
    BY <1>1 DEF Receive
  <2>2. /\ NullArray.buf = 0 /\ NullArray.off = 0 /\ NullArray.start = 0
        /\ NullArray.end = 0 /\ NullArray.cap = 0
    BY DEF NullArray
  <2>3. NullArray \in Handle
    BY WordArithmetic, WordsAssumption DEF NullArray, Handle
  <2>4. Region(heap, NullArray, 0, 0, 0)
    BY <2>2, HeapTyped, NullRegion
  <2>5. OwnerInv'
    BY <2>1, <2>2, <2>3, <2>4, WordsAssumption, WordArithmetic DEF OwnerInv
  <2>6. \A b, lo, hi : Region(heap, owner, b, lo, hi) => Region(heap', owner', b, lo, hi)
    BY <2>1, <2>2 DEF Region
  <2>7. QED
    BY <2>1, <2>5, <2>6, SharedSurvives DEF HeapInv
<1>2. CASE n > 0
  <2>1. PICK data \in [0..(n - 1) -> Values] :
          heap' = Append(heap, data) /\ Len(heap) < MaxBuffers
    BY <1>2 DEF Receive
  <2>2. /\ owner' = [buf |-> Len(heap) + 1, off |-> 0, start |-> 0, end |-> n, cap |-> n]
        /\ UNCHANGED <<snaps, boxes>>
    BY <1>2 DEF Receive
  <2>3. n \in Nat /\ n <= MaxEnd /\ n \in Words
    BY WordsAssumption DEF Words
  <2>4. data \in Buffers
    BY <2>3 DEF Buffers
  <2>5. /\ HeapInv' /\ Len(heap') = Len(heap) + 1 /\ heap'[Len(heap) + 1] = data
        /\ \A b, lo, hi : Region(heap, owner, b, lo, hi) =>
             b # Len(heap) + 1 /\ Written(heap', b, lo, hi)
    BY <2>1, <2>4, PushRegions
  <2>6. Len(heap) \in Nat /\ DOMAIN heap' = 1..(Len(heap) + 1)
    BY <2>5, HeapTyped DEF HeapInv
  <2>7. /\ owner'.buf = Len(heap) + 1 /\ owner'.off = 0 /\ owner'.start = 0
        /\ owner'.end = n /\ owner'.cap = n
    BY <2>2
  <2>8. owner' \in Handle
    BY <2>1, <2>2, <2>3, <2>6, WordArithmetic, WordsAssumption DEF Handle
  <2>9. Written(heap', Len(heap) + 1, 0, n)
    BY <2>3, <2>5, <2>6, UndefAssumption DEF Written
  <2>10. Region(heap', owner', owner'.buf, owner'.start, owner'.end)
    BY <2>3, <2>5, <2>6, <2>7, <2>9 DEF Region
  <2>11. OwnerInv'
    BY <2>3, <2>5, <2>6, <2>7, <2>8, <2>10 DEF OwnerInv
  <2>12. \A b, lo, hi : Region(heap, owner, b, lo, hi) => Region(heap', owner', b, lo, hi)
    BY <2>5, <2>6, <2>7 DEF Region
  <2>13. QED
    BY <2>2, <2>5, <2>11, <2>12, SharedSurvives
<1>3. QED
  BY <1>1, <1>2, WordsAssumption DEF Receive

LEMMA AppendInPlaceStep ==
  ASSUME HeapInv, OwnerInv, SharedInv, NEW v \in Values, AppendInPlace(v)
  PROVE  /\ HeapInv' /\ OwnerInv' /\ SharedInv'
         /\ \A b \in DOMAIN heap : \A i \in DOMAIN heap[b] :
              heap[b][i] # Undef => heap'[b][i] = heap[b][i]
         /\ owner.buf \in DOMAIN heap' /\ owner.end \in DOMAIN heap'[owner.buf]
         /\ heap'[owner.buf][owner.end] = v
         /\ owner' = [owner EXCEPT !.end = owner.end + 1]
<1> DEFINE buf == owner.buf
           end == owner.end
           new == [heap[buf] EXCEPT ![end] = v]
<1>1. /\ buf # 0 /\ end < owner.cap /\ end < MaxEnd /\ owner.off = 0
      /\ UNCHANGED <<snaps, boxes>>
  BY DEF AppendInPlace, OwnerInv
<1>2. /\ end \in Nat /\ owner.cap \in Nat /\ end \in Words /\ owner.start \in Nat
      /\ owner.cap \in Words
  BY OwnerTyped
<1>3. /\ buf \in 1..Len(heap) /\ buf \in DOMAIN heap
      /\ DOMAIN heap[buf] = 0..(owner.cap - 1) /\ end \in DOMAIN heap[buf]
      /\ \A k \in end..(owner.cap - 1) : heap[buf][k] = Undef
  BY <1>1, <1>2, HeapTyped DEF OwnerInv, Region
<1>4. heap' = [heap EXCEPT ![buf] = new]
  <2>1. owner.off + end = end
    BY <1>1, <1>2
  <2>2. heap' = StoreIn(heap, buf, end, v)
    BY <2>1 DEF AppendInPlace
  <2>3. StoreIn(heap, buf, end, v) = [heap EXCEPT ![buf][end] = v]
    BY <1>3 DEF StoreIn
  <2>4. [heap EXCEPT ![buf][end] = v] = [heap EXCEPT ![buf] = new]
    OBVIOUS
  <2>5. QED
    BY <2>2, <2>3, <2>4
<1>5. new \in Buffers /\ DOMAIN new = DOMAIN heap[buf]
      /\ \A k \in DOMAIN heap[buf] : new[k] = IF k = end THEN v ELSE heap[buf][k]
  <2>1. heap[buf] \in Buffers
    BY <1>3, HeapTyped
  <2>2. PICK n \in Words : heap[buf] \in [0..(n - 1) -> Values \cup {Undef}]
    BY <2>1, BufferTyped
  <2>3. new \in [0..(n - 1) -> Values \cup {Undef}]
    BY <2>2
  <2>4. QED
    BY <1>3, <2>2, <2>3 DEF Buffers
<1> HIDE DEF new
<1>6. /\ HeapInv' /\ Len(heap') = Len(heap) /\ DOMAIN heap' = DOMAIN heap
      /\ \A b \in DOMAIN heap : heap'[b] = IF b = buf THEN new ELSE heap[b]
  BY <1>3, <1>4, <1>5, HeapTyped, ExceptSeq DEF HeapInv
<1> HIDE DEF buf, end
<1>7. \A b, lo, hi : Written(heap, b, lo, hi) => Written(heap', b, lo, hi)
  BY <1>3, <1>5, <1>6, UndefAssumption DEF Written
<1>8. owner' = [owner EXCEPT !.end = AddW(end, 1)] /\ AddW(end, 1) = end + 1
      /\ end + 1 \in Words
  <2>1. 1 \in Words /\ end + 1 < Modulus
    BY <1>1, <1>2, WordsAssumption DEF Words
  <2>2. QED
    BY <1>2, <2>1, WordArithmetic DEF AppendInPlace, end
<1>9. /\ owner' \in Handle /\ owner'.buf = buf /\ owner'.end = end + 1
      /\ owner'.off = 0 /\ owner'.start = owner.start /\ owner'.cap = owner.cap
  BY <1>1, <1>8 DEF OwnerInv, Handle, buf, end
<1>10. \A b, lo, hi : Region(heap, owner, b, lo, hi) => Region(heap', owner', b, lo, hi)
  BY <1>2, <1>6, <1>7, <1>9 DEF Region, buf, end
<1>11. Region(heap', owner', buf, owner.start, end + 1)
  <2>1. Written(heap', buf, owner.start, end)
    BY <1>7 DEF OwnerInv, Region, buf, end
  <2>2. heap'[buf][end] # Undef /\ end \in DOMAIN heap'[buf]
    BY <1>3, <1>5, <1>6, UndefAssumption
  <2>3. Written(heap', buf, owner.start, end + 1)
    BY <1>2, <1>3, <1>6, <2>1, <2>2 DEF Written
  <2>4. QED
    BY <1>1, <1>2, <1>3, <1>6, <1>9, <2>3 DEF Region
<1>12. OwnerInv'
  <2>1. \A k \in (end + 1)..(owner.cap - 1) : heap'[buf][k] = Undef
    BY <1>2, <1>3, <1>5, <1>6
  <2>2. end + 1 <= owner.cap /\ end + 1 <= MaxEnd /\ owner.start <= end + 1
    BY <1>1, <1>2, WordsAssumption DEF OwnerInv, Words, end
  <2>3. DOMAIN heap'[buf] = 0..(owner.cap - 1)
    BY <1>3, <1>5, <1>6
  <2>4. QED
    BY <1>1, <1>9, <1>11, <2>1, <2>2, <2>3 DEF OwnerInv
<1>13. \A b \in DOMAIN heap : \A i \in DOMAIN heap[b] :
         heap[b][i] # Undef => heap'[b][i] = heap[b][i]
  BY <1>2, <1>3, <1>5, <1>6
<1>14. /\ owner.buf \in DOMAIN heap' /\ owner.end \in DOMAIN heap'[owner.buf]
       /\ heap'[owner.buf][owner.end] = v
       /\ owner' = [owner EXCEPT !.end = owner.end + 1]
  BY <1>3, <1>5, <1>6, <1>8 DEF buf, end
<1>15. QED
  BY <1>1, <1>6, <1>10, <1>12, <1>13, <1>14, SharedSurvives

\* Below half the range of a word, a capacity that is exceeded at least doubles.
LEMMA Doubling ==
  ASSUME HalfRange, NEW cap \in Nat, cap < MaxEnd
  PROVE  NextCapacity(cap) \in Words /\ cap < NextCapacity(cap)
<1>1. Modulus \in Nat \ {0} /\ MaxEnd \in Nat /\ MinCapacity \in 1..(Modulus - 1)
  BY WordsAssumption DEF Words
<1>2. 2 * cap \in 0..(Modulus - 1)
  BY <1>1 DEF HalfRange
<1>3. (2 * cap) % Modulus = 2 * cap
  BY <1>1, <1>2
<1>4. NextCapacity(cap) = IF 2 * cap < MinCapacity THEN MinCapacity ELSE 2 * cap
  BY <1>3 DEF NextCapacity
<1>5. QED
  BY <1>1, <1>2, <1>4 DEF Words

LEMMA AppendGrowingStep ==
  ASSUME HalfRange, HeapInv, OwnerInv, SharedInv, NEW v \in Values, AppendGrowing(v)
  PROVE  /\ HeapInv' /\ OwnerInv' /\ SharedInv'
         /\ \A b \in DOMAIN heap : heap'[b] = heap[b]
         /\ \E cap : owner' = [owner EXCEPT !.buf = Len(heap) + 1, !.off = 0, !.cap = cap,
                                           !.end = owner.end + 1]
         /\ Len(heap) + 1 \in DOMAIN heap'
         /\ \A k \in 0..owner.end :
              /\ k \in DOMAIN heap'[Len(heap) + 1]
              /\ heap'[Len(heap) + 1][k] = IF k = owner.end THEN v ELSE Load(owner.buf, k)
<1> DEFINE end == owner.end
           cap == NextCapacity(owner.cap)
           new == Len(heap) + 1
           f == Buffer(cap, end)
           g == [f EXCEPT ![end] = v]
<1>1. /\ owner.buf = 0 \/ end >= owner.cap
      /\ end < MaxEnd /\ Len(heap) < MaxBuffers /\ owner.off = 0
      /\ UNCHANGED <<snaps, boxes>>
  BY DEF AppendGrowing, OwnerInv
<1>2. /\ end \in Nat /\ owner.cap \in Nat /\ owner.start \in Nat /\ end \in Words
      /\ owner.start <= end /\ owner.cap = end /\ owner.start \in Words
  BY <1>1, OwnerTyped DEF OwnerInv
<1>3. cap \in Words /\ cap \in Nat /\ end < cap /\ MaxEnd \in Nat
  <2>1. Words \subseteq Nat /\ MaxEnd \in Nat
    BY WordsAssumption DEF Words
  <2>2. QED
    BY <1>1, <1>2, <2>1, Doubling
<1>4. Len(heap) \in Nat /\ DOMAIN heap = 1..Len(heap)
  BY HeapTyped
<1> HIDE DEF cap
<1>5. /\ f \in [0..(cap - 1) -> Values \cup {Undef}]
      /\ \A k \in 0..(cap - 1) : f[k] = IF k < end THEN Load(owner.buf, k) ELSE Undef
  <2>1. ASSUME NEW k \in 0..(cap - 1)
        PROVE  Load(owner.buf, owner.off + k) \in Values \cup {Undef}
    <3>1. CASE InBuffer(owner.buf, owner.off + k)
      <4>1. heap[owner.buf] \in Buffers
        BY <1>4, <3>1, HeapTyped DEF InBuffer
      <4>2. PICK n \in Words : heap[owner.buf] \in [0..(n - 1) -> Values \cup {Undef}]
        BY <4>1, BufferTyped
      <4>3. QED
        BY <3>1, <4>2 DEF InBuffer, Load
    <3>2. CASE ~InBuffer(owner.buf, owner.off + k)
      BY <3>2 DEF Load
    <3>3. QED
      BY <3>1, <3>2
  <2>2. \A k \in 0..(cap - 1) : owner.off + k = k
    BY <1>1, <1>3
  <2>3. QED
    BY <2>1, <2>2 DEF Buffer
<1> HIDE DEF f
<1>6. /\ g \in [0..(cap - 1) -> Values \cup {Undef}] /\ DOMAIN g = 0..(cap - 1)
      /\ DOMAIN f = 0..(cap - 1)
      /\ \A k \in 0..(cap - 1) : g[k] = IF k = end THEN v ELSE f[k]
  BY <1>5
<1>7. f \in Buffers /\ g \in Buffers
  BY <1>3, <1>5, <1>6 DEF Buffers
<1>8. heap' = StoreIn(Append(heap, f), new, end, v)
  BY DEF AppendGrowing, f, cap
<1>9. /\ Append(heap, f) \in Seq(Buffers) /\ Len(Append(heap, f)) = new
      /\ DOMAIN Append(heap, f) = 1..new
      /\ Append(heap, f)[new] = f
      /\ \A b \in 1..Len(heap) : Append(heap, f)[b] = heap[b]
  BY <1>4, <1>7, AppendProperties DEF HeapInv
<1>10. heap' = [Append(heap, f) EXCEPT ![new] = g]
  <2>1. new \in DOMAIN Append(heap, f) /\ end \in DOMAIN Append(heap, f)[new]
    BY <1>2, <1>3, <1>4, <1>6, <1>9
  <2>2. QED
    BY <1>8, <1>9, <2>1 DEF StoreIn
<1> HIDE DEF g
<1>11. /\ heap' \in Seq(Buffers) /\ Len(heap') = new /\ DOMAIN heap' = 1..new
       /\ heap'[new] = g /\ \A b \in 1..Len(heap) : heap'[b] = heap[b]
  <2> DEFINE h == Append(heap, f)
  <2>1. h \in Seq(Buffers) /\ Len(h) = new /\ new \in 1..new /\ heap' = [h EXCEPT ![new] = g]
    BY <1>4, <1>9, <1>10
  <2>2. \A b \in 1..Len(heap) : h[b] = heap[b] /\ b \in 1..new /\ b # new
    BY <1>4, <1>9
  <2> HIDE DEF h
  <2>3. /\ heap' \in Seq(Buffers) /\ Len(heap') = new
        /\ \A b \in 1..new : heap'[b] = IF b = new THEN g ELSE h[b]
    BY <1>7, <2>1, ExceptSeq
  <2>4. QED
    BY <2>1, <2>2, <2>3
<1>12. HeapInv'
  BY <1>1, <1>4, <1>11, WordsAssumption DEF HeapInv
<1>13. /\ owner'.buf = new /\ owner'.off = 0 /\ owner'.cap = cap /\ owner'.end = end + 1
       /\ owner'.start = owner.start /\ owner' \in Handle
  <2>1. 1 \in Words /\ end + 1 < Modulus
    BY <1>1, <1>2, WordsAssumption DEF Words
  <2>2. AddW(end, 1) = end + 1 /\ AddW(end, 1) \in Words
    BY <1>2, <2>1, WordArithmetic
  <2>3. owner \in Handle /\ new \in 0..MaxBuffers
    BY <1>1, <1>4, WordsAssumption DEF OwnerInv
  <2>4. owner' = [owner EXCEPT !.buf = new, !.off = 0, !.cap = cap, !.end = AddW(end, 1)]
    BY DEF AppendGrowing, cap
  <2>5. QED
    BY <1>3, <2>2, <2>3, <2>4 DEF Handle
<1>14. \A b, lo, hi : Region(heap, owner, b, lo, hi) => Region(heap', owner', b, lo, hi)
  BY <1>4, <1>11, <1>13 DEF Region, Written
<1>15. Region(heap', owner', new, owner.start, end + 1)
  <2>1. \A k \in Int : owner.start <= k /\ k < end => k \in 0..(cap - 1) /\ g[k] # Undef
    <3>1. ASSUME NEW k \in Int, owner.start <= k, k < end
          PROVE  k \in 0..(cap - 1) /\ g[k] = heap[owner.buf][k] /\ heap[owner.buf][k] # Undef
      <4>1. k \in 0..(cap - 1) /\ k # end
        BY <1>2, <1>3, <3>1
      <4>2. owner.buf \in DOMAIN heap /\ k \in DOMAIN heap[owner.buf]
            /\ heap[owner.buf][k] # Undef
        BY <3>1 DEF OwnerInv, Region, Written
      <4>3. QED
        BY <1>5, <1>6, <3>1, <4>1, <4>2 DEF Load, InBuffer
    <3>2. QED
      BY <3>1
  <2>2. g[end] # Undef /\ end \in 0..(cap - 1)
    BY <1>2, <1>3, <1>6, UndefAssumption
  <2>3. Written(heap', new, owner.start, end + 1)
    BY <1>2, <1>4, <1>6, <1>11, <2>1, <2>2 DEF Written
  <2>4. QED
    BY <1>2, <1>4, <1>11, <1>13, <2>3 DEF Region
<1>16. OwnerInv'
  <2>1. \A k \in (end + 1)..(cap - 1) : g[k] = Undef
    BY <1>2, <1>3, <1>5, <1>6
  <2>2. end + 1 <= cap /\ end + 1 <= MaxEnd /\ owner.start <= end + 1 /\ new # 0
    BY <1>1, <1>2, <1>3, <1>4
  <2>3. QED
    BY <1>6, <1>11, <1>13, <1>15, <2>1, <2>2 DEF OwnerInv
<1>17. \E c : owner' = [owner EXCEPT !.buf = new, !.off = 0, !.cap = c, !.end = end + 1]
  <2>1. 1 \in Words /\ end + 1 < Modulus
    BY <1>1, <1>2, WordsAssumption DEF Words
  <2>2. AddW(end, 1) = end + 1
    BY <1>2, <2>1, WordArithmetic
  <2>3. QED
    BY <2>2 DEF AppendGrowing
<1>18. /\ new \in DOMAIN heap'
       /\ \A k \in 0..end :
            k \in DOMAIN heap'[new] /\ heap'[new][k] = IF k = end THEN v ELSE Load(owner.buf, k)
  <2>1. new \in DOMAIN heap'
    BY <1>4, <1>11
  <2>2. \A k \in 0..end : k \in 0..(cap - 1) /\ (k # end => k < end)
    BY <1>2, <1>3
  <2>3. QED
    BY <1>5, <1>6, <1>11, <2>1, <2>2
<1>19. QED
  BY <1>1, <1>4, <1>11, <1>12, <1>14, <1>16, <1>17, <1>18, SharedSurvives

-----------------------------------------------------------------------------
(* The steps that hand out handles and boxes *)

\* One snapshot and one box are replaced by good ones, or neither.
LEMMA SharedReplaced ==
  ASSUME SharedInv,
         \A b, lo, hi : Region(heap, owner, b, lo, hi) => Region(heap', owner', b, lo, hi),
         \/ snaps' = snaps
         \/ \E s \in SnapIds, a \in Handle :
              HandleOK(heap, owner, a) /\ snaps' = [snaps EXCEPT ![s] = a],
         \/ boxes' = boxes
         \/ \E b \in BoxIds, x \in Boxes :
              BoxOK(heap, owner, x) /\ boxes' = [boxes EXCEPT ![b] = x]
  PROVE  SharedInv'
<1>1. /\ snaps' \in [SnapIds -> Handle]
      /\ \A s \in SnapIds : HandleOK(heap, owner, snaps'[s])
  BY DEF SharedInv
<1>2. /\ boxes' \in [BoxIds -> Boxes]
      /\ \A b \in BoxIds : BoxOK(heap, owner, boxes'[b])
  BY DEF SharedInv
<1>3. QED
  BY <1>1, <1>2 DEF SharedInv, HandleOK, BoxOK

\* The first n elements of a handle from its k-th on, as a box; all sums stay in Nat.
LEMMA BoxInside ==
  ASSUME OwnerInv, NEW a \in Handle, HandleOK(heap, owner, a),
         NEW at \in Nat, NEW n \in Words, a.off + a.start <= at, at + n <= a.off + a.end
  PROVE  LET x == [buf |-> a.buf, off |-> at, n |-> n]
         IN  x \in Boxes /\ BoxOK(heap, owner, x)
<1>1. n \in Nat /\ owner.end \in Nat
  BY WordArithmetic, OwnerTyped
<1>2. Region(heap, owner, a.buf, at, at + n)
  BY <1>1, RegionShrinks DEF HandleOK
<1>3. [buf |-> a.buf, off |-> at, n |-> n] \in Boxes
  BY DEF Handle, Boxes
<1>4. QED
  BY <1>2, <1>3 DEF BoxOK

\* A handle with narrower offsets into the same buffer.
LEMMA HandleInside ==
  ASSUME OwnerInv, NEW a \in Handle, HandleOK(heap, owner, a), NEW c \in Handle,
         c.buf = a.buf, c.off = a.off, a.start <= c.start, c.start <= c.end, c.end <= a.end
  PROVE  HandleOK(heap, owner, c)
<1>1. /\ a.off \in Nat /\ a.start \in Nat /\ a.end \in Nat /\ c.start \in Nat
      /\ c.end \in Nat /\ owner.end \in Nat
  BY WordArithmetic, OwnerTyped DEF Handle
<1>2. Region(heap, owner, c.buf, c.off + c.start, c.off + c.end)
  BY <1>1, RegionShrinks DEF HandleOK
<1>3. QED
  BY <1>2 DEF HandleOK

\* The words of a good handle.
LEMMA HandleWords ==
  ASSUME NEW a \in Handle, HandleOK(heap, owner, a)
  PROVE  /\ a.off \in Nat /\ a.start \in Nat /\ a.end \in Nat /\ a.start <= a.end
         /\ a.start \in Words /\ a.end \in Words /\ a.end + 1 <= Modulus
         /\ LenW(a) = a.end - a.start /\ LenW(a) \in Words
<1>1. a.off \in Nat /\ a.start \in Words /\ a.end \in Words /\ a.start <= a.end
  BY DEF HandleOK, Handle
<1>2. \A x \in Words : x \in Nat /\ x + 1 <= Modulus
  BY WordsAssumption DEF Words
<1>3. LenW(a) = a.end - a.start /\ LenW(a) \in Words
  BY <1>1, Length32
<1>4. QED
  BY <1>1, <1>2, <1>3

LEMMA OwnerHandle == OwnerInv => HandleOK(heap, owner, owner)
<1> SUFFICES ASSUME OwnerInv PROVE HandleOK(heap, owner, owner)
  OBVIOUS
<1>1. owner.off = 0 /\ owner.start \in Nat /\ owner.end \in Nat
  BY OwnerTyped DEF OwnerInv
<1>2. owner.off + owner.start = owner.start /\ owner.off + owner.end = owner.end
  BY <1>1
<1>3. QED
  BY <1>2 DEF OwnerInv, HandleOK

LEMMA PopFrontStep ==
  ASSUME OwnerInv, SharedInv, NEW b \in BoxIds, PopFront(b)
  PROVE  OwnerInv' /\ SharedInv'
<1>0. heap' = heap /\ snaps' = snaps
  BY DEF PopFront
<1>1. CASE 1 <= LenW(owner)
  <2>0. HandleOK(heap, owner, owner) /\ owner \in Handle
    BY OwnerHandle DEF OwnerInv
  <2>1. /\ owner.off = 0 /\ owner.start \in Nat /\ owner.end \in Nat
        /\ owner.start + 1 <= owner.end /\ owner.start \in Words
        /\ owner.end + 1 <= Modulus /\ 1 \in Words
    BY <1>1, <2>0, HandleWords, WordsAssumption DEF OwnerInv, Words
  <2>2. AddW(owner.start, 1) = owner.start + 1 /\ owner.start + 1 \in Words
    <3>1. owner.start + 1 < Modulus
      BY <2>1, WordsAssumption DEF Words
    <3>2. QED
      BY <2>1, <3>1, WordArithmetic
  <2>3. owner' = [owner EXCEPT !.start = owner.start + 1]
    BY <1>1, <2>2 DEF PopFront
  <2>4. /\ owner' \in Handle /\ owner'.start = owner.start + 1 /\ owner'.off = owner.off
        /\ owner'.buf = owner.buf /\ owner'.end = owner.end /\ owner'.cap = owner.cap
    BY <2>0, <2>2, <2>3 DEF Handle
  <2>5. \A r, lo, hi : Region(heap, owner, r, lo, hi) => Region(heap', owner', r, lo, hi)
    BY <1>0, <2>4 DEF Region
  <2>6. Region(heap, owner, owner.buf, owner.start + 1, owner.end)
    BY <2>1, RegionShrinks DEF OwnerInv
  <2>7. OwnerInv'
    BY <1>0, <2>1, <2>4, <2>5, <2>6 DEF OwnerInv
  <2>8. LET x == [buf |-> owner.buf, off |-> owner.off + owner.start, n |-> 1]
        IN  x \in Boxes /\ BoxOK(heap, owner, x)
    BY <2>0, <2>1, BoxInside
  <2>9. boxes' = [boxes EXCEPT ![b] =
                    [buf |-> owner.buf, off |-> owner.off + owner.start, n |-> 1]]
    BY <1>1 DEF PopFront
  <2>10. SharedInv'
    BY <1>0, <2>5, <2>8, <2>9, SharedReplaced
  <2>11. QED
    BY <2>7, <2>10
<1>2. CASE ~(1 <= LenW(owner))
  BY <1>0, <1>2 DEF PopFront, OwnerInv, SharedInv
<1>3. QED
  BY <1>1, <1>2

\* The steps that only read the array and the buffers.
LEMMA SharedStep ==
  ASSUME OwnerInv, SharedInv, UNCHANGED <<heap, owner>>,
         \/ snaps' = snaps
         \/ \E s \in SnapIds, a \in Handle :
              HandleOK(heap, owner, a) /\ snaps' = [snaps EXCEPT ![s] = a],
         \/ boxes' = boxes
         \/ \E b \in BoxIds, x \in Boxes :
              BoxOK(heap, owner, x) /\ boxes' = [boxes EXCEPT ![b] = x]
  PROVE  OwnerInv' /\ SharedInv'
<1>1. \A b, lo, hi : Region(heap, owner, b, lo, hi) => Region(heap', owner', b, lo, hi)
  BY DEF Region, Written
<1>2. SharedInv'
  BY <1>1, SharedReplaced
<1>3. QED
  BY <1>2 DEF OwnerInv

LEMMA CopyStep ==
  ASSUME OwnerInv, SharedInv,
         NEW s \in SnapIds, NEW t \in SnapIds,
         SnapshotTake(s) \/ Dup(s, t) \/ Length(s)
  PROVE  OwnerInv' /\ SharedInv'
<1>1. heap' = heap /\ owner' = owner /\ boxes' = boxes
  BY DEF SnapshotTake, Dup, Length
<1>2. HandleOK(heap, owner, owner) /\ owner \in Handle
  BY OwnerHandle DEF OwnerInv
<1>3. HandleOK(heap, owner, snaps[s]) /\ snaps[s] \in Handle
  BY DEF SharedInv
<1>4. \/ snaps' = snaps
      \/ \E r \in SnapIds, a \in Handle :
           HandleOK(heap, owner, a) /\ snaps' = [snaps EXCEPT ![r] = a]
  BY <1>2, <1>3 DEF SnapshotTake, Dup, Length
<1>5. QED
  BY <1>1, <1>4, SharedStep

LEMMA SnapshotPopStep ==
  ASSUME OwnerInv, SharedInv, NEW s \in SnapIds, NEW b \in BoxIds, NEW back \in BOOLEAN,
         NEW n \in Words \ {0}, NEW checks, SnapshotPop(s, b, n, checks, back)
  PROVE  OwnerInv' /\ SharedInv'
<1> DEFINE a == snaps[s]
           end == SubW(a.end, n)
           at == a.off + (IF back THEN end ELSE a.start)
           rest == IF back THEN [a EXCEPT !.end = end] ELSE [a EXCEPT !.start = AddW(@, n)]
           x == [buf |-> a.buf, off |-> at, n |-> n]
<1>0. heap' = heap /\ owner' = owner
  BY DEF SnapshotPop
<1>1. HandleOK(heap, owner, a) /\ a \in Handle /\ n \in Words /\ n \in Nat /\ n >= 1
  BY WordArithmetic DEF SharedInv
<1>2. CASE n <= LenW(a)
  <2>1. /\ a.off \in Nat /\ a.start \in Nat /\ a.end \in Nat /\ a.start <= a.end
        /\ a.start \in Words /\ a.end \in Words /\ a.end + 1 <= Modulus
        /\ n <= a.end - a.start
    BY <1>1, <1>2, HandleWords
  <2>2. end = a.end - n /\ end \in Words /\ end \in Nat
    BY <1>1, <2>1, WordArithmetic
  <2>3. AddW(a.start, n) = a.start + n /\ a.start + n \in Words
    <3>1. a.start + n < Modulus
      BY <1>1, <2>1, WordsAssumption DEF Words
    <3>2. QED
      BY <1>1, <2>1, <3>1, WordArithmetic
  <2>4. at \in Nat /\ a.off + a.start <= at /\ at + n <= a.off + a.end
    BY <1>1, <2>1, <2>2
  <2>5. /\ rest \in Handle /\ rest.buf = a.buf /\ rest.off = a.off
        /\ a.start <= rest.start /\ rest.start <= rest.end /\ rest.end <= a.end
    <3>1. CASE back
      BY <1>1, <2>1, <2>2, <3>1 DEF Handle
    <3>2. CASE ~back
      BY <1>1, <2>1, <2>3, <3>2 DEF Handle
    <3>3. QED
      BY <3>1, <3>2
  <2>6. snaps' = [snaps EXCEPT ![s] = rest] /\ boxes' = [boxes EXCEPT ![b] = x]
    BY <1>2 DEF SnapshotPop
  <2> HIDE DEF a, at, rest
  <2>7. HandleOK(heap, owner, rest)
    BY <1>1, <2>5, HandleInside
  <2>8. x \in Boxes /\ BoxOK(heap, owner, x)
    BY <1>1, <2>4, BoxInside
  <2>9. QED
    BY <1>0, <2>5, <2>6, <2>7, <2>8, SharedStep
<1>3. CASE ~(n <= LenW(a))
  BY <1>0, <1>3, SharedStep DEF SnapshotPop
<1>4. QED
  BY <1>2, <1>3

LEMMA GetStep ==
  ASSUME OwnerInv, SharedInv, NEW s \in SnapIds, NEW b \in BoxIds, NEW i \in Words,
         Get(s, i, b)
  PROVE  OwnerInv' /\ SharedInv'
<1> DEFINE a == snaps[s]
           x == [buf |-> a.buf, off |-> a.off + AddW(a.start, i), n |-> 1]
<1>0. heap' = heap /\ owner' = owner /\ snaps' = snaps
  BY DEF Get
<1>1. HandleOK(heap, owner, a) /\ a \in Handle /\ i \in Nat /\ 1 \in Words
  BY WordArithmetic, WordsAssumption DEF SharedInv, Words
<1>2. CASE i < LenW(a)
  <2>1. /\ a.off \in Nat /\ a.start \in Nat /\ a.end \in Nat /\ a.start <= a.end
        /\ a.start \in Words /\ a.end + 1 <= Modulus /\ i < a.end - a.start
    BY <1>1, <1>2, HandleWords
  <2>2. AddW(a.start, i) = a.start + i
    <3>1. a.start + i < Modulus
      BY <1>1, <2>1, WordsAssumption DEF Words
    <3>2. QED
      BY <2>1, <3>1, WordArithmetic
  <2>3. /\ a.off + AddW(a.start, i) \in Nat /\ a.off + a.start <= a.off + AddW(a.start, i)
        /\ a.off + AddW(a.start, i) + 1 <= a.off + a.end
    BY <1>1, <2>1, <2>2
  <2>4. boxes' = [boxes EXCEPT ![b] = x]
    BY <1>2 DEF Get
  <2>5. x \in Boxes /\ BoxOK(heap, owner, x)
    BY <1>1, <2>3, BoxInside
  <2>6. QED
    BY <1>0, <2>4, <2>5, SharedStep
<1>3. CASE ~(i < LenW(a))
  BY <1>0, <1>3, SharedStep DEF Get
<1>4. QED
  BY <1>2, <1>3

LEMMA SliceStep ==
  ASSUME OwnerInv, SharedInv, NEW s \in SnapIds, NEW from \in Words, NEW n \in Words,
         Slice(s, from, n)
  PROVE  OwnerInv' /\ SharedInv'
<1> DEFINE a == snaps[s]
           start == AddW(a.start, from)
           c == [a EXCEPT !.start = start, !.end = AddW(start, n)]
<1>0. heap' = heap /\ owner' = owner /\ boxes' = boxes
  BY DEF Slice
<1>1. HandleOK(heap, owner, a) /\ a \in Handle /\ from \in Nat /\ n \in Nat
  BY WordArithmetic DEF SharedInv
<1>2. CASE SliceFits(a, from, n)
  <2>1. /\ a.start \in Nat /\ a.end \in Nat /\ a.start <= a.end /\ a.start \in Words
        /\ a.end + 1 <= Modulus /\ from + n <= a.end - a.start
    BY <1>1, <1>2, HandleWords DEF SliceFits
  <2>2. a.start + from < Modulus /\ (a.start + from) + n < Modulus
    BY <1>1, <2>1, WordsAssumption DEF Words
  <2>3. start = a.start + from /\ start \in Words
    BY <2>1, <2>2, WordArithmetic
  <2>4. AddW(start, n) = a.start + from + n /\ AddW(start, n) \in Words
    BY <2>2, <2>3, WordArithmetic
  <2>5. /\ c \in Handle /\ c.buf = a.buf /\ c.off = a.off
        /\ a.start <= c.start /\ c.start <= c.end /\ c.end <= a.end
    <3>1. c \in Handle /\ c.buf = a.buf /\ c.off = a.off /\ c.start = start
          /\ c.end = AddW(start, n)
      BY <1>1, <2>3, <2>4 DEF Handle
    <3>2. QED
      BY <1>1, <2>1, <2>3, <2>4, <3>1
  <2>6. snaps' = [snaps EXCEPT ![s] = c]
    BY <1>2 DEF Slice
  <2> HIDE DEF a, c
  <2>7. HandleOK(heap, owner, c)
    BY <1>1, <2>5, HandleInside
  <2>8. QED
    BY <1>0, <2>5, <2>6, <2>7, SharedStep
<1>3. CASE ~SliceFits(a, from, n)
  BY <1>0, <1>3, SharedStep DEF Slice
<1>4. QED
  BY <1>2, <1>3

LEMMA TupleStep ==
  ASSUME OwnerInv, SharedInv, NEW s \in SnapIds, NEW b \in BoxIds, NEW n \in PopLens,
         TupleFromSpan(s, b, n)
  PROVE  OwnerInv' /\ SharedInv'
<1> DEFINE a == snaps[s]
           x == [buf |-> a.buf, off |-> a.off + a.start, n |-> n]
<1>0. heap' = heap /\ owner' = owner /\ snaps' = snaps
  BY DEF TupleFromSpan
<1>1. HandleOK(heap, owner, a) /\ a \in Handle /\ n \in Words /\ n \in Nat
  BY WordArithmetic, WordsAssumption DEF SharedInv
<1>2. CASE LenW(a) = n
  <2>1. /\ a.off \in Nat /\ a.start \in Nat /\ a.end \in Nat /\ n = a.end - a.start
    BY <1>1, <1>2, HandleWords
  <2>2. /\ a.off + a.start \in Nat /\ a.off + a.start <= a.off + a.start
        /\ a.off + a.start + n <= a.off + a.end
    BY <1>1, <2>1
  <2>3. boxes' = [boxes EXCEPT ![b] = x]
    BY <1>2 DEF TupleFromSpan
  <2>4. x \in Boxes /\ BoxOK(heap, owner, x)
    BY <1>1, <2>2, BoxInside
  <2>5. QED
    BY <1>0, <2>3, <2>4, SharedStep
<1>3. CASE LenW(a) # n
  BY <1>0, <1>3, SharedStep DEF TupleFromSpan
<1>4. QED
  BY <1>2, <1>3

LEMMA SpanStep ==
  ASSUME OwnerInv, SharedInv, NEW s \in SnapIds, NEW b \in BoxIds, SpanFromTuple(b, s)
  PROVE  OwnerInv' /\ SharedInv'
<1> DEFINE x == boxes[b]
           c == [buf |-> x.buf, off |-> x.off, start |-> 0, end |-> x.n, cap |-> x.n]
<1>0. heap' = heap /\ owner' = owner /\ boxes' = boxes
  BY DEF SpanFromTuple
<1>1. BoxOK(heap, owner, x) /\ x \in Boxes
  BY DEF SharedInv
<1>2. x.off \in Nat /\ x.n \in Nat /\ x.n \in Words /\ 0 \in Words
  BY <1>1, WordArithmetic DEF Boxes
<1>3. c \in Handle /\ c.start <= c.end
  BY <1>1, <1>2 DEF Boxes, Handle
<1>4. x.off + 0 = x.off
  BY <1>2
<1>5. Region(heap, owner, c.buf, c.off + c.start, c.off + c.end)
  BY <1>1, <1>4 DEF BoxOK
<1>6. snaps' = [snaps EXCEPT ![s] = c]
  BY DEF SpanFromTuple
<1> HIDE DEF c
<1>7. HandleOK(heap, owner, c)
  BY <1>3, <1>5 DEF HandleOK
<1>8. QED
  BY <1>0, <1>3, <1>6, <1>7, SharedStep

-----------------------------------------------------------------------------
(* The invariant *)

LEMMA BranchTyped ==
  \A b, c \in 0..1 : Branch(b, c) \in [branch : 0..1, checks : 0..1, len : Words]
  BY WordArithmetic DEF Branch

LEMMA ReplyStep ==
  ASSUME SharedInv, ReplyInv, [Next]_vars
  PROVE  ReplyInv'
<1> DEFINE Answer == \E b, c \in 0..1 : reply' = Branch(b, c)
<1>1. Answer => ReplyInv'
  BY BranchTyped DEF ReplyInv
<1>2. New => Answer
  BY DEF New
<1>3. ASSUME NEW n, Receive(n) PROVE Answer
  BY <1>3 DEF Receive
<1>4. ASSUME NEW v, AppendInPlace(v) \/ AppendGrowing(v) PROVE Answer
  BY <1>4 DEF AppendInPlace, AppendGrowing
<1>5. ASSUME NEW b, PopFront(b) PROVE Answer
  BY <1>5 DEF PopFront
<1>6. ASSUME NEW s, NEW t, SnapshotTake(s) \/ Dup(s, t) PROVE Answer
  BY <1>6 DEF SnapshotTake, Dup
<1>7. ASSUME NEW s, NEW b, NEW n, NEW c \in 0..1, NEW back, SnapshotPop(s, b, n, c, back)
      PROVE  Answer
  BY <1>7 DEF SnapshotPop
<1>8. ASSUME NEW s, NEW i, NEW b, Get(s, i, b) PROVE Answer
  BY <1>8 DEF Get
<1>9. ASSUME NEW s, NEW from, NEW n, Slice(s, from, n) PROVE Answer
  BY <1>9 DEF Slice
<1>10. ASSUME NEW s, NEW b, NEW n, TupleFromSpan(s, b, n) \/ SpanFromTuple(b, s) PROVE Answer
  BY <1>10 DEF TupleFromSpan, SpanFromTuple
<1>11. ASSUME NEW s \in SnapIds, Length(s) PROVE ReplyInv'
  <2>1. HandleOK(heap, owner, snaps[s]) /\ snaps[s] \in Handle
    BY DEF SharedInv
  <2>2. LenW(snaps[s]) \in Words
    BY <2>1, HandleWords
  <2>3. reply' = [Branch(0, 0) EXCEPT !.len = LenW(snaps[s])]
    BY <1>11 DEF Length
  <2>4. QED
    BY <2>2, <2>3 DEF ReplyInv, Branch
<1>12. CASE UNCHANGED vars
  BY <1>12 DEF ReplyInv, vars
<1> HIDE DEF Answer
<1>13. QED
  BY <1>1, <1>2, <1>3, <1>4, <1>5, <1>6, <1>7, <1>8, <1>9, <1>10, <1>11, <1>12 DEF Next

LEMMA IInvInit == Init => IInv
<1> SUFFICES ASSUME Init PROVE IInv
  OBVIOUS
<1>1. /\ heap = <<>> /\ owner = NullArray /\ reply = Branch(0, 0)
      /\ snaps = [s \in SnapIds |-> NullArray] /\ boxes = [b \in BoxIds |-> NullBox]
  BY DEF Init
<1>2. HeapInv /\ Len(heap) \in Nat
  BY <1>1, WordsAssumption DEF HeapInv
<1>3. /\ NullArray.buf = 0 /\ NullArray.off = 0 /\ NullArray.start = 0
      /\ NullArray.end = 0 /\ NullArray.cap = 0
      /\ NullBox.buf = 0 /\ NullBox.off = 0 /\ NullBox.n = 0
  BY DEF NullArray, NullBox
<1>4. NullArray \in Handle /\ NullBox \in Boxes
  BY WordArithmetic, WordsAssumption DEF NullArray, NullBox, Handle, Boxes
<1>5. Region(heap, NullArray, 0, 0, 0)
  BY <1>2, <1>3, NullRegion
<1>6. OwnerInv
  BY <1>1, <1>3, <1>4, <1>5, WordsAssumption, WordArithmetic DEF OwnerInv
<1>7. HandleOK(heap, owner, NullArray) /\ BoxOK(heap, owner, NullBox)
  BY <1>1, <1>3, <1>4, <1>5 DEF HandleOK, BoxOK
<1>8. SharedInv
  BY <1>1, <1>4, <1>7 DEF SharedInv
<1>9. ReplyInv
  BY <1>1, BranchTyped DEF ReplyInv
<1>10. QED
  BY <1>2, <1>6, <1>8, <1>9 DEF IInv

\* The steps that leave the arena alone.
LEMMA ReadingStep ==
  ASSUME HeapInv, OwnerInv, SharedInv,
         \/ \E b \in BoxIds : PopFront(b)
         \/ \E s \in SnapIds : SnapshotTake(s) \/ Length(s)
         \/ \E s, t \in SnapIds : Dup(s, t)
         \/ \E s \in SnapIds, b \in BoxIds, back \in BOOLEAN :
              \/ SnapshotPop(s, b, 1, 0, back)
              \/ \E n \in PopLens : SnapshotPop(s, b, n, 1, back)
         \/ \E s \in SnapIds, b \in BoxIds, i \in Words : Get(s, i, b)
         \/ \E s \in SnapIds, from, n \in Words : Slice(s, from, n)
         \/ \E s \in SnapIds, b \in BoxIds :
              \/ \E n \in PopLens : TupleFromSpan(s, b, n)
              \/ SpanFromTuple(b, s)
  PROVE  heap' = heap /\ OwnerInv' /\ SharedInv'
<1>1. heap' = heap
  BY DEF PopFront, SnapshotTake, Length, Dup, SnapshotPop, Get, Slice, TupleFromSpan,
         SpanFromTuple
<1>2. 1 \in Words \ {0} /\ \A n \in PopLens : n \in Words \ {0}
  BY WordsAssumption DEF Words
<1>3. ASSUME NEW b \in BoxIds, PopFront(b) PROVE OwnerInv' /\ SharedInv'
  BY <1>3, PopFrontStep
<1>4. ASSUME NEW s \in SnapIds, NEW t \in SnapIds, SnapshotTake(s) \/ Dup(s, t) \/ Length(s)
      PROVE  OwnerInv' /\ SharedInv'
  BY <1>4, CopyStep
<1>5. ASSUME NEW s \in SnapIds, NEW b \in BoxIds, NEW back \in BOOLEAN,
             SnapshotPop(s, b, 1, 0, back)
      PROVE  OwnerInv' /\ SharedInv'
  BY <1>2, <1>5, SnapshotPopStep
<1>6. ASSUME NEW s \in SnapIds, NEW b \in BoxIds, NEW back \in BOOLEAN, NEW n \in PopLens,
             SnapshotPop(s, b, n, 1, back)
      PROVE  OwnerInv' /\ SharedInv'
  <2>1. n \in Words \ {0}
    BY <1>2
  <2>2. QED
    BY <1>6, <2>1, SnapshotPopStep
<1>7. ASSUME NEW s \in SnapIds, NEW b \in BoxIds, NEW i \in Words, Get(s, i, b)
      PROVE  OwnerInv' /\ SharedInv'
  BY <1>7, GetStep
<1>8. ASSUME NEW s \in SnapIds, NEW from \in Words, NEW n \in Words, Slice(s, from, n)
      PROVE  OwnerInv' /\ SharedInv'
  BY <1>8, SliceStep
<1>9. ASSUME NEW s \in SnapIds, NEW b \in BoxIds, NEW n \in PopLens, TupleFromSpan(s, b, n)
      PROVE  OwnerInv' /\ SharedInv'
  BY <1>9, TupleStep
<1>10. ASSUME NEW s \in SnapIds, NEW b \in BoxIds, SpanFromTuple(b, s)
       PROVE  OwnerInv' /\ SharedInv'
  BY <1>10, SpanStep
<1>11. QED
  BY <1>1, <1>3, <1>4, <1>5, <1>6, <1>7, <1>8, <1>9, <1>10

\* What a step of the program may do to the memory that others share.
Preserved == \A b \in DOMAIN heap :
               \A i \in DOMAIN heap[b] : heap[b][i] # Undef => heap'[b][i] = heap[b][i]

LEMMA IInvStep ==
  ASSUME HalfRange, IInv, [Next]_vars
  PROVE  IInv' /\ Preserved
<1> USE DEF IInv
<1>1. ReplyInv'
  BY ReplyStep
<1>2. (heap' = heap) => (HeapInv' /\ Preserved)
  BY DEF HeapInv, Preserved
<1>3. CASE New
  <2>1. heap' = heap
    BY <1>3 DEF New
  <2>2. QED
    BY <1>1, <1>2, <1>3, <2>1, NewStep
<1>4. ASSUME NEW n \in ReceiveLens, Receive(n) PROVE IInv' /\ Preserved
  <2>1. HeapInv' /\ OwnerInv' /\ SharedInv'
    BY <1>4, ReceiveStep
  <2>2. CASE heap' = heap
    BY <1>1, <1>2, <2>1, <2>2
  <2>3. CASE heap' # heap
    <3>1. PICK data \in [0..(n - 1) -> Values] :
            heap' = Append(heap, data) /\ Len(heap) < MaxBuffers
      BY <1>4, <2>3 DEF Receive
    <3>2. n \in Words
      BY WordsAssumption DEF Words
    <3>3. data \in Buffers
      BY <3>2 DEF Buffers
    <3>4. \A b \in DOMAIN heap : heap'[b] = heap[b]
      BY <3>1, <3>3, PushRegions, HeapTyped
    <3>5. QED
      BY <1>1, <2>1, <3>4 DEF Preserved
  <2>4. QED
    BY <2>2, <2>3
<1>5. ASSUME NEW v \in Values, AppendInPlace(v) PROVE IInv' /\ Preserved
  BY <1>1, <1>5, AppendInPlaceStep DEF Preserved
<1>6. ASSUME NEW v \in Values, AppendGrowing(v) PROVE IInv' /\ Preserved
  BY <1>1, <1>6, AppendGrowingStep DEF Preserved
<1>7. CASE \/ \E b \in BoxIds : PopFront(b)
           \/ \E s \in SnapIds : SnapshotTake(s) \/ Length(s)
           \/ \E s, t \in SnapIds : Dup(s, t)
           \/ \E s \in SnapIds, b \in BoxIds, back \in BOOLEAN :
                \/ SnapshotPop(s, b, 1, 0, back)
                \/ \E n \in PopLens : SnapshotPop(s, b, n, 1, back)
           \/ \E s \in SnapIds, b \in BoxIds, i \in Words : Get(s, i, b)
           \/ \E s \in SnapIds, from, n \in Words : Slice(s, from, n)
           \/ \E s \in SnapIds, b \in BoxIds :
                \/ \E n \in PopLens : TupleFromSpan(s, b, n)
                \/ SpanFromTuple(b, s)
  BY <1>1, <1>2, <1>7, ReadingStep
<1>8. CASE UNCHANGED vars
  BY <1>1, <1>2, <1>8 DEF vars, OwnerInv, SharedInv, HeapInv
<1>9. QED
  BY <1>3, <1>4, <1>5, <1>6, <1>7, <1>8 DEF Next

LEMMA Inductive == HalfRange => (Spec => []IInv)
<1>1. SUFFICES ASSUME HalfRange PROVE Spec => []IInv
  OBVIOUS
<1>2. IInv /\ [Next]_vars => IInv'
  BY <1>1, IInvStep
<1>3. QED
  BY <1>2, IInvInit, PTL DEF Spec

-----------------------------------------------------------------------------
(* Theorems *)

\* Array, snapshot and box variables hold handles of their types whatever the program
\* does: offsets and lengths computed in u32 by array.rs stay words.
THEOREM TypeCorrect == ASSUME HalfRange PROVE Spec => []TypeOK
<1>1. IInv => TypeOK
  BY DEF IInv, HeapInv, OwnerInv, SharedInv, ReplyInv, TypeOK, Buffers, Boxes
<1>2. QED
  BY <1>1, Inductive, PTL

LEMMA HandleReads ==
  ASSUME NEW a \in Handle, HandleOK(heap, owner, a), NEW c \in Cells(a)
  PROVE  InBuffer(c[1], c[2]) /\ heap[c[1]][c[2]] # Undef
<1>1. PICK i \in a.start..(a.end - 1) : c = <<a.buf, a.off + i>>
  BY DEF Cells
<1>2. a.off \in Nat /\ a.start \in Nat /\ a.end \in Nat
  BY HandleWords
<1>3. a.off + i \in Int /\ a.off + a.start <= a.off + i /\ a.off + i < a.off + a.end
  BY <1>1, <1>2
<1>4. QED
  BY <1>1, <1>3 DEF HandleOK, Region, Written, InBuffer

LEMMA BoxReads ==
  ASSUME NEW x \in Boxes, BoxOK(heap, owner, x), NEW c \in BoxCells(x)
  PROVE  InBuffer(c[1], c[2]) /\ heap[c[1]][c[2]] # Undef
<1>1. PICK i \in 0..(x.n - 1) : c = <<x.buf, x.off + i>>
  BY DEF BoxCells
<1>2. x.off \in Nat /\ x.n \in Nat
  BY WordArithmetic DEF Boxes
<1>3. x.off + i \in Int /\ x.off <= x.off + i /\ x.off + i < x.off + x.n
  BY <1>1, <1>2
<1>4. QED
  BY <1>1, <1>3 DEF BoxOK, Region, Written, InBuffer

\* No libfunc of array.rs loads outside a buffer or loads memory that nobody wrote, and
\* the capacity the owner carries is the size of the buffer it carries.
THEOREM ReadsStayInBounds == ASSUME HalfRange PROVE Spec => []InBounds
<1>1. IInv => InBounds
  <2> SUFFICES ASSUME IInv PROVE InBounds
    OBVIOUS
  <2> USE DEF IInv
  <2>1. ASSUME NEW c \in Cells(owner) PROVE InBuffer(c[1], c[2]) /\ heap[c[1]][c[2]] # Undef
    BY <2>1, OwnerHandle, HandleReads DEF OwnerInv
  <2>2. ASSUME NEW s \in SnapIds, NEW c \in Cells(snaps[s])
        PROVE  InBuffer(c[1], c[2]) /\ heap[c[1]][c[2]] # Undef
    <3>1. snaps[s] \in Handle /\ HandleOK(heap, owner, snaps[s])
      BY DEF SharedInv
    <3>2. QED
      BY <3>1, HandleReads
  <2>3. ASSUME NEW b \in BoxIds, NEW c \in BoxCells(boxes[b])
        PROVE  InBuffer(c[1], c[2]) /\ heap[c[1]][c[2]] # Undef
    <3>1. boxes[b] \in Boxes /\ BoxOK(heap, owner, boxes[b])
      BY DEF SharedInv
    <3>2. QED
      BY <3>1, BoxReads
  <2>4. ASSUME NEW c \in Cells(owner) \cup (UNION {Cells(snaps[s]) : s \in SnapIds})
                                      \cup (UNION {BoxCells(boxes[b]) : b \in BoxIds})
        PROVE  InBuffer(c[1], c[2]) /\ heap[c[1]][c[2]] # Undef
    <3>1. \/ c \in Cells(owner)
          \/ \E s \in SnapIds : c \in Cells(snaps[s])
          \/ \E b \in BoxIds : c \in BoxCells(boxes[b])
      OBVIOUS
    <3>2. QED
      BY <2>1, <2>2, <2>3, <3>1
  <2>5. /\ owner.buf # 0 => owner.off = 0 /\ DOMAIN heap[owner.buf] = 0..(owner.cap - 1)
        /\ owner.end <= owner.cap /\ owner.start <= owner.end
    BY DEF OwnerInv
  <2>6. QED
    BY <2>4, <2>5 DEF InBounds
<1>2. QED
  BY <1>1, Inductive, PTL

\* When array_append stores in place, into a buffer that snapshots and boxes share,
\* nobody but the owner can see the cell.
THEOREM AppendCellUnshared == ASSUME HalfRange PROVE Spec => []TailUnshared
<1>1. IInv => TailUnshared
  <2> SUFFICES ASSUME IInv, NEW i \in Nat \cap (owner.end..owner.cap)
               PROVE  LET cell == <<owner.buf, owner.off + i>>
                      IN  /\ \A s \in SnapIds : cell \notin Cells(snaps[s])
                          /\ \A b \in BoxIds : cell \notin BoxCells(boxes[b])
    BY DEF TailUnshared
  <2>1. owner.off + i = i /\ owner.end \in Nat /\ owner.end <= i
    BY OwnerTyped DEF IInv, OwnerInv
  <2>2. ASSUME NEW s \in SnapIds, <<owner.buf, i>> \in Cells(snaps[s]) PROVE FALSE
    <3> DEFINE a == snaps[s]
    <3>1. a \in Handle /\ HandleOK(heap, owner, a)
      BY DEF IInv, SharedInv
    <3>2. PICK k \in a.start..(a.end - 1) : <<owner.buf, i>> = <<a.buf, a.off + k>>
      BY <2>2 DEF Cells
    <3>3. a.off \in Nat /\ a.start \in Nat /\ a.end \in Nat
      BY <3>1, HandleWords
    <3>4. owner.buf = a.buf /\ i = a.off + k /\ i < a.off + a.end
      BY <3>2, <3>3
    <3>5. a.off + a.end <= owner.end
      BY <3>1, <3>4 DEF HandleOK, Region
    <3>6. QED
      BY <2>1, <3>3, <3>4, <3>5
  <2>3. ASSUME NEW b \in BoxIds, <<owner.buf, i>> \in BoxCells(boxes[b]) PROVE FALSE
    <3> DEFINE x == boxes[b]
    <3>1. x \in Boxes /\ BoxOK(heap, owner, x)
      BY DEF IInv, SharedInv
    <3>2. PICK k \in 0..(x.n - 1) : <<owner.buf, i>> = <<x.buf, x.off + k>>
      BY <2>3 DEF BoxCells
    <3>3. x.off \in Nat /\ x.n \in Nat
      BY <3>1, WordArithmetic DEF Boxes
    <3>4. owner.buf = x.buf /\ i = x.off + k /\ i < x.off + x.n
      BY <3>2, <3>3
    <3>5. x.off + x.n <= owner.end
      BY <3>1, <3>4 DEF BoxOK, Region
    <3>6. QED
      BY <2>1, <3>3, <3>4, <3>5
  <2>4. QED
    BY <2>1, <2>2, <2>3
<1>2. QED
  BY <1>1, Inductive, PTL

\* A cell that holds an element keeps it as long as the arena lives: growth abandons
\* buffers to their snapshots and never recycles them.
THEOREM WrittenOnce == ASSUME HalfRange PROVE Spec => WriteOnce
<1>1. IInv /\ [Next]_vars =>
        [\A b \in DOMAIN heap :
           \A i \in DOMAIN heap[b] : heap[b][i] # Undef => heap'[b][i] = heap[b][i]]_vars
  BY IInvStep DEF Preserved
<1>2. QED
  BY <1>1, Inductive, PTL DEF Spec, WriteOnce

-----------------------------------------------------------------------------
(***************************************************************************)
(* ArrayArena implements ArraySpec: arrays that stay below half the range  *)
(* of a word behave as values.  Every step of the words and buffers is the *)
(* step of the same name on sequences; receiving and both ways of          *)
(* appending included.                                                     *)
(*                                                                         *)
(* The value of a handle is a span of its buffer.  Steps that only read    *)
(* move offsets, so their results are parts of a span; steps that write    *)
(* keep every span that the invariant says is written, and extend the      *)
(* owner's by one element.                                                 *)
(***************************************************************************)
(* Spans *)

\* What a load finds in heap h, and n elements of buffer b from lo on.
Cell(h, b, i) == IF b \in DOMAIN h /\ i \in DOMAIN h[b] THEN h[b][i] ELSE Undef
Span(h, b, lo, n) == [i \in 1..n |-> Cell(h, b, lo + i - 1)]

\* A set that holds every element a span of b can hold.
AllCells(h, b) == {Cell(h, b, k) : k \in Int}

LEMMA SpanLen ==
  ASSUME NEW h, NEW b, NEW lo \in Nat, NEW n \in Nat
  PROVE  Len(Span(h, b, lo, n)) = n
BY DEF Span

LEMMA SpanSeq ==
  ASSUME NEW h, NEW b, NEW lo \in Nat, NEW n \in Nat
  PROVE  Span(h, b, lo, n) \in Seq(AllCells(h, b))
<1>1. \A i \in 1..n : lo + i - 1 \in Int
  OBVIOUS
<1>2. \A i \in 1..n : Cell(h, b, lo + i - 1) \in AllCells(h, b)
  BY <1>1 DEF AllCells
<1> QED
  BY <1>2 DEF Span

\* A stretch of a span is a shorter span of the same buffer.
Part(s, i, j) == SubSeq(s, i, j)

LEMMA SpanPart ==
  ASSUME NEW h, NEW b, NEW lo \in Nat, NEW n \in Nat,
         NEW i \in Nat \ {0}, NEW j \in Nat, i <= j + 1, j <= n,
         NEW from \in Nat, from = lo + (i - 1), NEW m \in Nat, m = j - i + 1
  PROVE  Part(Span(h, b, lo, n), i, j) = Span(h, b, from, m)
<1> DEFINE S == AllCells(h, b)
           s == Span(h, b, lo, n)
           t == Span(h, b, from, m)
           u == SubSeq(s, i, j)
<1>0. m \in Nat /\ from \in Nat
  OBVIOUS
<1>1. s \in Seq(S) /\ Len(s) = n /\ \A k \in 1..n : s[k] = Cell(h, b, lo + k - 1)
  <2>1. s \in Seq(S) /\ Len(s) = n
    BY SpanSeq, SpanLen
  <2>2. \A k \in 1..n : s[k] = Cell(h, b, lo + k - 1)
    BY DEF Span
  <2> QED
    BY <2>1, <2>2
<1>2. t \in Seq(S) /\ Len(t) = m /\ \A k \in 1..m : t[k] = Cell(h, b, from + k - 1)
  <2>1. t \in Seq(S) /\ Len(t) = m
    BY ONLY <1>0, SpanSeq, SpanLen
  <2>2. \A k \in 1..m : t[k] = Cell(h, b, from + k - 1)
    BY DEF Span
  <2> QED
    BY <2>1, <2>2
<1> HIDE DEF S, s, t
<1>3. u \in Seq(S) /\ Len(u) = m /\ \A k \in 1..m : u[k] = s[i + k - 1]
  <2>1. \A k \in i..j : s[k] \in S
    BY <1>1
  <2>2. i \in Int /\ j \in Int /\ m = j - i + 1 /\ (i <= j \/ m = 0)
    OBVIOUS
  <2>3. /\ u \in Seq(S) /\ Len(u) = IF i <= j THEN j - i + 1 ELSE 0
        /\ \A k \in 1..(j - i + 1) : u[k] = s[i + k - 1]
    BY ONLY <2>1, <2>2, SubSeqProperties
  <2>4. Len(u) = m
    BY <2>2, <2>3
  <2> QED
    BY ONLY <2>2, <2>3, <2>4
<1> HIDE DEF u
<1>4. \A k \in 1..m : u[k] = t[k]
  <2> SUFFICES ASSUME NEW k \in 1..m PROVE u[k] = t[k]
    OBVIOUS
  <2>1. i + k - 1 \in 1..n /\ lo + (i + k - 1) - 1 = from + k - 1
    OBVIOUS
  <2> QED
    BY <1>1, <1>2, <1>3, <2>1
<1>5. u = t
  BY ONLY <1>2, <1>3, <1>4, SeqEqual
<1> QED
  BY <1>5 DEF u, s, t, Part

\* The same elements elsewhere, or in a heap that has changed.
LEMMA SpanKept ==
  ASSUME NEW h, NEW b, NEW lo, NEW n, NEW g, NEW c, NEW from,
         \A i \in 1..n : Cell(g, c, from + i - 1) = Cell(h, b, lo + i - 1)
  PROVE  Span(g, c, from, n) = Span(h, b, lo, n)
BY DEF Span

LEMMA SpanEmpty == \A h, b, lo : Span(h, b, lo, 0) = <<>>
BY DEF Span

\* One more cell is one more element.
LEMMA SpanAppend ==
  ASSUME NEW h, NEW b, NEW lo \in Nat, NEW n \in Nat
  PROVE  Append(Span(h, b, lo, n), Cell(h, b, lo + n)) = Span(h, b, lo, n + 1)
<1> DEFINE S == AllCells(h, b)
           s == Span(h, b, lo, n)
           t == Span(h, b, lo, n + 1)
           v == Cell(h, b, lo + n)
           u == Append(s, v)
<1>0. n + 1 \in Nat /\ lo + n \in Int
  OBVIOUS
<1>1. s \in Seq(S) /\ Len(s) = n /\ \A i \in 1..n : s[i] = Cell(h, b, lo + i - 1)
  <2>1. s \in Seq(S) /\ Len(s) = n
    BY SpanSeq, SpanLen
  <2>2. \A i \in 1..n : s[i] = Cell(h, b, lo + i - 1)
    BY DEF Span
  <2> QED
    BY <2>1, <2>2
<1>2. t \in Seq(S) /\ Len(t) = n + 1 /\ \A i \in 1..(n + 1) : t[i] = Cell(h, b, lo + i - 1)
  <2>1. t \in Seq(S) /\ Len(t) = n + 1
    BY <1>0, SpanSeq, SpanLen
  <2>2. \A i \in 1..(n + 1) : t[i] = Cell(h, b, lo + i - 1)
    BY DEF Span
  <2> QED
    BY <2>1, <2>2
<1>3. v \in S
  BY <1>0 DEF AllCells
<1>6. lo + (n + 1) - 1 = lo + n /\ n + 1 \in 1..(n + 1)
  OBVIOUS
<1>7. t[n + 1] = v
  BY <1>2, <1>6
<1> HIDE DEF S, s, t, v
<1>4. u \in Seq(S) /\ Len(u) = n + 1 /\ u[n + 1] = v /\ \A i \in 1..n : u[i] = s[i]
  BY <1>1, <1>3
<1> HIDE DEF u
<1>5. \A i \in 1..(n + 1) : u[i] = t[i]
  <2> SUFFICES ASSUME NEW i \in 1..(n + 1) PROVE u[i] = t[i]
    OBVIOUS
  <2>1. CASE i \in 1..n
    BY <1>1, <1>2, <1>4, <2>1
  <2>2. CASE i \notin 1..n
    <3>1. i = n + 1
      BY <2>2
    <3> QED
      BY <1>4, <1>7, <3>1
  <2> QED
    BY <2>1, <2>2
<1>8. u = t
  BY ONLY <1>2, <1>4, <1>5, SeqEqual
<1> QED
  BY <1>8 DEF u, s, t, v

LEMMA SpanTail ==
  ASSUME NEW h, NEW b, NEW lo \in Nat, NEW n \in Nat, n >= 1
  PROVE  Span(h, b, lo, n) # <<>> /\ Tail(Span(h, b, lo, n)) = Span(h, b, lo + 1, n - 1)
<1> DEFINE S == AllCells(h, b)
           s == Span(h, b, lo, n)
<1>1. s \in Seq(S) /\ Len(s) = n
  BY ONLY SpanSeq, SpanLen, lo \in Nat, n \in Nat
<1>2. SubSeq(s, 2, n) = Span(h, b, lo + 1, n - 1)
  <2> DEFINE from == lo + 1
             m == n - 1
             i == 2
  <2>1. i \in Nat \ {0} /\ i <= n + 1 /\ n <= n /\ from = lo + (i - 1) /\ m = n - i + 1
      /\ from \in Nat /\ m \in Nat
    OBVIOUS
  <2> HIDE DEF from, m, i
  <2>2. Part(s, i, n) = Span(h, b, from, m)
    BY <2>1, SpanPart
  <2> QED
    BY <2>2 DEF from, m, i, Part
<1> HIDE DEF S, s
<1>3. s # <<>>
  BY <1>1, EmptySeq
<1>4. Tail(s) = SubSeq(s, 2, Len(s))
  BY ONLY <1>1, <1>3, TailIsSubSeq
<1> QED
  BY <1>1, <1>2, <1>3, <1>4 DEF s

-----------------------------------------------------------------------------
(* The values of the program's variables. *)

Held(h, a) == Span(h, a.buf, a.off + a.start, a.end - a.start)
Tuple(h, x) == Span(h, x.buf, x.off, x.n)

ArrV == Held(heap, owner)
SnapsV == [s \in SnapIds |-> Held(heap, snaps[s])]
BoxesV == [b \in BoxIds |-> Tuple(heap, boxes[b])]

LEMMA Now ==
  /\ Elements(owner) = ArrV
  /\ [s \in SnapIds |-> Elements(snaps[s])] = SnapsV
  /\ [b \in BoxIds |-> Boxed(boxes[b])] = BoxesV
BY DEF Elements, Boxed, Load, InBuffer, ArrV, SnapsV, BoxesV, Held, Tuple, Cell, Span

\* The refinement mapping, in this state and in the next.
LEMMA Mapping ==
  /\ Elements(owner) = ArrV
  /\ [s \in SnapIds |-> Elements(snaps[s])] = SnapsV
  /\ [b \in BoxIds |-> Boxed(boxes[b])] = BoxesV
  /\ Elements(owner)' = ArrV'
  /\ [s \in SnapIds |-> Elements(snaps[s])]' = SnapsV'
  /\ [b \in BoxIds |-> Boxed(boxes[b])]' = BoxesV'
<1>1. (/\ Elements(owner) = ArrV
       /\ [s \in SnapIds |-> Elements(snaps[s])] = SnapsV
       /\ [b \in BoxIds |-> Boxed(boxes[b])] = BoxesV)'
  BY Now, PTL
<1> QED
  BY <1>1, Now

\* Handles and boxes read inside their regions; their lengths are those of their values.
LEMMA HeldValue ==
  ASSUME NEW a \in Handle, HandleOK(heap, owner, a)
  PROVE  /\ a.off + a.start \in Nat /\ a.end - a.start \in Nat
         /\ Len(Held(heap, a)) = a.end - a.start /\ LenW(a) = a.end - a.start
<1>1. /\ a.off \in Nat /\ a.start \in Nat /\ a.end \in Nat /\ a.start <= a.end
      /\ LenW(a) = a.end - a.start
  BY HandleWords
<1>2. a.off + a.start \in Nat /\ a.end - a.start \in Nat
  BY <1>1
<1> QED
  BY <1>1, <1>2, SpanSeq, SpanLen DEF Held

LEMMA TupleValue ==
  ASSUME NEW x \in Boxes
  PROVE  x.off \in Nat /\ x.n \in Nat /\ Len(Tuple(heap, x)) = x.n
<1>1. x.off \in Nat /\ x.n \in Nat
  BY WordArithmetic DEF Boxes
<1> QED
  BY <1>1, SpanSeq, SpanLen DEF Tuple

LEMMA GoodHandles ==
  ASSUME IInv
  PROVE  /\ owner \in Handle /\ HandleOK(heap, owner, owner)
         /\ snaps \in [SnapIds -> Handle] /\ boxes \in [BoxIds -> Boxes]
         /\ \A s \in SnapIds : snaps[s] \in Handle /\ HandleOK(heap, owner, snaps[s])
         /\ \A b \in BoxIds : boxes[b] \in Boxes /\ BoxOK(heap, owner, boxes[b])
BY OwnerHandle DEF IInv, OwnerInv, SharedInv

\* A stretch of a handle's value is what a span of its buffer holds.
LEMMA PartOfHandle ==
  ASSUME NEW a \in Handle, HandleOK(heap, owner, a),
         NEW i \in Nat \ {0}, NEW j \in Nat, i <= j + 1, j <= a.end - a.start,
         NEW from \in Nat, from = a.off + a.start + (i - 1), NEW m \in Nat, m = j - i + 1
  PROVE  Part(Held(heap, a), i, j) = Span(heap, a.buf, from, m)
<1> DEFINE lo == a.off + a.start
           n == a.end - a.start
<1>1. lo \in Nat /\ n \in Nat /\ j <= n /\ from = lo + (i - 1)
  BY HeldValue
<1>2. Held(heap, a) = Span(heap, a.buf, lo, n)
  BY DEF Held
<1>3. i \in Nat \ {0} /\ j \in Nat /\ from \in Nat /\ m \in Nat /\ i <= j + 1 /\ m = j - i + 1
  OBVIOUS
<1> HIDE DEF lo, n
<1>4. Part(Span(heap, a.buf, lo, n), i, j) = Span(heap, a.buf, from, m)
  BY ONLY <1>1, <1>3, SpanPart
<1> QED
  BY <1>2, <1>4

-----------------------------------------------------------------------------
(* The steps that read. *)

\* A step that leaves the buffers alone leaves every value but those it replaces.
LEMMA SameHeap ==
  ASSUME heap' = heap
  PROVE  /\ owner' = owner => ArrV' = ArrV
         /\ snaps' = snaps => SnapsV' = SnapsV
         /\ boxes' = boxes => BoxesV' = BoxesV
         /\ \A s \in SnapIds : \A a :
              snaps \in [SnapIds -> Handle] /\ snaps' = [snaps EXCEPT ![s] = a] =>
                SnapsV' = [SnapsV EXCEPT ![s] = Held(heap, a)]
         /\ \A b \in BoxIds : \A x :
              boxes \in [BoxIds -> Boxes] /\ boxes' = [boxes EXCEPT ![b] = x] =>
                BoxesV' = [BoxesV EXCEPT ![b] = Tuple(heap, x)]
<1>1. /\ owner' = owner => ArrV' = ArrV
      /\ snaps' = snaps => SnapsV' = SnapsV
      /\ boxes' = boxes => BoxesV' = BoxesV
  BY DEF ArrV, SnapsV, BoxesV
<1>2. ASSUME NEW s \in SnapIds, NEW a,
             snaps \in [SnapIds -> Handle], snaps' = [snaps EXCEPT ![s] = a]
      PROVE  SnapsV' = [SnapsV EXCEPT ![s] = Held(heap, a)]
  BY <1>2 DEF SnapsV
<1>3. ASSUME NEW b \in BoxIds, NEW x,
             boxes \in [BoxIds -> Boxes], boxes' = [boxes EXCEPT ![b] = x]
      PROVE  BoxesV' = [BoxesV EXCEPT ![b] = Tuple(heap, x)]
  BY <1>3 DEF BoxesV
<1> QED
  BY <1>1, <1>2, <1>3

LEMMA BranchIs == \A b, c : Abstract!Branch(b, c) = Branch(b, c)
BY DEF Abstract!Branch, Branch

LEMMA NewAbstract ==
  ASSUME New
  PROVE  Abstract!New
<1>1. heap' = heap /\ owner' = NullArray /\ snaps' = snaps /\ boxes' = boxes
      /\ reply' = Branch(0, 0)
  BY DEF New
<1>2. SnapsV' = SnapsV /\ BoxesV' = BoxesV
  BY <1>1, SameHeap
<1>3. ArrV' = <<>>
  <2>1. NullArray.end - NullArray.start = 0
    BY DEF NullArray
  <2> QED
    BY <1>1, <2>1, SpanEmpty DEF ArrV, Held
<1> QED
  BY <1>1, <1>2, <1>3, Mapping, BranchIs DEF Abstract!New

LEMMA PopFrontAbstract ==
  ASSUME IInv, NEW b \in BoxIds, PopFront(b)
  PROVE  Abstract!PopFront(b)
<1>1. heap' = heap /\ snaps' = snaps
  BY DEF PopFront
<1>2. SnapsV' = SnapsV
  BY <1>1, SameHeap
<1>3. /\ owner.off + owner.start \in Nat /\ owner.end - owner.start \in Nat
      /\ LenW(owner) = owner.end - owner.start
      /\ Len(ArrV) = owner.end - owner.start
  BY GoodHandles, HeldValue DEF ArrV
<1>4. CASE 1 <= LenW(owner)
  <2>1. AddW(owner.start, 1) = owner.start + 1
    <3>1. owner.start \in Words /\ 1 \in Words /\ owner.start + 1 < Modulus
      BY <1>3, <1>4, GoodHandles, HandleWords, WordsAssumption DEF Words
    <3> QED
      BY <3>1, WordArithmetic
  <2>2. /\ owner'.buf = owner.buf /\ owner'.off = owner.off
        /\ owner'.start = owner.start + 1 /\ owner'.end = owner.end
    BY <1>4, <2>1, GoodHandles DEF PopFront, Handle
  <2> DEFINE x == [buf |-> owner.buf, off |-> owner.off + owner.start, n |-> 1]
  <2>3. boxes' = [boxes EXCEPT ![b] = x] /\ reply' = Branch(0, 0)
    BY <1>4 DEF PopFront
  <2>4. ArrV # <<>> /\ ArrV' = Tail(ArrV)
    <3> DEFINE lo == owner.off + owner.start
               n == owner.end - owner.start
    <3>1. lo \in Nat /\ n \in Nat /\ n >= 1
      BY <1>3, <1>4
    <3>2. owner'.off + owner'.start = lo + 1 /\ owner'.end - owner'.start = n - 1
      BY <1>3, <2>2, GoodHandles, HandleWords, SMTT(60)
    <3>3. ArrV = Span(heap, owner.buf, lo, n) /\ ArrV' = Span(heap, owner.buf, lo + 1, n - 1)
      BY <1>1, <2>2, <3>2 DEF ArrV, Held
    <3> HIDE DEF lo, n
    <3> QED
      BY <3>1, <3>3, SpanTail
  <2>5. BoxesV' = [BoxesV EXCEPT ![b] = SubSeq(ArrV, 1, 1)]
    <3>1. Part(ArrV, 1, 1) = Tuple(heap, x)
      <4> DEFINE from == owner.off + owner.start
      <4>1. from \in Nat /\ from = owner.off + owner.start + (1 - 1) /\ 1 <= owner.end - owner.start
        BY <1>3, <1>4
      <4>2. Tuple(heap, x) = Span(heap, owner.buf, from, 1)
        BY DEF Tuple
      <4> HIDE DEF from
      <4>3. Part(Held(heap, owner), 1, 1) = Span(heap, owner.buf, from, 1)
        BY <4>1, GoodHandles, PartOfHandle
      <4> QED
        BY <4>2, <4>3 DEF ArrV
    <3>2. BoxesV' = [BoxesV EXCEPT ![b] = Tuple(heap, x)]
      <4> HIDE DEF x
      <4> QED
        BY <1>1, <2>3, GoodHandles, SameHeap
    <3> QED
      BY <3>1, <3>2 DEF Part
  <2> QED
    BY <1>2, <2>3, <2>4, <2>5, Mapping, BranchIs DEF Abstract!PopFront, Abstract!Prefix
<1>5. CASE ~(1 <= LenW(owner))
  <2>1. owner' = owner /\ boxes' = boxes /\ reply' = Branch(1, 0)
    BY <1>5 DEF PopFront
  <2>2. ArrV' = ArrV /\ BoxesV' = BoxesV
    BY <1>1, <2>1, SameHeap
  <2>3. ArrV = <<>>
    <3>1. owner.end - owner.start = 0
      BY <1>3, <1>5
    <3> QED
      BY <3>1, SpanEmpty DEF ArrV, Held
  <2> QED
    BY <1>2, <2>1, <2>2, <2>3, Mapping, BranchIs DEF Abstract!PopFront
<1> QED
  BY <1>4, <1>5

LEMMA SnapshotTakeAbstract ==
  ASSUME IInv, NEW s \in SnapIds, SnapshotTake(s)
  PROVE  Abstract!SnapshotTake(s)
<1>1. /\ heap' = heap /\ owner' = owner /\ boxes' = boxes /\ reply' = Branch(0, 0)
      /\ snaps' = [snaps EXCEPT ![s] = owner]
  BY DEF SnapshotTake
<1>2. ArrV' = ArrV /\ BoxesV' = BoxesV /\ SnapsV' = [SnapsV EXCEPT ![s] = ArrV]
  BY <1>1, GoodHandles, SameHeap DEF ArrV
<1> QED
  BY <1>1, <1>2, Mapping, BranchIs DEF Abstract!SnapshotTake

LEMMA DupAbstract ==
  ASSUME IInv, NEW s \in SnapIds, NEW t \in SnapIds, Dup(s, t)
  PROVE  Abstract!Dup(s, t)
<1>1. /\ heap' = heap /\ owner' = owner /\ boxes' = boxes /\ reply' = Branch(0, 0)
      /\ snaps' = [snaps EXCEPT ![t] = snaps[s]]
  BY DEF Dup
<1>2. ArrV' = ArrV /\ BoxesV' = BoxesV /\ SnapsV' = [SnapsV EXCEPT ![t] = SnapsV[s]]
  <2>1. SnapsV[s] = Held(heap, snaps[s])
    BY DEF SnapsV
  <2> QED
    BY <1>1, <2>1, GoodHandles, SameHeap
<1> QED
  BY <1>1, <1>2, Mapping, BranchIs DEF Abstract!Dup

LEMMA LengthAbstract ==
  ASSUME IInv, NEW s \in SnapIds, Length(s)
  PROVE  Abstract!Length(s)
<1>1. /\ heap' = heap /\ owner' = owner /\ boxes' = boxes /\ snaps' = snaps
      /\ reply' = [Branch(0, 0) EXCEPT !.len = LenW(snaps[s])]
  BY DEF Length
<1>2. ArrV' = ArrV /\ BoxesV' = BoxesV /\ SnapsV' = SnapsV
  BY <1>1, SameHeap
<1>3. LenW(snaps[s]) = Len(SnapsV[s])
  BY GoodHandles, HeldValue DEF SnapsV
<1> QED
  BY <1>1, <1>2, <1>3, Mapping, BranchIs DEF Abstract!Length

\* The first n elements of a handle, and those after them.
LEMMA HeldParts ==
  ASSUME NEW a \in Handle, HandleOK(heap, owner, a), NEW n \in Nat, n <= a.end - a.start
  PROVE  /\ Part(Held(heap, a), 1, n) = Span(heap, a.buf, a.off + a.start, n)
         /\ Part(Held(heap, a), n + 1, a.end - a.start)
              = Span(heap, a.buf, a.off + a.start + n, (a.end - a.start) - n)
<1> DEFINE lo == a.off + a.start
           len == a.end - a.start
           i == n + 1
           from == lo + n
           m == len - n
<1>1. lo \in Nat /\ len \in Nat /\ n \in Nat /\ n <= len
  BY HeldValue
<1>2. /\ i \in Nat \ {0} /\ i <= len + 1 /\ len <= a.end - a.start
      /\ from \in Nat /\ from = a.off + a.start + (i - 1) /\ m \in Nat /\ m = len - i + 1
  <2>1. from = lo + (i - 1) /\ m = len - i + 1 /\ i \in Nat \ {0} /\ from \in Nat /\ m \in Nat
    BY <1>1
  <2>2. i <= len + 1 /\ len <= len
    BY <1>1
  <2> QED
    BY <2>1, <2>2
<1>3. /\ lo = a.off + a.start + (1 - 1) /\ n = n - 1 + 1 /\ 1 <= n + 1 /\ n <= a.end - a.start
      /\ 1 \in Nat \ {0}
  BY <1>1
<1> HIDE DEF i, from, m, lo, len
<1>4. Part(Held(heap, a), 1, n) = Span(heap, a.buf, lo, n)
  BY <1>1, <1>3, PartOfHandle
<1>5. Part(Held(heap, a), i, len) = Span(heap, a.buf, from, m)
  BY <1>1, <1>2, PartOfHandle
<1> QED
  BY <1>4, <1>5 DEF i, from, m, lo, len

LEMMA SnapshotPopAbstract ==
  ASSUME IInv, NEW s \in SnapIds, NEW b \in BoxIds, NEW back \in BOOLEAN,
         NEW n \in Words \ {0}, NEW checks, SnapshotPop(s, b, n, checks, back)
  PROVE  Abstract!SnapshotPop(s, b, n, checks, back)
<1> DEFINE a == snaps[s]
           len == a.end - a.start
           end == SubW(a.end, n)
           at == a.off + (IF back THEN end ELSE a.start)
           rest == IF back THEN [a EXCEPT !.end = end] ELSE [a EXCEPT !.start = AddW(@, n)]
           x == [buf |-> a.buf, off |-> at, n |-> n]
           value == SnapsV[s]
<1>0. heap' = heap /\ owner' = owner
  BY DEF SnapshotPop
<1>1. ArrV' = ArrV
  BY <1>0, SameHeap
<1>2. /\ HandleOK(heap, owner, a) /\ a \in Handle /\ n \in Words /\ n \in Nat /\ n >= 1
      /\ value = Held(heap, a)
  BY GoodHandles, WordArithmetic DEF SnapsV
<1>3. /\ a.off \in Nat /\ a.start \in Nat /\ a.end \in Nat /\ a.start <= a.end
      /\ a.start \in Words /\ a.end \in Words /\ a.end + 1 <= Modulus
      /\ LenW(a) = len /\ len \in Nat /\ Len(value) = len
  BY <1>2, HandleWords, HeldValue
<1>4. CASE n <= LenW(a)
  <2>0. /\ n \in Nat /\ a.off \in Nat /\ a.start \in Nat /\ a.end \in Nat
        /\ a.end + 1 <= Modulus /\ a.start <= a.end /\ n <= a.end - a.start
    BY <1>2, <1>3, <1>4
  <2>1. n <= len /\ n <= a.end /\ len - n \in Nat /\ len - n <= len /\ len - (len - n) = n
    BY ONLY <2>0
  <2>2. end = a.end - n /\ end \in Words /\ end \in Nat
    BY <1>2, <1>3, <2>1, WordArithmetic, ZenonT(60)
  <2>3. AddW(a.start, n) = a.start + n
    <3>1. a.start + n < Modulus
      BY ONLY <2>0, WordsAssumption
    <3> QED
      BY <1>2, <1>3, <3>1, WordArithmetic
  <2>4. snaps' = [snaps EXCEPT ![s] = rest] /\ boxes' = [boxes EXCEPT ![b] = x]
        /\ reply' = Branch(0, checks)
    BY <1>4 DEF SnapshotPop
  <2>5. /\ Part(value, 1, n) = Span(heap, a.buf, a.off + a.start, n)
        /\ Part(value, n + 1, len) = Span(heap, a.buf, a.off + a.start + n, len - n)
    BY <1>2, <2>1, HeldParts
  <2>6. /\ Part(value, 1, len - n) = Span(heap, a.buf, a.off + a.start, len - n)
        /\ Part(value, (len - n) + 1, len) = Span(heap, a.buf, a.off + a.start + (len - n), n)
    <3> DEFINE kept == len - n
    <3>1. kept \in Nat /\ kept <= len
      BY <2>1
    <3> HIDE DEF kept
    <3>2. /\ Part(value, 1, kept) = Span(heap, a.buf, a.off + a.start, kept)
          /\ Part(value, kept + 1, len) = Span(heap, a.buf, a.off + a.start + kept, len - kept)
      BY <1>2, <3>1, HeldParts
    <3>3. len - kept = n
      BY <2>1 DEF kept
    <3> QED
      BY <3>2, <3>3 DEF kept
  <2>7. CASE back
    <3>1. Held(heap, rest) = Part(value, 1, len - n)
      <4>1. /\ rest.buf = a.buf /\ rest.off = a.off /\ rest.start = a.start
            /\ rest.end = a.end - n
        BY <1>2, <2>2, <2>7 DEF Handle
      <4>2. rest.end - rest.start = len - n
        BY <1>2, <1>3, <4>1
      <4> QED
        BY <2>6, <4>1, <4>2 DEF Held
    <3>2. Tuple(heap, x) = Part(value, (len - n) + 1, len)
      <4>1. x.off = a.off + a.start + (len - n) /\ x.buf = a.buf /\ x.n = n
        BY <1>2, <1>3, <2>2, <2>7, SMTT(60)
      <4> QED
        BY <2>6, <4>1 DEF Tuple
    <3> HIDE DEF rest, x
    <3>3. SnapsV' = [SnapsV EXCEPT ![s] = Held(heap, rest)]
      BY <1>0, <2>4, GoodHandles, SameHeap
    <3>4. BoxesV' = [BoxesV EXCEPT ![b] = Tuple(heap, x)]
      BY <1>0, <2>4, GoodHandles, SameHeap
    <3>5. SnapsV' = [SnapsV EXCEPT ![s] = SubSeq(@, 1, Len(SnapsV[s]) - n)]
      BY <1>3, <3>1, <3>3 DEF Part
    <3>6. BoxesV' = [BoxesV EXCEPT ![b] =
                       SubSeq(SnapsV[s], Len(SnapsV[s]) - n + 1, Len(SnapsV[s]))]
      BY <1>3, <3>2, <3>4 DEF Part
    <3> HIDE DEF a, len, end, at, value
    <3> QED
      BY <1>1, <1>3, <2>1, <2>4, <2>7, <3>5, <3>6, Mapping, BranchIs
         DEF Abstract!SnapshotPop, Abstract!Prefix, Abstract!Suffix, value
  <2>8. CASE ~back
    <3>1. Held(heap, rest) = Part(value, n + 1, len)
      <4>1. /\ rest.buf = a.buf /\ rest.off = a.off /\ rest.start = a.start + n
            /\ rest.end = a.end
        BY <1>2, <2>3, <2>8 DEF Handle
      <4>2. rest.end - rest.start = len - n /\ rest.off + rest.start = a.off + a.start + n
        BY <1>2, <1>3, <4>1
      <4> QED
        BY <2>5, <4>1, <4>2 DEF Held
    <3>2. Tuple(heap, x) = Part(value, 1, n)
      <4>1. x.off = a.off + a.start /\ x.buf = a.buf /\ x.n = n
        BY <2>8
      <4> QED
        BY <2>5, <4>1 DEF Tuple
    <3> HIDE DEF rest, x
    <3>3. SnapsV' = [SnapsV EXCEPT ![s] = Held(heap, rest)]
      BY <1>0, <2>4, GoodHandles, SameHeap
    <3>4. BoxesV' = [BoxesV EXCEPT ![b] = Tuple(heap, x)]
      BY <1>0, <2>4, GoodHandles, SameHeap
    <3>5. SnapsV' = [SnapsV EXCEPT ![s] =
                       SubSeq(@, Len(@) - (Len(SnapsV[s]) - n) + 1, Len(@))]
      <4>1. len - (len - n) + 1 = n + 1
        BY <2>1
      <4> QED
        BY <1>3, <3>1, <3>3, <4>1 DEF Part
    <3>6. BoxesV' = [BoxesV EXCEPT ![b] = SubSeq(SnapsV[s], 1, n)]
      BY <3>2, <3>4 DEF Part
    <3> HIDE DEF a, len, end, at, value
    <3> QED
      BY <1>1, <1>3, <2>1, <2>4, <2>8, <3>5, <3>6, Mapping, BranchIs
         DEF Abstract!SnapshotPop, Abstract!Prefix, Abstract!Suffix, value
  <2> QED
    BY <2>7, <2>8
<1>5. CASE ~(n <= LenW(a))
  <2>1. snaps' = snaps /\ boxes' = boxes /\ reply' = Branch(1, checks)
    BY <1>5 DEF SnapshotPop
  <2>2. SnapsV' = SnapsV /\ BoxesV' = BoxesV /\ ~(n <= Len(value))
    BY <1>0, <1>3, <1>5, <2>1, SameHeap
  <2> QED
    BY <1>1, <2>1, <2>2, Mapping, BranchIs DEF Abstract!SnapshotPop
<1> QED
  BY <1>4, <1>5

LEMMA SpanOne ==
  ASSUME NEW h, NEW b, NEW lo \in Nat
  PROVE  Span(h, b, lo, 1) = <<Cell(h, b, lo)>>
<1>1. lo + 1 - 1 = lo /\ 1..1 = {1}
  OBVIOUS
<1>2. Span(h, b, lo, 1) = [i \in 1..1 |-> Cell(h, b, lo)]
  <2>1. \A i \in 1..1 : Cell(h, b, lo + i - 1) = Cell(h, b, lo)
    BY <1>1
  <2> QED
    BY <2>1 DEF Span
<1> QED
  BY <1>2

LEMMA GetAbstract ==
  ASSUME IInv, NEW s \in SnapIds, NEW i \in Words, NEW b \in BoxIds, Get(s, i, b)
  PROVE  Abstract!Get(s, i, b)
<1> DEFINE a == snaps[s]
           x == [buf |-> a.buf, off |-> a.off + AddW(a.start, i), n |-> 1]
           value == SnapsV[s]
<1>0. heap' = heap /\ owner' = owner /\ snaps' = snaps
  BY DEF Get
<1>1. ArrV' = ArrV /\ SnapsV' = SnapsV
  BY <1>0, SameHeap
<1>2. HandleOK(heap, owner, a) /\ a \in Handle /\ i \in Nat /\ value = Held(heap, a)
  BY GoodHandles, WordArithmetic DEF SnapsV
<1>3. /\ a.off \in Nat /\ a.start \in Nat /\ a.end \in Nat /\ a.start <= a.end
      /\ a.start \in Words /\ a.end + 1 <= Modulus
  BY <1>2, HandleWords
<1>4. LenW(a) = Len(value) /\ Len(value) = a.end - a.start
  BY <1>2, HeldValue
<1>5. CASE i < LenW(a)
  <2>1. i \in Nat /\ i < a.end - a.start /\ Modulus \in Nat
    BY <1>2, <1>4, <1>5, WordsAssumption
  <2>2. a.start + i < Modulus
    BY ONLY <1>3, <2>1
  <2>3. AddW(a.start, i) = a.start + i
    BY <1>3, <2>2, WordArithmetic
  <2>4. boxes' = [boxes EXCEPT ![b] = x] /\ reply' = Branch(0, 1)
    BY <1>5 DEF Get
  <2>5. Tuple(heap, x) = <<value[i + 1]>>
    <3> DEFINE lo == a.off + (a.start + i)
    <3>1. lo \in Nat /\ a.off + a.start + (i + 1) - 1 = lo /\ i + 1 \in 1..(a.end - a.start)
      BY ONLY <1>3, <2>1
    <3>2. value[i + 1] = Cell(heap, a.buf, lo)
      BY <1>2, <3>1 DEF Held, Span
    <3>3. Tuple(heap, x) = Span(heap, a.buf, lo, 1)
      BY <2>3 DEF Tuple
    <3> HIDE DEF lo
    <3>4. Span(heap, a.buf, lo, 1) = <<Cell(heap, a.buf, lo)>>
      BY <3>1, SpanOne
    <3> QED
      BY <3>2, <3>3, <3>4
  <2> HIDE DEF x
  <2>6. BoxesV' = [BoxesV EXCEPT ![b] = Tuple(heap, x)]
    BY <1>0, <2>4, GoodHandles, SameHeap
  <2>7. BoxesV' = [BoxesV EXCEPT ![b] = <<SnapsV[s][i + 1]>>] /\ i < Len(SnapsV[s])
    BY <1>4, <1>5, <2>5, <2>6
  <2> QED
    BY <1>1, <2>4, <2>7, Mapping, BranchIs DEF Abstract!Get
<1>6. CASE ~(i < LenW(a))
  <2>1. boxes' = boxes /\ reply' = Branch(1, 1)
    BY <1>6 DEF Get
  <2>2. BoxesV' = BoxesV /\ ~(i < Len(SnapsV[s]))
    BY <1>0, <1>4, <1>6, <2>1, SameHeap
  <2> QED
    BY <1>1, <2>1, <2>2, Mapping, BranchIs DEF Abstract!Get
<1> QED
  BY <1>5, <1>6

LEMMA SliceAbstract ==
  ASSUME IInv, NEW s \in SnapIds, NEW from \in Words, NEW n \in Words, Slice(s, from, n)
  PROVE  Abstract!Slice(s, from, n)
<1> DEFINE a == snaps[s]
           start == AddW(a.start, from)
           c == [a EXCEPT !.start = start, !.end = AddW(start, n)]
           value == SnapsV[s]
<1>0. heap' = heap /\ owner' = owner /\ boxes' = boxes
  BY DEF Slice
<1>1. ArrV' = ArrV /\ BoxesV' = BoxesV
  BY <1>0, SameHeap
<1>2. /\ HandleOK(heap, owner, a) /\ a \in Handle /\ from \in Nat /\ n \in Nat
      /\ value = Held(heap, a)
  BY GoodHandles, WordArithmetic DEF SnapsV
<1>3. /\ a.off \in Nat /\ a.start \in Nat /\ a.end \in Nat /\ a.start <= a.end
      /\ a.start \in Words /\ a.end + 1 <= Modulus
  BY <1>2, HandleWords
<1>4. LenW(a) = Len(value) /\ Len(value) = a.end - a.start
  BY <1>2, HeldValue
<1>5. CASE SliceFits(a, from, n)
  <2>1. from \in Nat /\ n \in Nat /\ from + n <= a.end - a.start /\ Modulus \in Nat
    BY <1>2, <1>4, <1>5, WordsAssumption DEF SliceFits
  <2>2. a.start + from < Modulus /\ (a.start + from) + n < Modulus
    BY ONLY <1>3, <2>1
  <2>3. start = a.start + from /\ start \in Words
    BY <1>3, <2>2, WordArithmetic
  <2>4. AddW(start, n) = a.start + from + n
    BY <2>2, <2>3, WordArithmetic
  <2>5. snaps' = [snaps EXCEPT ![s] = c] /\ reply' = Branch(0, 1)
    BY <1>5 DEF Slice
  <2>6. Held(heap, c) = Part(value, from + 1, from + n)
    <3> DEFINE i == from + 1
               j == from + n
               lo == a.off + a.start + from
    <3>1. /\ i \in Nat \ {0} /\ j \in Nat /\ i <= j + 1 /\ j <= a.end - a.start
          /\ lo \in Nat /\ lo = a.off + a.start + (i - 1) /\ n \in Nat /\ n = j - i + 1
      BY ONLY <1>3, <2>1
    <3>2. c.buf = a.buf /\ c.off = a.off /\ c.start = a.start + from /\ c.end = a.start + from + n
      BY <1>2, <2>3, <2>4 DEF Handle
    <3>3. c.off + c.start = lo /\ c.end - c.start = n
      BY <1>3, <2>1, <3>2
    <3>4. Held(heap, c) = Span(heap, a.buf, lo, n)
      BY <3>2, <3>3 DEF Held
    <3> HIDE DEF i, j, lo, c
    <3>5. Part(Held(heap, a), i, j) = Span(heap, a.buf, lo, n)
      BY <1>2, <3>1, PartOfHandle
    <3> QED
      BY <1>2, <3>4, <3>5 DEF i, j
  <2> HIDE DEF c
  <2>7. SnapsV' = [SnapsV EXCEPT ![s] = Held(heap, c)]
    BY <1>0, <2>5, GoodHandles, SameHeap
  <2>8. /\ SnapsV' = [SnapsV EXCEPT ![s] = SubSeq(@, from + 1, from + n)]
        /\ from + n <= Len(SnapsV[s])
    BY <1>4, <2>1, <2>6, <2>7 DEF Part
  <2> QED
    BY <1>1, <2>5, <2>8, Mapping, BranchIs DEF Abstract!Slice
<1>6. CASE ~SliceFits(a, from, n)
  <2>1. snaps' = snaps /\ reply' = Branch(1, 1)
    BY <1>6 DEF Slice
  <2>2. SnapsV' = SnapsV /\ ~(from + n <= Len(SnapsV[s]))
    BY <1>0, <1>4, <1>6, <2>1, SameHeap DEF SliceFits
  <2> QED
    BY <1>1, <2>1, <2>2, Mapping, BranchIs DEF Abstract!Slice
<1> QED
  BY <1>5, <1>6

LEMMA TupleAbstract ==
  ASSUME IInv, NEW s \in SnapIds, NEW b \in BoxIds, NEW n \in PopLens, TupleFromSpan(s, b, n)
  PROVE  Abstract!TupleFromSpan(s, b, n)
<1> DEFINE a == snaps[s]
           x == [buf |-> a.buf, off |-> a.off + a.start, n |-> n]
           value == SnapsV[s]
<1>0. heap' = heap /\ owner' = owner /\ snaps' = snaps
  BY DEF TupleFromSpan
<1>1. ArrV' = ArrV /\ SnapsV' = SnapsV
  BY <1>0, SameHeap
<1>2. HandleOK(heap, owner, a) /\ a \in Handle /\ value = Held(heap, a)
  BY GoodHandles DEF SnapsV
<1>3. LenW(a) = Len(value) /\ Len(value) = a.end - a.start
  BY <1>2, HeldValue
<1>4. CASE LenW(a) = n
  <2>1. boxes' = [boxes EXCEPT ![b] = x] /\ reply' = Branch(0, 0)
    BY <1>4 DEF TupleFromSpan
  <2>2. Tuple(heap, x) = value
    BY <1>2, <1>3, <1>4 DEF Tuple, Held
  <2> HIDE DEF x
  <2>3. BoxesV' = [BoxesV EXCEPT ![b] = SnapsV[s]] /\ Len(SnapsV[s]) = n
    BY <1>0, <1>3, <1>4, <2>1, <2>2, GoodHandles, SameHeap
  <2> QED
    BY <1>1, <2>1, <2>3, Mapping, BranchIs DEF Abstract!TupleFromSpan
<1>5. CASE LenW(a) # n
  <2>1. boxes' = boxes /\ reply' = Branch(1, 0)
    BY <1>5 DEF TupleFromSpan
  <2>2. BoxesV' = BoxesV /\ Len(SnapsV[s]) # n
    BY <1>0, <1>3, <1>5, <2>1, SameHeap
  <2> QED
    BY <1>1, <2>1, <2>2, Mapping, BranchIs DEF Abstract!TupleFromSpan
<1> QED
  BY <1>4, <1>5

LEMMA SpanFromTupleAbstract ==
  ASSUME IInv, NEW s \in SnapIds, NEW b \in BoxIds, SpanFromTuple(b, s)
  PROVE  Abstract!SpanFromTuple(b, s)
<1> DEFINE x == boxes[b]
           c == [buf |-> x.buf, off |-> x.off, start |-> 0, end |-> x.n, cap |-> x.n]
<1>0. heap' = heap /\ owner' = owner /\ boxes' = boxes /\ reply' = Branch(0, 0)
      /\ snaps' = [snaps EXCEPT ![s] = c]
  BY DEF SpanFromTuple
<1>1. ArrV' = ArrV /\ BoxesV' = BoxesV
  BY <1>0, SameHeap
<1>2. Held(heap, c) = BoxesV[b]
  <2>1. x.off \in Nat /\ x.n \in Nat
    BY GoodHandles, TupleValue
  <2>2. c.off + c.start = x.off /\ c.end - c.start = x.n
    BY <2>1
  <2> QED
    BY <2>2 DEF Held, Tuple, BoxesV
<1> HIDE DEF c
<1>3. SnapsV' = [SnapsV EXCEPT ![s] = BoxesV[b]]
  BY <1>0, <1>2, GoodHandles, SameHeap
<1> QED
  BY <1>0, <1>1, <1>3, Mapping, BranchIs DEF Abstract!SpanFromTuple

-----------------------------------------------------------------------------
(* The steps that write. *)

\* What was written in a region stays, in every heap that preserves written cells.
LEMMA RegionValue ==
  ASSUME Preserved, NEW b, NEW lo \in Nat, NEW n \in Nat,
         Written(heap, b, lo, lo + n), Written(heap', b, lo, lo + n)
  PROVE  Span(heap', b, lo, n) = Span(heap, b, lo, n)
<1>1. ASSUME NEW i \in 1..n PROVE Cell(heap', b, lo + i - 1) = Cell(heap, b, lo + i - 1)
  <2>1. lo + i - 1 \in Int /\ lo <= lo + i - 1 /\ lo + i - 1 < lo + n
    OBVIOUS
  <2> QED
    BY <2>1 DEF Cell, Written, Preserved
<1> QED
  BY <1>1, SpanKept

LEMMA HeldKept ==
  ASSUME Preserved, NEW a \in Handle, HandleOK(heap, owner, a), NEW o,
         Region(heap', o, a.buf, a.off + a.start, a.off + a.end)
  PROVE  Held(heap', a) = Held(heap, a)
<1> DEFINE lo == a.off + a.start
           n == a.end - a.start
           hi == a.off + a.end
<1>1. a.off \in Nat /\ a.start \in Nat /\ a.end \in Nat /\ a.start <= a.end
  BY HandleWords
<1>2. lo \in Nat /\ n \in Nat /\ hi = lo + n
  BY <1>1
<1>3. Written(heap, a.buf, lo, hi) /\ Written(heap', a.buf, lo, hi)
  BY DEF HandleOK, Region
<1> HIDE DEF lo, n, hi
<1>4. Span(heap', a.buf, lo, n) = Span(heap, a.buf, lo, n)
  BY <1>2, <1>3, RegionValue
<1> QED
  BY <1>4 DEF Held, lo, n

LEMMA TupleKept ==
  ASSUME Preserved, NEW x \in Boxes, BoxOK(heap, owner, x), NEW o,
         Region(heap', o, x.buf, x.off, x.off + x.n)
  PROVE  Tuple(heap', x) = Tuple(heap, x)
<1>1. x.off \in Nat /\ x.n \in Nat
  BY TupleValue
<1>2. Written(heap, x.buf, x.off, x.off + x.n) /\ Written(heap', x.buf, x.off, x.off + x.n)
  BY DEF BoxOK, Region
<1> QED
  BY <1>1, <1>2, RegionValue DEF Tuple

\* Snapshots and boxes keep their values while the owner writes.
LEMMA SharedValues ==
  ASSUME IInv, IInv', Preserved, snaps' = snaps, boxes' = boxes
  PROVE  SnapsV' = SnapsV /\ BoxesV' = BoxesV
<1>1. ASSUME NEW s \in SnapIds PROVE Held(heap', snaps[s]) = Held(heap, snaps[s])
  <2> DEFINE a == snaps[s]
  <2>1. a \in Handle /\ HandleOK(heap, owner, a)
    BY GoodHandles
  <2>2. Region(heap', owner', a.buf, a.off + a.start, a.off + a.end)
    BY DEF IInv, SharedInv, HandleOK
  <2> HIDE DEF a
  <2>3. Held(heap', a) = Held(heap, a)
    BY <2>1, <2>2, HeldKept
  <2> QED
    BY <2>3 DEF a
<1>2. ASSUME NEW b \in BoxIds PROVE Tuple(heap', boxes[b]) = Tuple(heap, boxes[b])
  <2> DEFINE x == boxes[b]
  <2>1. x \in Boxes /\ BoxOK(heap, owner, x)
    BY GoodHandles
  <2>2. Region(heap', owner', x.buf, x.off, x.off + x.n)
    BY DEF IInv, SharedInv, BoxOK
  <2> HIDE DEF x
  <2>3. Tuple(heap', x) = Tuple(heap, x)
    BY <2>1, <2>2, TupleKept
  <2> QED
    BY <2>3 DEF x
<1>3. SnapsV' = SnapsV
  BY <1>1 DEF SnapsV
<1>4. BoxesV' = BoxesV
  BY <1>2 DEF BoxesV
<1> QED
  BY <1>3, <1>4

LEMMA ReceiveAbstract ==
  ASSUME IInv, IInv', Preserved, NEW n \in ReceiveLens, Receive(n)
  PROVE  Abstract!Receive
<1>1. snaps' = snaps /\ boxes' = boxes /\ reply' = Branch(0, 0)
  BY DEF Receive
<1>2. SnapsV' = SnapsV /\ BoxesV' = BoxesV
  BY <1>1, SharedValues
<1>3. ArrV' \in Seq(Values)
  <2>1. CASE n = 0
    <3>1. owner' = NullArray /\ NullArray.end - NullArray.start = 0
      BY <2>1 DEF Receive, NullArray
    <3>2. ArrV' = <<>>
      BY <3>1, SpanEmpty DEF ArrV, Held
    <3> QED
      BY <3>2
  <2>2. CASE n > 0
    <3> DEFINE new == Len(heap) + 1
    <3>1. PICK data \in [0..(n - 1) -> Values] :
            heap' = Append(heap, data) /\ Len(heap) < MaxBuffers
      BY <2>2 DEF Receive
    <3>2. owner' = [buf |-> new, off |-> 0, start |-> 0, end |-> n, cap |-> n]
      BY <2>2 DEF Receive
    <3>3. n \in Nat /\ n \in Words
      BY WordsAssumption DEF Words
    <3>4. data \in Buffers
      BY <3>3 DEF Buffers
    <3>5. heap'[new] = data /\ new \in DOMAIN heap'
      <4>1. Len(heap) \in Nat /\ heap' \in Seq(Buffers) /\ Len(heap') = new /\ heap'[new] = data
        BY <3>1, <3>4, HeapTyped, PushRegions DEF IInv, HeapInv
      <4> QED
        BY <4>1
    <3>6. \A i \in 1..n : Cell(heap', new, i - 1) \in Values
      BY <3>1, <3>3, <3>5 DEF Cell
    <3>7. owner'.off + owner'.start = 0 /\ owner'.end - owner'.start = n /\ owner'.buf = new
      BY <3>2, <3>3
    <3>8. ArrV' = Span(heap', new, 0, n)
      BY <3>7 DEF ArrV, Held
    <3>9. \A i \in 1..n : 0 + i - 1 = i - 1
      BY <3>3
    <3> HIDE DEF new
    <3>10. \A i \in 1..n : Cell(heap', new, 0 + i - 1) \in Values
      BY <3>6, <3>9
    <3>11. Span(heap', new, 0, n) \in Seq(Values)
      BY <3>3, <3>10 DEF Span
    <3> QED
      BY <3>8, <3>11
  <2> QED
    BY <2>1, <2>2, WordsAssumption
<1> QED
  BY <1>1, <1>2, <1>3, Mapping, BranchIs DEF Abstract!Receive

LEMMA AppendInPlaceAbstract ==
  ASSUME IInv, IInv', Preserved, NEW v \in Values, AppendInPlace(v)
  PROVE  Abstract!AppendTo(v)
<1> DEFINE lo == owner.off + owner.start
           n == owner.end - owner.start
           buf == owner.buf
<1>1. snaps' = snaps /\ boxes' = boxes /\ reply' = Branch(0, 0)
  BY DEF AppendInPlace
<1>2. SnapsV' = SnapsV /\ BoxesV' = BoxesV
  BY <1>1, SharedValues
<1>3. /\ buf \in DOMAIN heap' /\ owner.end \in DOMAIN heap'[buf] /\ heap'[buf][owner.end] = v
      /\ owner' = [owner EXCEPT !.end = owner.end + 1]
  BY AppendInPlaceStep DEF IInv
<1>4. /\ owner \in Handle /\ HandleOK(heap, owner, owner) /\ owner.off = 0
      /\ owner.start \in Nat /\ owner.end \in Nat /\ owner.start <= owner.end
  BY GoodHandles, HandleWords DEF IInv, OwnerInv
<1>5. lo \in Nat /\ n \in Nat /\ lo + n = owner.end
  BY <1>4
<1>6. /\ owner'.buf = buf /\ owner'.off + owner'.start = lo /\ owner'.end - owner'.start = n + 1
  BY <1>3, <1>4 DEF Handle
<1>7. Written(heap, buf, lo, lo + n) /\ Written(heap', buf, lo, lo + n)
  <2>1. Written(heap', buf, owner.start, owner.end + 1)
    BY <1>3, <1>4, <1>6 DEF IInv, OwnerInv, Region, Handle
  <2>2. Written(heap, buf, owner.start, owner.end)
    BY DEF IInv, OwnerInv, Region
  <2>3. Written(heap', buf, owner.start, owner.end)
    <3>1. \A k \in Int : k < owner.end => k < owner.end + 1
      BY ONLY <1>4
    <3> HIDE DEF buf
    <3> QED
      BY <2>1, <3>1 DEF Written
  <2>4. lo = owner.start /\ lo + n = owner.end
    BY <1>4
  <2> QED
    BY <2>2, <2>3, <2>4
<1>8. ArrV = Span(heap, buf, lo, n) /\ ArrV' = Span(heap', buf, lo, n + 1)
  BY <1>6 DEF Held, ArrV
<1>9. Cell(heap', buf, lo + n) = v
  BY <1>3, <1>5 DEF Cell
<1> HIDE DEF lo, n, buf
<1>10. Span(heap', buf, lo, n) = Span(heap, buf, lo, n)
  BY <1>5, <1>7, RegionValue
<1>11. ArrV' = Append(ArrV, v)
  BY <1>5, <1>8, <1>9, <1>10, SpanAppend
<1> QED
  BY <1>1, <1>2, <1>11, Mapping, BranchIs DEF Abstract!AppendTo

\* Growth copies what the owner holds; what else the old buffer held is not the owner's.
LEMMA AppendGrowingAbstract ==
  ASSUME HalfRange, IInv, IInv', Preserved, NEW v \in Values, AppendGrowing(v)
  PROVE  Abstract!AppendTo(v)
<1> DEFINE lo == owner.start
           n == owner.end - owner.start
           buf == owner.buf
           new == Len(heap) + 1
<1>1. snaps' = snaps /\ boxes' = boxes /\ reply' = Branch(0, 0)
  BY DEF AppendGrowing
<1>2. SnapsV' = SnapsV /\ BoxesV' = BoxesV
  BY <1>1, SharedValues
<1>3. /\ new \in DOMAIN heap'
      /\ \A k \in 0..owner.end :
           /\ k \in DOMAIN heap'[new]
           /\ heap'[new][k] = IF k = owner.end THEN v ELSE Load(buf, k)
  BY AppendGrowingStep DEF IInv
<1>4. PICK cap : owner' = [owner EXCEPT !.buf = new, !.off = 0, !.cap = cap,
                                        !.end = owner.end + 1]
  BY AppendGrowingStep DEF IInv
<1>5. /\ owner \in Handle /\ owner.off = 0
      /\ owner.start \in Nat /\ owner.end \in Nat /\ owner.start <= owner.end
  BY GoodHandles, HandleWords DEF IInv, OwnerInv
<1>6. lo \in Nat /\ n \in Nat /\ lo + n = owner.end /\ owner.off + owner.start = lo
  BY <1>5
<1>7. owner'.buf = new /\ owner'.off + owner'.start = lo /\ owner'.end - owner'.start = n + 1
  BY <1>4, <1>5 DEF Handle
<1>8. ArrV = Span(heap, buf, lo, n) /\ ArrV' = Span(heap', new, lo, n + 1)
  BY <1>6, <1>7 DEF Held, ArrV
<1>9. \A k \in 0..owner.end :
        Cell(heap', new, k) = IF k = owner.end THEN v ELSE Cell(heap, buf, k)
  BY <1>3 DEF Cell, Load, InBuffer
<1> HIDE DEF lo, n, buf, new
<1>10. \A i \in 1..n : Cell(heap', new, lo + i - 1) = Cell(heap, buf, lo + i - 1)
  <2> SUFFICES ASSUME NEW i \in 1..n
               PROVE  Cell(heap', new, lo + i - 1) = Cell(heap, buf, lo + i - 1)
    OBVIOUS
  <2>1. lo + i - 1 \in 0..owner.end /\ lo + i - 1 # owner.end
    BY <1>5, <1>6
  <2> QED
    BY <1>9, <2>1
<1>11. Span(heap', new, lo, n) = Span(heap, buf, lo, n)
  BY <1>10, SpanKept
<1>12. Cell(heap', new, lo + n) = v
  BY <1>5, <1>6, <1>9
<1>13. ArrV' = Append(ArrV, v)
  BY <1>6, <1>8, <1>11, <1>12, SpanAppend
<1> QED
  BY <1>1, <1>2, <1>13, Mapping, BranchIs DEF Abstract!AppendTo

-----------------------------------------------------------------------------
(* The refinement. *)

LEMMA InitAbstract == ASSUME Init PROVE Abstract!Init
<1>1. /\ owner = NullArray /\ reply = Branch(0, 0)
      /\ snaps = [s \in SnapIds |-> NullArray] /\ boxes = [b \in BoxIds |-> NullBox]
  BY DEF Init
<1>2. Held(heap, NullArray) = <<>> /\ Tuple(heap, NullBox) = <<>>
  <2>1. NullArray.end - NullArray.start = 0 /\ NullBox.n = 0
    BY DEF NullArray, NullBox
  <2> QED
    BY <2>1, SpanEmpty DEF Held, Tuple
<1>3. /\ ArrV = <<>> /\ SnapsV = [s \in SnapIds |-> <<>>] /\ BoxesV = [b \in BoxIds |-> <<>>]
  BY <1>1, <1>2 DEF ArrV, SnapsV, BoxesV
<1> QED
  BY <1>1, <1>3, Mapping, BranchIs DEF Abstract!Init

\* Every step of the compiled code is the step of the same name of the interpreter.
LEMMA StepAbstract ==
  ASSUME HalfRange, IInv, [Next]_vars
  PROVE  [Abstract!Next]_(Abstract!vars)
<1>1. IInv' /\ Preserved
  BY IInvStep
<1>2. CASE New
  BY <1>2, NewAbstract DEF Abstract!Next
<1>3. ASSUME NEW n \in ReceiveLens, Receive(n) PROVE Abstract!Next
  BY <1>1, <1>3, ReceiveAbstract DEF Abstract!Next
<1>4. ASSUME NEW v \in Values, AppendInPlace(v) \/ AppendGrowing(v) PROVE Abstract!Next
  <2>1. Abstract!AppendTo(v)
    BY <1>1, <1>4, AppendInPlaceAbstract, AppendGrowingAbstract
  <2> QED
    BY <2>1 DEF Abstract!Next
<1>5. ASSUME NEW b \in BoxIds, PopFront(b) PROVE Abstract!Next
  BY <1>5, PopFrontAbstract DEF Abstract!Next
<1>6. ASSUME NEW s \in SnapIds, SnapshotTake(s) \/ Length(s) PROVE Abstract!Next
  <2>1. Abstract!SnapshotTake(s) \/ Abstract!Length(s)
    BY <1>6, SnapshotTakeAbstract, LengthAbstract
  <2> QED
    BY <2>1 DEF Abstract!Next
<1>7. ASSUME NEW s \in SnapIds, NEW t \in SnapIds, Dup(s, t) PROVE Abstract!Next
  BY <1>7, DupAbstract DEF Abstract!Next
<1>8. ASSUME NEW s \in SnapIds, NEW b \in BoxIds, NEW back \in BOOLEAN,
             \/ SnapshotPop(s, b, 1, 0, back)
             \/ \E n \in PopLens : SnapshotPop(s, b, n, 1, back)
      PROVE  Abstract!Next
  <2>1. CASE SnapshotPop(s, b, 1, 0, back)
    <3>1. 1 \in Words \ {0}
      BY WordsAssumption DEF Words
    <3>2. Abstract!SnapshotPop(s, b, 1, 0, back)
      BY <2>1, <3>1, SnapshotPopAbstract
    <3> QED
      BY <3>2 DEF Abstract!Next
  <2>2. ASSUME NEW n \in PopLens, SnapshotPop(s, b, n, 1, back) PROVE Abstract!Next
    <3>1. n \in Words \ {0}
      BY WordsAssumption
    <3>2. Abstract!SnapshotPop(s, b, n, 1, back)
      BY <2>2, <3>1, SnapshotPopAbstract
    <3> QED
      BY <3>2 DEF Abstract!Next
  <2> QED
    BY <1>8, <2>1, <2>2
<1>9. ASSUME NEW s \in SnapIds, NEW b \in BoxIds, NEW i \in Words, Get(s, i, b)
      PROVE  Abstract!Next
  <2>1. Abstract!Get(s, i, b)
    BY <1>9, GetAbstract
  <2> QED
    BY <2>1 DEF Abstract!Next
<1>10. ASSUME NEW s \in SnapIds, NEW from \in Words, NEW n \in Words, Slice(s, from, n)
       PROVE  Abstract!Next
  <2>1. Abstract!Slice(s, from, n)
    BY <1>10, SliceAbstract
  <2> QED
    BY <2>1 DEF Abstract!Next
<1>11. ASSUME NEW s \in SnapIds, NEW b \in BoxIds,
              \/ \E n \in PopLens : TupleFromSpan(s, b, n)
              \/ SpanFromTuple(b, s)
       PROVE  Abstract!Next
  <2>1. \/ \E n \in PopLens : Abstract!TupleFromSpan(s, b, n)
        \/ Abstract!SpanFromTuple(b, s)
    BY <1>11, TupleAbstract, SpanFromTupleAbstract
  <2> QED
    BY <2>1 DEF Abstract!Next
<1>12. CASE UNCHANGED vars
  <2>1. heap' = heap /\ owner' = owner /\ snaps' = snaps /\ boxes' = boxes /\ reply' = reply
    BY <1>12 DEF vars
  <2>2. ArrV' = ArrV /\ SnapsV' = SnapsV /\ BoxesV' = BoxesV
    BY <2>1, SameHeap
  <2> QED
    BY <2>1, <2>2, Mapping DEF Abstract!vars
<1> QED
  BY <1>2, <1>3, <1>4, <1>5, <1>6, <1>7, <1>8, <1>9, <1>10, <1>11, <1>12 DEF Next

\* Compiled arrays are values: whatever buffers are shared, appended to in place and
\* abandoned (array.rs), every variable holds what it holds in the interpreter
\* (vm/array.rs), and every libfunc answers what it answers there.
THEOREM ImplementsValues == ASSUME HalfRange PROVE Spec => ValueSemantics
<1>1. Init => Abstract!Init
  BY InitAbstract
<1>2. IInv /\ [Next]_vars => [Abstract!Next]_(Abstract!vars)
  BY StepAbstract
<1> QED
  BY <1>1, <1>2, Inductive, PTL DEF Spec, ValueSemantics, Abstract!Spec
=============================================================================
