-------------------------- MODULE HeapBlocksProofs --------------------------
(* Theorems about HeapBlocks for every size of page, block, queue and           *)
(* alignment, and every address malloc() may return.                            *)
EXTENDS HeapBlocks, FiniteSetTheorems, SequenceTheorems, TLAPS

-----------------------------------------------------------------------------
(* Arithmetic.                                                                  *)

LEMMA Division ==
    ASSUME NEW x \in Nat, NEW a \in Nat \ {0}
    PROVE  /\ x \div a \in Nat
           /\ x % a \in 0 .. (a - 1)
           /\ x = (x \div a) * a + (x % a)
OBVIOUS

LEMMA MultipleOf ==
    ASSUME NEW k \in Nat, NEW a \in Nat \ {0}
    PROVE  (k * a) % a = 0
OBVIOUS

LEMMA TimesMonotone ==
    ASSUME NEW k \in Nat, NEW n \in Nat, NEW s \in Nat, k <= n
    PROVE  k * s <= n * s
OBVIOUS

LEMMA OneMoreTimes ==
    ASSUME NEW k \in Nat, NEW s \in Nat
    PROVE  (k + 1) * s = k * s + s
OBVIOUS

\* std::align rounds up by less than the alignment.
LEMMA AlignUpBounds ==
    ASSUME NEW p \in Nat, NEW a \in Nat \ {0}
    PROVE  /\ AlignUp(p, a) \in Nat
           /\ p <= AlignUp(p, a)
           /\ AlignUp(p, a) <= p + a - 1
           /\ AlignUp(p, a) % a = 0
<1> DEFINE x == p + a - 1
           k == x \div a
<1>1. x \in Nat /\ AlignUp(p, a) = k * a
  BY DEF AlignUp
<1>2. k \in Nat /\ x % a \in 0 .. (a - 1) /\ x = k * a + (x % a)
  BY <1>1, Division
<1>3. k * a \in Nat
  BY <1>2
<1>4. (k * a) % a = 0
  BY <1>2, MultipleOf
<1> HIDE DEF k
<1>5. QED
  BY <1>1, <1>2, <1>3, <1>4

\* An aligned address is its own aligned address.
LEMMA AlignUpFixed ==
    ASSUME NEW p \in Nat, NEW a \in Nat \ {0}, p % a = 0
    PROVE  AlignUp(p, a) = p
<1> DEFINE q == AlignUp(p, a)
           j == p \div a
           k == q \div a
<1>1. q \in Nat /\ p <= q /\ q <= p + a - 1 /\ q % a = 0
  BY AlignUpBounds
<1> HIDE DEF q
<1>2. j \in Nat /\ p = j * a
  BY Division
<1>3. k \in Nat /\ q = k * a
  BY <1>1, Division
<1> HIDE DEF j, k
<1>4. k <= j
  <2>1. SUFFICES ASSUME j + 1 <= k PROVE FALSE
    BY <1>2, <1>3
  <2>2. (j + 1) * a <= k * a
    BY <1>2, <1>3, <2>1, TimesMonotone
  <2>3. (j + 1) * a = p + a
    BY <1>2
  <2> QED BY <1>1, <1>3, <2>2, <2>3
<1>5. k * a <= j * a
  BY <1>2, <1>3, <1>4, TimesMonotone
<1>6. q = p
  BY <1>1, <1>2, <1>3, <1>5
<1> QED BY <1>6 DEF q

\* What a successful std::align promises.
LEMMA AlignFits ==
    ASSUME NEW a \in Nat \ {0}, NEW size \in Nat, NEW p \in Nat, NEW space \in Int,
           Align(a, size, p, space) # Null
    PROVE  /\ Align(a, size, p, space) = AlignUp(p, a)
           /\ AlignUp(p, a) - p + size <= space
BY DEF Align

-----------------------------------------------------------------------------
(* The heap that registerUse() makes.                                           *)

\* The memory is aligned, holds one block at least, and lies above the word after
\* the heap_t; up to an alignment of 8 it holds `total` blocks with the gaps
\* between them.
Registered ==
    /\ heap \in Heap
    /\ heap.memory # 0
    /\ heap.memory % heap.align = 0
    /\ heap.size <= heap.max
    /\ \A w \in WordsAfter : w + heap.size <= heap.memory
    /\ heap.total + 1 \in Nat
    /\ heap.align <= 8 => (heap.size + 8) * (heap.total + 1) <= heap.max + 6

\* Rounding to whole pages adds at least one byte.
LEMMA ReserveEnough ==
    ASSUME NEW size \in Nat, NEW n \in Nat
    PROVE  /\ Reserve(size, n) \in Nat
           /\ (size + 8) * n + 1 <= Reserve(size, n)
<1> DEFINE x == (size + 8) * n
           k == x \div PageBytes
<1>1. x \in Nat
  OBVIOUS
<1> HIDE DEF x
<1>2. PageBytes \in Nat \ {0}
  BY HeapAssumption
<1>3. k \in Nat /\ x % PageBytes \in 0 .. (PageBytes - 1) /\ x = k * PageBytes + (x % PageBytes)
  BY <1>1, <1>2, Division
<1>4. Reserve(size, n) = (1 + k) * PageBytes
  BY DEF Reserve, x
<1> HIDE DEF k
<1>5. (1 + k) * PageBytes = PageBytes + k * PageBytes /\ k * PageBytes \in Nat
  BY <1>2, <1>3
<1>6. Reserve(size, n) \in Nat /\ x + 1 <= Reserve(size, n)
  BY <1>1, <1>2, <1>3, <1>4, <1>5
<1> QED BY <1>6 DEF x

LEMMA InitRegistered == Init => Registered
<1> SUFFICES ASSUME Init PROVE Registered
  OBVIOUS
<1>1. PICK size \in DataLengths, n \in QueueSizes, align \in Alignments, p \in Addresses :
         /\ Align(align, size, p, Reserve(size, n)) # Null
         /\ heap = HeapAt(size, n, align, p)
  BY DEF Init
<1>2. size \in Nat \ {0} /\ n \in Nat /\ align \in Nat \ {0} /\ p \in Nat \ {0}
  BY HeapAssumption
<1> DEFINE q == AlignUp(p, align)
           r == Reserve(size, n)
<1>3. q \in Nat /\ p <= q /\ q <= p + align - 1 /\ q % align = 0
  BY <1>2, AlignUpBounds
<1>4. r \in Nat /\ (size + 8) * n + 1 <= r
  BY <1>2, ReserveEnough
<1>5. Align(align, size, p, r) = q /\ q - p + size <= r
  BY <1>1, <1>2, <1>4, AlignFits
<1>6. /\ heap = [size |-> size, align |-> align, memory |-> q, max |-> r - (q - p), total |-> n - 1]
      /\ heap.size = size /\ heap.align = align /\ heap.memory = q
      /\ heap.max = r - (q - p) /\ heap.total = n - 1
  BY <1>1, <1>5 DEF HeapAt
<1> HIDE DEF q, r
<1>7. heap \in Heap
  BY <1>2, <1>3, <1>4, <1>6 DEF Heap
<1>8. heap.memory # 0 /\ heap.memory % heap.align = 0 /\ heap.size <= heap.max
  BY <1>2, <1>3, <1>4, <1>5, <1>6
<1>9. \A w \in WordsAfter : w + heap.size <= heap.memory
  <2> TAKE w \in WordsAfter
  <2>1. w \in Nat /\ w + size <= p
    BY HeapAssumption
  <2> QED BY <1>2, <1>3, <1>6, <2>1
<1>10. heap.total + 1 = n
  BY <1>2, <1>6
<1>11. heap.align <= 8 => (heap.size + 8) * (heap.total + 1) <= heap.max + 6
  <2> DEFINE x == (size + 8) * n
  <2>1. x \in Nat
    BY <1>2
  <2>2. (heap.size + 8) * (heap.total + 1) = x
    BY <1>6, <1>10
  <2>3. x + 1 <= r
    BY <1>4
  <2> HIDE DEF x
  <2>4. heap.align <= 8 => x <= heap.max + 6
    BY <1>2, <1>3, <1>4, <1>6, <2>1, <2>3
  <2> QED BY <2>2, <2>4
<1> QED
  BY <1>2, <1>7, <1>8, <1>9, <1>10, <1>11 DEF Registered

-----------------------------------------------------------------------------
(* The inductive invariant.                                                     *)

\* Up to an alignment of 8, a block and the gap before it take at most 7 bytes
\* more than its size.
Strided ==
    heap.align <= 8 =>
        \A i \in DOMAIN blocks :
            blocks[i].second + heap.size <= heap.memory + i * (heap.size + 7)

\* The first alloc() never fails, so a count of blocks means that there is one.
CountMeansBlocks == allocated # 0 => blocks # <<>>

HeapInv ==
    /\ TypeOK
    /\ Registered
    /\ BlocksApart
    /\ BlocksInMemory
    /\ CountCovers
    /\ CountMeansBlocks
    /\ Strided

\* The positions in use are finitely many.
LEMMA InUseFinite ==
    ASSUME NEW S, blocks \in Seq(S)
    PROVE  /\ IsFiniteSet(InUse)
           /\ Cardinality(InUse) \in Nat
           /\ InUse \subseteq 1 .. Len(blocks)
           /\ IsFiniteSet(1 .. Len(blocks))
           /\ Cardinality(1 .. Len(blocks)) = Len(blocks)
<1>1. Len(blocks) \in Nat /\ InUse \subseteq 1 .. Len(blocks)
  BY DEF InUse
<1>2. /\ IsFiniteSet(1 .. Len(blocks))
      /\ Cardinality(1 .. Len(blocks)) = IF 1 > Len(blocks) THEN 0 ELSE Len(blocks) - 1 + 1
  <2>1. 1 \in Int /\ Len(blocks) \in Int
    BY <1>1
  <2> QED BY <2>1, FS_Interval, Zenon
<1>3. IsFiniteSet(InUse)
  BY <1>1, <1>2, FS_Subset
<1> QED
  BY <1>1, <1>2, <1>3, FS_CardinalityType

\* The types as the proofs below use them.
LEMMA Typed ==
    ASSUME TypeOK
    PROVE  /\ heap.size \in Nat \ {0} /\ heap.align \in Nat \ {0}
           /\ heap.memory \in Nat /\ heap.max \in Int /\ heap.total \in Int
           /\ blocks \in Seq(Block) /\ Len(blocks) \in Nat
           /\ DOMAIN blocks = 1 .. Len(blocks)
           /\ Len(blocks) = 0 <=> blocks = <<>>
           /\ \A i \in 1 .. Len(blocks) : blocks[i].second \in Nat /\ blocks[i].inUse \in BOOLEAN
           /\ allocated \in Nat
<1>1. heap.size \in DataLengths /\ heap.align \in Alignments
  BY DEF TypeOK, Heap
<1>2. heap.size \in Nat \ {0} /\ heap.align \in Nat \ {0}
  BY <1>1, HeapAssumption
<1>3. heap.memory \in Nat /\ heap.max \in Int /\ heap.total \in Int
  BY DEF TypeOK, Heap
<1>4. blocks \in Seq(Block) /\ Len(blocks) \in Nat /\ DOMAIN blocks = 1 .. Len(blocks)
  BY DEF TypeOK
<1>5. Len(blocks) = 0 <=> blocks = <<>>
  BY <1>4, EmptySeq
<1>6. \A i \in 1 .. Len(blocks) : blocks[i] \in Block
  BY <1>4
<1>7. allocated \in Nat
  BY HeapAssumption DEF TypeOK
<1> QED
  BY <1>2, <1>3, <1>4, <1>5, <1>6, <1>7 DEF Block

\* What alloc() computes when no freed block is left: without blocks, an address
\* at the start of the memory; otherwise one behind the last block, or Null.
LEMMA CarveFacts ==
    ASSUME HeapInv, Reusable = {}, NEW back \in Back
    PROVE  /\ blocks = <<>> => NewBlock(back) = heap.memory
           /\ blocks # <<>> =>
                 LET end == blocks[Len(blocks)].second + heap.size
                     q == AlignUp(end, heap.align)
                 IN  /\ end \in Nat
                     /\ NewBlock(back) =
                           IF q + heap.size <= heap.memory + heap.max THEN q ELSE Null
<1>1. /\ heap.size \in Nat \ {0} /\ heap.align \in Nat \ {0}
      /\ heap.memory \in Nat \ {0} /\ heap.max \in Int
      /\ blocks \in Seq(Block) /\ allocated \in Nat
      /\ Len(blocks) = 0 <=> blocks = <<>>
      /\ \A i \in 1 .. Len(blocks) : blocks[i].second \in Nat
  BY Typed DEF HeapInv, Registered
<1>2. Len(blocks) \in Nat /\ DOMAIN blocks = 1 .. Len(blocks)
  BY <1>1
<1>3. InUse = 1 .. Len(blocks)
  BY <1>2 DEF InUse, Reusable
<1>4. ASSUME blocks = <<>> PROVE NewBlock(back) = heap.memory
  <2>1. InUse = {} /\ allocated = 0
    BY <1>2, <1>3, <1>4 DEF HeapInv, CountMeansBlocks
  <2>2. back \in WordsAfter
    BY <1>4 DEF Back
  <2>3. back \in Nat /\ back + heap.size <= heap.memory
    BY <2>2, HeapAssumption DEF HeapInv, Registered
  <2>4. Remaining(back) \in Int /\ heap.max <= Remaining(back)
    <3>1. heap.size <= heap.max
      BY DEF HeapInv, Registered
    <3> QED BY <1>1, <2>3, <3>1 DEF Remaining
  <2>5. AlignUp(heap.memory, heap.align) = heap.memory
    BY <1>1, AlignUpFixed DEF HeapInv, Registered
  <2>6. heap.size <= Remaining(back)
    BY <1>1, <2>4 DEF HeapInv, Registered
  <2> QED
    BY <1>1, <2>1, <2>5, <2>6 DEF NewBlock, NextPtr, Align
<1>5. ASSUME blocks # <<>>
      PROVE  LET end == blocks[Len(blocks)].second + heap.size
                 q == AlignUp(end, heap.align)
             IN  /\ end \in Nat
                 /\ NewBlock(back) =
                       IF q + heap.size <= heap.memory + heap.max THEN q ELSE Null
  <2> DEFINE last == blocks[Len(blocks)].second
             end == last + heap.size
             q == AlignUp(end, heap.align)
  <2>1. Len(blocks) \in DOMAIN blocks /\ last \in Nat
    BY <1>1, <1>2, <1>5
  <2>2. back = last
    BY <1>5 DEF Back
  <2>3. end <= heap.memory + heap.max
    BY <2>1 DEF HeapInv, BlocksInMemory
  <2>4. allocated # 0
    <3>1. Cardinality(InUse) = Len(blocks)
      BY <1>1, <1>3, InUseFinite
    <3> QED BY <1>1, <1>2, <2>1, <3>1 DEF HeapInv, CountCovers
  <2> HIDE DEF last
  <2>5. end \in Nat /\ Remaining(back) = heap.max - (end - heap.memory) /\ NextPtr(back) = end
    BY <1>1, <2>1, <2>2, <2>3, <2>4 DEF Remaining, NextPtr
  <2>6. NewBlock(back) = IF q - end + heap.size <= heap.max - (end - heap.memory) THEN q ELSE Null
    BY <2>5 DEF NewBlock, Align
  <2>7. q \in Nat
    BY <1>1, <2>5, AlignUpBounds
  <2> HIDE DEF q, end
  <2>8. /\ end \in Nat
        /\ NewBlock(back) = IF q + heap.size <= heap.memory + heap.max THEN q ELSE Null
    <3>1. heap.memory \in Nat /\ heap.max \in Int /\ heap.size \in Nat
      BY <1>1
    <3>2. q - end + heap.size <= heap.max - (end - heap.memory)
            <=> q + heap.size <= heap.memory + heap.max
      BY <2>5, <2>7, <3>1
    <3> QED BY <2>5, <2>6, <3>2
  <2> QED
    BY <2>8 DEF q, end, last
<1> QED
  BY <1>4, <1>5

\* Marking blocks as used or free moves none of them.
LEMMA SamePlaces ==
    ASSUME HeapInv, UNCHANGED heap,
           blocks' \in Seq(Block), Len(blocks') = Len(blocks),
           \A i \in 1 .. Len(blocks) : blocks'[i].second = blocks[i].second
    PROVE  /\ Registered'
           /\ BlocksApart' /\ BlocksInMemory' /\ Strided'
           /\ DOMAIN blocks' = 1 .. Len(blocks)
           /\ blocks # <<>> => blocks' # <<>>
<1>1. /\ DOMAIN blocks = 1 .. Len(blocks)
      /\ Len(blocks) = 0 <=> blocks = <<>>
      /\ Len(blocks) \in Nat
  BY Typed DEF HeapInv
<1>2. DOMAIN blocks' = 1 .. Len(blocks) /\ (blocks # <<>> => blocks' # <<>>)
  BY <1>1, EmptySeq
<1>3. Registered'
  BY DEF HeapInv, Registered
<1>4. BlocksApart'
  BY <1>1, <1>2 DEF HeapInv, BlocksApart
<1>5. BlocksInMemory'
  BY <1>1, <1>2 DEF HeapInv, BlocksInMemory
<1>6. Strided'
  BY <1>1, <1>2 DEF HeapInv, Strided
<1> QED
  BY <1>2, <1>3, <1>4, <1>5, <1>6

\* Changing the mark of one block.
LEMMA OneMark ==
    ASSUME HeapInv, UNCHANGED heap, NEW i \in DOMAIN blocks, NEW used \in BOOLEAN,
           blocks' = [blocks EXCEPT ![i].inUse = used]
    PROVE  /\ blocks' \in Seq(Block) /\ Len(blocks') = Len(blocks)
           /\ \A j \in 1 .. Len(blocks) : blocks'[j].second = blocks[j].second
           /\ blocks'[i].inUse = used
           /\ \A j \in DOMAIN blocks : j # i => blocks'[j] = blocks[j]
<1>1. /\ blocks \in Seq(Block) /\ Len(blocks) \in Nat
      /\ DOMAIN blocks = 1 .. Len(blocks)
  BY Typed DEF HeapInv
<1>2. \A j \in 1 .. Len(blocks) : blocks[j] \in Block
  BY <1>1
<1>3. \A j \in 1 .. Len(blocks) :
         blocks'[j] = IF j = i THEN [blocks[i] EXCEPT !.inUse = used] ELSE blocks[j]
  BY <1>1
<1>4. /\ [blocks[i] EXCEPT !.inUse = used] \in Block
      /\ [blocks[i] EXCEPT !.inUse = used].second = blocks[i].second
      /\ [blocks[i] EXCEPT !.inUse = used].inUse = used
  BY <1>1, <1>2 DEF Block
<1>5. blocks' \in Seq(Block) /\ Len(blocks') = Len(blocks)
  <2>1. blocks' \in [1 .. Len(blocks) -> Block]
    BY <1>1, <1>2, <1>3, <1>4
  <2> QED BY <1>1, <2>1
<1> QED
  BY <1>1, <1>3, <1>4, <1>5

LEMMA ReuseKeeps ==
    ASSUME HeapInv, Reuse
    PROVE  HeapInv'
<1>1. PICK i \in Reusable :
         /\ blocks' = [blocks EXCEPT ![i].inUse = TRUE]
         /\ ret' = blocks[i].second
  BY DEF Reuse
<1>2. UNCHANGED heap /\ allocated' = allocated + 1 /\ allocated < MaxAllocated
  BY DEF Reuse
<1>3. i \in DOMAIN blocks /\ i \notin InUse
  BY DEF Reusable, InUse
<1>4. /\ DOMAIN blocks = 1 .. Len(blocks) /\ allocated \in Nat
      /\ blocks[i].second \in Nat
      /\ blocks \in Seq(Block) /\ Len(blocks) \in Nat
      /\ Len(blocks) = 0 <=> blocks = <<>>
  BY <1>3, Typed DEF HeapInv
<1>5. /\ blocks' \in Seq(Block) /\ Len(blocks') = Len(blocks)
      /\ \A j \in 1 .. Len(blocks) : blocks'[j].second = blocks[j].second
      /\ blocks'[i].inUse = TRUE
      /\ \A j \in DOMAIN blocks : j # i => blocks'[j] = blocks[j]
  BY <1>1, <1>2, <1>3, OneMark
<1>6. /\ Registered' /\ BlocksApart' /\ BlocksInMemory' /\ Strided'
      /\ DOMAIN blocks' = 1 .. Len(blocks)
      /\ blocks # <<>> => blocks' # <<>>
  BY <1>2, <1>5, SamePlaces
<1>7. TypeOK'
  <2>1. allocated' \in 0 .. MaxAllocated
    BY <1>2, <1>4, HeapAssumption
  <2> QED BY <1>1, <1>2, <1>4, <1>5, <2>1 DEF HeapInv, TypeOK
<1>8. CountCovers'
  <2>1. InUse' = InUse \cup {i}
    BY <1>3, <1>4, <1>5, <1>6 DEF InUse
  <2>2. IsFiniteSet(InUse) /\ Cardinality(InUse) \in Nat
    BY <1>4, InUseFinite
  <2>3. Cardinality(InUse') = Cardinality(InUse) + 1
    BY <1>3, <2>1, <2>2, FS_AddElement
  <2> QED BY <1>2, <1>4, <2>2, <2>3 DEF HeapInv, CountCovers
<1>9. CountMeansBlocks'
  BY <1>3, <1>4, <1>6 DEF CountMeansBlocks
<1> QED
  BY <1>6, <1>7, <1>8, <1>9 DEF HeapInv

LEMMA FreeKeeps ==
    ASSUME HeapInv, NEW block, Free(block)
    PROVE  HeapInv'
<1>1. PICK i \in Frees(block) : blocks' = [blocks EXCEPT ![i].inUse = FALSE]
  BY DEF Free
<1>2. UNCHANGED heap /\ allocated' = allocated - 1 /\ ret' = Null
  BY DEF Free
<1>3. i \in DOMAIN blocks /\ i \in InUse
  BY DEF Frees, InUse
<1>4. /\ DOMAIN blocks = 1 .. Len(blocks) /\ allocated \in Nat
      /\ blocks \in Seq(Block) /\ Len(blocks) \in Nat
      /\ Len(blocks) = 0 <=> blocks = <<>>
  BY Typed DEF HeapInv
<1>5. /\ blocks' \in Seq(Block) /\ Len(blocks') = Len(blocks)
      /\ \A j \in 1 .. Len(blocks) : blocks'[j].second = blocks[j].second
      /\ blocks'[i].inUse = FALSE
      /\ \A j \in DOMAIN blocks : j # i => blocks'[j] = blocks[j]
  BY <1>1, <1>2, <1>3, OneMark
<1>6. /\ Registered' /\ BlocksApart' /\ BlocksInMemory' /\ Strided'
      /\ DOMAIN blocks' = 1 .. Len(blocks)
      /\ blocks # <<>> => blocks' # <<>>
  BY <1>2, <1>5, SamePlaces
<1>7. InUse' = InUse \ {i}
  BY <1>3, <1>4, <1>5, <1>6 DEF InUse
<1>8. IsFiniteSet(InUse) /\ Cardinality(InUse) \in Nat /\ Cardinality(InUse') \in Nat
      /\ Cardinality(InUse') = Cardinality(InUse) - 1
  <2>1. IsFiniteSet(InUse) /\ Cardinality(InUse) \in Nat
    BY <1>4, InUseFinite
  <2>2. IsFiniteSet(InUse') /\ Cardinality(InUse') = Cardinality(InUse) - 1
    BY <1>3, <1>7, <2>1, FS_RemoveElement
  <2> QED BY <2>1, <2>2, FS_CardinalityType
<1>9. CountCovers'
  BY <1>2, <1>4, <1>8 DEF HeapInv, CountCovers
<1>10. TypeOK'
  <2>1. allocated' \in 0 .. MaxAllocated
    BY <1>2, <1>4, <1>8, HeapAssumption DEF HeapInv, CountCovers, TypeOK
  <2> QED BY <1>2, <1>5, <2>1 DEF HeapInv, TypeOK, Null
<1>11. CountMeansBlocks'
  BY <1>3, <1>4, <1>6 DEF CountMeansBlocks
<1> QED
  BY <1>6, <1>9, <1>10, <1>11 DEF HeapInv

LEMMA FreeAllKeeps ==
    ASSUME HeapInv, FreeAll
    PROVE  HeapInv'
<1>1. /\ blocks' = [i \in DOMAIN blocks |-> [blocks[i] EXCEPT !.inUse = FALSE]]
      /\ UNCHANGED heap /\ allocated' = allocated /\ ret' = Null
  BY DEF FreeAll
<1>2. /\ DOMAIN blocks = 1 .. Len(blocks) /\ allocated \in Nat
      /\ blocks \in Seq(Block) /\ Len(blocks) \in Nat
  BY Typed DEF HeapInv
<1>3. \A i \in 1 .. Len(blocks) :
         /\ [blocks[i] EXCEPT !.inUse = FALSE] \in Block
         /\ [blocks[i] EXCEPT !.inUse = FALSE].second = blocks[i].second
         /\ [blocks[i] EXCEPT !.inUse = FALSE].inUse = FALSE
  <2>1. \A i \in 1 .. Len(blocks) : blocks[i] \in Block
    BY <1>2
  <2> QED BY <2>1 DEF Block
<1>4. blocks' \in Seq(Block) /\ Len(blocks') = Len(blocks)
  <2>1. blocks' \in [1 .. Len(blocks) -> Block]
    BY <1>1, <1>2, <1>3
  <2> QED BY <1>2, <2>1
<1>5. \A i \in 1 .. Len(blocks) : blocks'[i].second = blocks[i].second /\ ~ blocks'[i].inUse
  BY <1>1, <1>2, <1>3
<1>6. /\ Registered' /\ BlocksApart' /\ BlocksInMemory' /\ Strided'
      /\ DOMAIN blocks' = 1 .. Len(blocks)
      /\ blocks # <<>> => blocks' # <<>>
  BY <1>1, <1>4, <1>5, SamePlaces
<1>7. InUse' = {}
  BY <1>5, <1>6 DEF InUse
<1>8. CountCovers'
  BY <1>1, <1>2, <1>7, FS_EmptySet DEF CountCovers
<1>9. TypeOK'
  BY <1>1, <1>4 DEF HeapInv, TypeOK, Null
<1>10. CountMeansBlocks'
  BY <1>1, <1>6 DEF HeapInv, CountMeansBlocks
<1> QED
  BY <1>6, <1>8, <1>9, <1>10 DEF HeapInv

LEMMA CarveKeeps ==
    ASSUME HeapInv, Carve
    PROVE  HeapInv'
<1>1. PICK back \in Back :
         /\ NewBlock(back) # Null
         /\ blocks' = Append(blocks, [inUse |-> TRUE, second |-> NewBlock(back)])
         /\ ret' = NewBlock(back)
  BY DEF Carve
<1>2. UNCHANGED heap /\ allocated' = allocated + 1 /\ allocated < MaxAllocated
  BY DEF Carve
<1> DEFINE n == Len(blocks)
           new == NewBlock(back)
<1>3. /\ heap.size \in Nat \ {0} /\ heap.align \in Nat \ {0}
      /\ heap.memory \in Nat /\ heap.max \in Int
      /\ DOMAIN blocks = 1 .. n /\ n \in Nat /\ allocated \in Nat
      /\ blocks \in Seq(Block)
      /\ n = 0 <=> blocks = <<>>
      /\ \A i \in 1 .. n : blocks[i].second \in Nat
  BY Typed DEF HeapInv
\* The new block lies behind the last one, inside the memory, at most 7 bytes off
\* when the alignment is up to 8.
<1>4. /\ new \in Nat
      /\ new % heap.align = 0
      /\ heap.memory <= new
      /\ new + heap.size <= heap.memory + heap.max
      /\ \A i \in 1 .. n : blocks[i].second + heap.size <= new
      /\ heap.align <= 8 => new + heap.size <= heap.memory + (n + 1) * (heap.size + 7)
  <2>1. CASE blocks = <<>>
    <3>1. new = heap.memory
      BY <1>2, <2>1, CarveFacts DEF Carve
    <3>2. n = 0 /\ (n + 1) * (heap.size + 7) = heap.size + 7
      BY <1>3, <2>1
    <3> HIDE DEF new, n
    <3> QED BY <1>3, <3>1, <3>2 DEF HeapInv, Registered
  <2>2. CASE blocks # <<>>
    <3> DEFINE end == blocks[n].second + heap.size
               q == AlignUp(end, heap.align)
    <3>1. /\ end \in Nat
          /\ new = IF q + heap.size <= heap.memory + heap.max THEN q ELSE Null
      BY <2>2, CarveFacts DEF Carve
    <3>2. q \in Nat /\ end <= q /\ q <= end + heap.align - 1 /\ q % heap.align = 0
      BY <1>3, <3>1, AlignUpBounds
    <3>3. new = q /\ q + heap.size <= heap.memory + heap.max
      BY <1>1, <3>1
    <3>4. n \in 1 .. n
      BY <1>3, <2>2
    <3>5. heap.memory <= end
      BY <1>3, <3>4 DEF HeapInv, BlocksInMemory
    <3>6. \A i \in 1 .. n : blocks[i].second + heap.size <= end
      <4> TAKE i \in 1 .. n
      <4>1. i < n => blocks[i].second + heap.size <= blocks[n].second
        BY <1>3, <3>4 DEF HeapInv, BlocksApart
      <4> QED BY <1>3, <3>4, <4>1
    <3>7. heap.align <= 8 => end <= heap.memory + n * (heap.size + 7)
      BY <1>3, <3>4 DEF HeapInv, Strided
    <3> DEFINE stride == heap.size + 7
               before == n * stride
               after == (n + 1) * stride
    <3>8. stride \in Nat /\ after = before + stride
      <4>1. stride \in Nat
        BY <1>3
      <4> HIDE DEF stride
      <4> QED BY <1>3, <4>1, OneMoreTimes
    <3>9. before \in Nat
      BY <1>3
    <3>10. \A i \in 1 .. n : blocks[i].second + heap.size <= new
      <4>1. heap.size \in Nat /\ \A i \in 1 .. n : blocks[i].second \in Nat
        BY <1>1, <1>3
      <4>2. end \in Nat /\ new \in Nat /\ end <= new
        BY <3>1, <3>2, <3>3
      <4> HIDE DEF q, end, new, n
      <4> QED BY <3>6, <4>1, <4>2
    <3> HIDE DEF q, end, new, n
    <3>11. heap.align <= 8 => new + heap.size <= heap.memory + after
      <4>1. stride = heap.size + 7
        OBVIOUS
      <4>2. heap.align <= 8 => end <= heap.memory + before
        BY <3>7
      <4>3. heap.align <= 8 => new <= end + 7
        BY <1>3, <3>1, <3>2, <3>3
      <4>4. new \in Nat /\ end \in Nat /\ heap.size \in Nat /\ heap.memory \in Nat /\ heap.align \in Nat
        BY <1>3, <3>1, <3>2, <3>3
      <4> HIDE DEF stride, before, after
      <4> QED BY <3>8, <3>9, <4>1, <4>2, <4>3, <4>4
    <3> QED
      BY <1>3, <3>1, <3>2, <3>3, <3>5, <3>10, <3>11
  <2> QED BY <2>1, <2>2
<1> HIDE DEF new
<1>5. /\ blocks' \in Seq(Block) /\ DOMAIN blocks' = 1 .. (n + 1) /\ blocks' # <<>>
      /\ \A i \in 1 .. n : blocks'[i] = blocks[i]
      /\ blocks'[n + 1] = [inUse |-> TRUE, second |-> new]
  <2>1. [inUse |-> TRUE, second |-> new] \in Block
    BY <1>4 DEF Block
  <2>2. blocks' = Append(blocks, [inUse |-> TRUE, second |-> new])
    BY <1>1 DEF new
  <2> QED BY <1>3, <2>1, <2>2, AppendProperties
<1>6. \A i \in 1 .. (n + 1) : i \in 1 .. n \/ i = n + 1
  BY <1>3
<1>7. blocks'[n + 1].second = new /\ blocks'[n + 1].inUse = TRUE
  BY <1>5
<1>8. TypeOK'
  <2>1. allocated' \in 0 .. MaxAllocated
    BY <1>2, <1>3, HeapAssumption
  <2>2. ret' \in Nat
    BY <1>1, <1>4 DEF new
  <2> QED BY <1>2, <1>5, <2>1, <2>2 DEF HeapInv, TypeOK
<1>9. Registered'
  BY <1>2 DEF HeapInv, Registered
<1>10. BlocksApart'
  <2>1. SUFFICES ASSUME NEW i \in 1 .. (n + 1), NEW j \in 1 .. (n + 1), i < j
                 PROVE  blocks'[i].second + heap.size <= blocks'[j].second
    BY <1>2, <1>5 DEF BlocksApart
  <2>2. i \in 1 .. n /\ blocks'[i] = blocks[i]
    BY <1>3, <1>5, <2>1
  <2>3. CASE j \in 1 .. n
    BY <1>3, <1>5, <2>1, <2>2, <2>3 DEF HeapInv, BlocksApart
  <2>4. CASE j = n + 1
    BY <1>4, <1>7, <2>2, <2>4
  <2> QED BY <1>6, <2>3, <2>4
<1>11. BlocksInMemory'
  <2>1. SUFFICES ASSUME NEW i \in 1 .. (n + 1)
                 PROVE  /\ blocks'[i].second % heap.align = 0
                        /\ heap.memory <= blocks'[i].second
                        /\ blocks'[i].second + heap.size <= heap.memory + heap.max
    BY <1>2, <1>5 DEF BlocksInMemory
  <2>2. CASE i \in 1 .. n
    BY <1>3, <1>5, <2>2 DEF HeapInv, BlocksInMemory
  <2>3. CASE i = n + 1
    BY <1>4, <1>7, <2>3
  <2> QED BY <1>6, <2>2, <2>3
<1>12. Strided'
  <2>1. SUFFICES ASSUME NEW i \in 1 .. (n + 1), heap.align <= 8
                 PROVE  blocks'[i].second + heap.size <= heap.memory + i * (heap.size + 7)
    BY <1>2, <1>5 DEF Strided
  <2>2. CASE i \in 1 .. n
    BY <1>3, <1>5, <2>1, <2>2 DEF HeapInv, Strided
  <2>3. CASE i = n + 1
    BY <1>4, <1>7, <2>1, <2>3
  <2> QED BY <1>6, <2>2, <2>3
<1>13. CountCovers'
  <2>1. InUse' = InUse \cup {n + 1} /\ n + 1 \notin InUse
    BY <1>3, <1>5, <1>6, <1>7 DEF InUse
  <2>2. IsFiniteSet(InUse) /\ Cardinality(InUse) \in Nat
    BY <1>3, InUseFinite
  <2>3. Cardinality(InUse') = Cardinality(InUse) + 1
    BY <2>1, <2>2, FS_AddElement
  <2> QED BY <1>2, <1>3, <2>2, <2>3 DEF HeapInv, CountCovers
<1>14. CountMeansBlocks'
  BY <1>5 DEF CountMeansBlocks
<1> QED
  BY <1>8, <1>9, <1>10, <1>11, <1>12, <1>13, <1>14 DEF HeapInv

\* alloc() fails only with a block to stand behind.
LEMMA AllocFailsKeeps ==
    ASSUME HeapInv, AllocFails
    PROVE  HeapInv'
<1>1. PICK back \in Back : NewBlock(back) = Null
  BY DEF AllocFails
<1>2. /\ UNCHANGED <<heap, blocks>> /\ ret' = Null
      /\ allocated' = allocated + 1 /\ allocated < MaxAllocated
  BY DEF AllocFails
<1>3. blocks # <<>>
  BY <1>1, CarveFacts DEF AllocFails, HeapInv, Registered, Null
<1>4. allocated \in Nat /\ blocks \in Seq(Block)
  BY Typed DEF HeapInv
<1>5. TypeOK'
  BY <1>2, <1>4, HeapAssumption DEF HeapInv, TypeOK, Null
<1>6. InUse' = InUse /\ Cardinality(InUse) \in Nat
  BY <1>2, <1>4, InUseFinite DEF InUse
<1>7. CountCovers'
  BY <1>2, <1>4, <1>6 DEF HeapInv, CountCovers
<1> QED
  BY <1>2, <1>3, <1>5, <1>7
  DEF HeapInv, Registered, BlocksApart, BlocksInMemory, CountMeansBlocks, Strided

LEMMA HeapInvStep == HeapInv /\ [Next]_vars => HeapInv'
<1> SUFFICES ASSUME HeapInv, [Next]_vars PROVE HeapInv'
  OBVIOUS
<1>1. CASE Reuse
  BY <1>1, ReuseKeeps
<1>2. CASE Carve
  BY <1>2, CarveKeeps
<1>3. CASE AllocFails
  BY <1>3, AllocFailsKeeps
<1>4. ASSUME NEW i \in DOMAIN blocks, Free(blocks[i].second) PROVE HeapInv'
  BY <1>4, FreeKeeps
<1>5. CASE FreeAll
  BY <1>5, FreeAllKeeps
<1>6. CASE UNCHANGED vars
  <2>1. UNCHANGED <<heap, blocks, allocated, ret>>
    BY <1>6 DEF vars
  <2>2. InUse' = InUse
    BY <2>1 DEF InUse
  <2> QED
    BY <2>1, <2>2 DEF HeapInv, TypeOK, Registered, BlocksApart, BlocksInMemory,
                      CountCovers, CountMeansBlocks, Strided
<1> QED
  BY <1>1, <1>2, <1>3, <1>4, <1>5, <1>6 DEF Next

LEMMA HeapInvInit == Init => HeapInv
<1> SUFFICES ASSUME Init PROVE HeapInv
  OBVIOUS
<1>1. Registered
  BY InitRegistered
<1>2. blocks = <<>> /\ allocated = 0 /\ ret = Null
  BY DEF Init
<1>3. DOMAIN blocks = {} /\ InUse = {}
  BY <1>2 DEF InUse
<1>4. TypeOK
  BY <1>1, <1>2, HeapAssumption DEF TypeOK, Registered, Null
<1>5. CountCovers
  BY <1>2, <1>3, FS_EmptySet DEF CountCovers
<1> QED
  BY <1>1, <1>2, <1>3, <1>4, <1>5
  DEF HeapInv, BlocksApart, BlocksInMemory, CountMeansBlocks, Strided

LEMMA HeapInvariant == Spec => []HeapInv
<1>1. Init => HeapInv
  BY HeapInvInit
<1>2. HeapInv /\ [Next]_vars => HeapInv'
  BY HeapInvStep
<1> QED
  BY <1>1, <1>2, PTL DEF Spec

-----------------------------------------------------------------------------
(* The theorems.                                                                *)

\* `allocated` and the list of heap_t have their types; free() never counts below
\* zero.
THEOREM HeapTypeCorrect == Spec => []TypeOK
<1>1. HeapInv => TypeOK
  BY DEF HeapInv
<1> QED
  BY <1>1, HeapInvariant, PTL

\* heap_t::alloc cuts its memory into blocks that share no byte.
THEOREM BlocksStayApart == Spec => []BlocksApart
<1>1. HeapInv => BlocksApart
  BY DEF HeapInv
<1> QED
  BY <1>1, HeapInvariant, PTL

\* heap_t::alloc hands out aligned blocks inside its memory only.
THEOREM BlocksStayInside == Spec => []BlocksInMemory
<1>1. HeapInv => BlocksInMemory
  BY DEF HeapInv
<1> QED
  BY <1>1, HeapInvariant, PTL

\* `allocated` of a heap_t with a block in use is not zero.
THEOREM CountIsEnough == Spec => []CountCovers
<1>1. HeapInv => CountCovers
  BY DEF HeapInv
<1> QED
  BY <1>1, HeapInvariant, PTL

\* Two blocks never have one address.
LEMMA DistinctAddresses ==
    ASSUME HeapInv, NEW i \in DOMAIN blocks, NEW j \in DOMAIN blocks,
           blocks[i].second = blocks[j].second
    PROVE  i = j
<1>1. /\ heap.size \in Nat \ {0}
      /\ i \in Nat /\ j \in Nat
      /\ blocks[i].second \in Nat /\ blocks[j].second \in Nat
  BY Typed DEF HeapInv
<1>2. /\ i < j => blocks[i].second + heap.size <= blocks[j].second
      /\ j < i => blocks[j].second + heap.size <= blocks[i].second
  BY DEF HeapInv, BlocksApart
<1> QED
  BY <1>1, <1>2

\* A new block has no address of an old one.
LEMMA NewAddress ==
    ASSUME HeapInv, Carve, NEW i \in DOMAIN blocks
    PROVE  blocks[i].second # ret'
<1>1. PICK back \in Back :
         /\ NewBlock(back) # Null
         /\ blocks' = Append(blocks, [inUse |-> TRUE, second |-> NewBlock(back)])
         /\ ret' = NewBlock(back)
  BY DEF Carve
<1>2. /\ heap.size \in Nat \ {0} /\ heap.align \in Nat \ {0}
      /\ DOMAIN blocks = 1 .. Len(blocks) /\ Len(blocks) \in Nat
      /\ Len(blocks) = 0 <=> blocks = <<>>
      /\ \A k \in 1 .. Len(blocks) : blocks[k].second \in Nat
  BY Typed DEF HeapInv
<1> DEFINE n == Len(blocks)
           end == blocks[n].second + heap.size
           q == AlignUp(end, heap.align)
<1>3. blocks # <<>> /\ n \in DOMAIN blocks
  BY <1>2
<1>4. end \in Nat /\ ret' = q
  BY <1>1, <1>3, CarveFacts DEF Carve
<1>5. q \in Nat /\ end <= q
  BY <1>2, <1>4, AlignUpBounds
<1>6. i < n => blocks[i].second + heap.size <= blocks[n].second
  BY <1>3 DEF HeapInv, BlocksApart
<1> HIDE DEF q
<1> QED
  BY <1>2, <1>3, <1>4, <1>5, <1>6

\* heap_t::alloc returns a freed block or a new one, never a block in use.
THEOREM AllocIsFresh == Spec => FreshBlock
<1>1. ASSUME HeapInv, [Next]_vars
      PROVE  [ret' # Null => \A i \in InUse : blocks[i].second # ret']_vars
  <2>1. SUFFICES ASSUME Next, ret' # Null, NEW i \in InUse
                 PROVE  blocks[i].second # ret'
    BY <1>1 DEF vars
  <2>2. i \in DOMAIN blocks
    BY DEF InUse
  <2>3. CASE Reuse
    <3>1. PICK j \in Reusable : ret' = blocks[j].second
      BY <2>3 DEF Reuse
    <3>2. j \in DOMAIN blocks /\ j # i
      BY DEF Reusable, InUse
    <3> QED BY <1>1, <2>2, <3>1, <3>2, DistinctAddresses
  <2>4. CASE Carve
    BY <1>1, <2>2, <2>4, NewAddress
  <2>5. CASE AllocFails
    BY <2>1, <2>5 DEF AllocFails
  <2>6. ASSUME NEW j \in DOMAIN blocks, Free(blocks[j].second) PROVE FALSE
    BY <2>1, <2>6 DEF Free
  <2>7. CASE FreeAll
    BY <2>1, <2>7 DEF FreeAll
  <2> QED BY <2>1, <2>3, <2>4, <2>5, <2>6, <2>7 DEF Next
<1> QED
  BY <1>1, HeapInvariant, PTL DEF Spec, FreshBlock

\* n blocks of s bytes with gaps of 7 bytes overflow a memory for m blocks only when
\* n is m - 1 at least.
LEMMA GapsFit ==
    ASSUME NEW n \in Nat, NEW m \in Nat, NEW s \in Nat \ {0}, NEW max \in Int,
           (s + 8) * m <= max + 6,
           max < n * (s + 7) + 7 + s
    PROVE  m <= n + 1
<1> DEFINE t == s + 7
<1>1. SUFFICES ASSUME n + 2 <= m PROVE FALSE
  OBVIOUS
<1>2. t \in Nat
  OBVIOUS
<1>3. (s + 8) * m = m * t + m
  <2>1. (t + 1) * m = t * m + m
    BY <1>2, OneMoreTimes
  <2>2. t * m = m * t
    BY <1>2
  <2> QED BY <2>1, <2>2
<1>4. (n + 2) * t <= m * t
  BY <1>1, <1>2, TimesMonotone
<1>5. (n + 2) * t = n * t + t + t
  <2>1. (n + 1) * t = n * t + t
    BY <1>2, OneMoreTimes
  <2>2. ((n + 1) + 1) * t = (n + 1) * t + t
    BY <1>2, OneMoreTimes
  <2> QED BY <2>1, <2>2
<1> DEFINE x == n * t
           y == m * t
<1>6. x \in Nat /\ y \in Nat
  BY <1>2
<1>7. /\ y + m <= max + 6
      /\ max < x + t
      /\ x + t + t <= y
  BY <1>3, <1>4, <1>5
<1>8. t \in Nat /\ 7 < t
  BY <1>2
<1> HIDE DEF t, x, y
<1> QED
  BY <1>6, <1>7, <1>8

\* With an alignment up to 8, heap_t::alloc fails only when the blocks that
\* registerUse() agreed upon are all in use.
THEOREM RoomIsEnough == Spec => RoomForTotal
<1>1. ASSUME HeapInv, [Next]_vars
      PROVE  [(allocated' > allocated /\ ret' = Null /\ heap.align <= 8)
                 => Cardinality(InUse) >= heap.total]_vars
  <2>1. SUFFICES ASSUME Next, allocated' > allocated, ret' = Null, heap.align <= 8
                 PROVE  Cardinality(InUse) >= heap.total
    BY <1>1 DEF vars
  <2> DEFINE n == Len(blocks)
  <2>2. /\ heap.size \in Nat \ {0} /\ heap.align \in Nat \ {0}
        /\ heap.memory \in Nat \ {0} /\ heap.max \in Int /\ heap.total + 1 \in Nat
        /\ heap.total \in Int
        /\ blocks \in Seq(Block) /\ DOMAIN blocks = 1 .. n /\ n \in Nat
        /\ n = 0 <=> blocks = <<>>
        /\ allocated \in Nat
        /\ \A i \in 1 .. n : blocks[i].second \in Nat
    BY <1>1, Typed DEF HeapInv, Registered
  <2>3. CASE Reuse
    <3>1. PICK i \in Reusable : ret' = blocks[i].second
      BY <2>3 DEF Reuse
    <3>2. heap.memory <= blocks[i].second /\ blocks[i].second \in Nat
      BY <1>1, <2>2 DEF HeapInv, BlocksInMemory, Reusable
    <3> QED BY <2>1, <2>2, <3>1, <3>2 DEF Null
  <2>4. CASE Carve
    BY <2>1, <2>4 DEF Carve
  <2>5. CASE AllocFails
    <3>1. PICK back \in Back : NewBlock(back) = Null
      BY <2>5 DEF AllocFails
    <3>2. blocks # <<>>
      BY <1>1, <2>2, <2>5, <3>1, CarveFacts DEF AllocFails, Null
    <3> DEFINE end == blocks[n].second + heap.size
               q == AlignUp(end, heap.align)
    <3>3. /\ end \in Nat
          /\ NewBlock(back) = IF q + heap.size <= heap.memory + heap.max THEN q ELSE Null
      BY <1>1, <2>5, <3>2, CarveFacts DEF AllocFails
    <3>4. n \in 1 .. n
      BY <2>2, <3>2
    <3>5. q \in Nat /\ end <= q /\ q <= end + heap.align - 1
      BY <2>2, <3>3, AlignUpBounds
    <3>6. end # 0
      BY <2>2, <3>4
    <3>7. heap.memory + heap.max < q + heap.size
      <4> HIDE DEF q, end
      <4> QED BY <2>2, <3>1, <3>3, <3>5, <3>6 DEF Null
    <3>8. end <= heap.memory + n * (heap.size + 7)
      BY <1>1, <2>1, <2>2, <3>4 DEF HeapInv, Strided
    <3>9. (heap.size + 8) * (heap.total + 1) <= heap.max + 6
      BY <1>1, <2>1 DEF HeapInv, Registered
    <3>10. heap.max < n * (heap.size + 7) + 7 + heap.size
      <4> DEFINE x == n * (heap.size + 7)
      <4>1. x \in Nat
        BY <2>2
      <4>2. end <= heap.memory + x
        BY <3>8
      <4>3. q <= end + 7
        BY <2>1, <2>2, <3>3, <3>5
      <4>4. heap.size \in Nat /\ heap.memory \in Nat /\ heap.max \in Int
        BY <2>2
      <4>5. q \in Nat /\ end \in Nat
        BY <3>3, <3>5
      <4> HIDE DEF x, q, end
      <4>6. heap.max < x + 7 + heap.size
        BY <3>7, <4>1, <4>2, <4>3, <4>4, <4>5
      <4> QED BY <4>6 DEF x
    <3>11. heap.total + 1 <= n + 1
      BY <2>2, <3>9, <3>10, GapsFit
    <3>12. InUse = 1 .. n
      BY <2>2, <2>5 DEF AllocFails, Reusable, InUse
    <3>13. Cardinality(InUse) = n
      BY <2>2, <3>12, InUseFinite
    <3> QED BY <2>2, <3>11, <3>13
  <2>6. ASSUME NEW j \in DOMAIN blocks, Free(blocks[j].second) PROVE FALSE
    BY <2>1, <2>2, <2>6 DEF Free
  <2>7. CASE FreeAll
    BY <2>1, <2>2, <2>7 DEF FreeAll
  <2> QED BY <2>1, <2>3, <2>4, <2>5, <2>6, <2>7 DEF Next
<1> QED
  BY <1>1, HeapInvariant, PTL DEF Spec, RoomForTotal
=============================================================================
