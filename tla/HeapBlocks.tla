----------------------------- MODULE HeapBlocks -----------------------------
(* heap_t (allocator.cpp): one malloc()ed piece of memory cut into blocks of    *)
(* one size, each aligned.  Blocks are carved off the end, marked when freed    *)
(* and handed out again; none is ever given back to the piece.                  *)
(*                                                                              *)
(* Addresses are numbers.  The first member of a pair of `blocks` matters only  *)
(* as null or not; the model keeps that as inUse.                               *)
EXTENDS Integers, Sequences, FiniteSets

CONSTANTS
    PageBytes,      \* 1 << PAGE_SHIFT
    DataLengths,    \* what getDataLength() may say: the size of a block
    QueueSizes,     \* what getQueueSize() may say
    Alignments,     \* the alignments registerUse() is asked for
    Addresses,      \* where malloc() may put a heap
    WordsAfter,     \* what memory may hold right after a heap_t
    SizeT,          \* 2^64, the numbers of a size_t
    MaxAllocated    \* the largest value of the int `allocated`

\* The word after a heap_t is malloc()'s size of the next chunk, a number far
\* below every address malloc() returns.
ASSUME HeapAssumption ==
    /\ PageBytes \in Nat \ {0}
    /\ DataLengths \subseteq Nat \ {0}
    /\ QueueSizes \subseteq Nat
    /\ Alignments \subseteq Nat \ {0}
    /\ Addresses \subseteq Nat \ {0}
    /\ WordsAfter \subseteq Nat
    /\ \A w \in WordsAfter, s \in DataLengths, a \in Addresses : w + s <= a
    /\ SizeT \in Nat
    /\ MaxAllocated \in Nat

Null == 0

VARIABLES
    heap,       \* size, align, memory, max and total, set once by registerUse()
    blocks,     \* the list of blocks, in the order of their addresses
    allocated,
    ret         \* what the last call of alloc() returned

vars == <<heap, blocks, allocated, ret>>

-----------------------------------------------------------------------------
\* std::align: the first aligned address from p on, or Null when `size` bytes do
\* not fit behind it in the `space` bytes from p.
AlignUp(p, align) == ((p + align - 1) \div align) * align

Align(align, size, p, space) ==
    LET q == AlignUp(p, align)
    IN  IF q - p + size <= space THEN q ELSE Null

\* Mutant: no room for the gaps between blocks.
ReserveTight(size, n) == (1 + (size * n) \div PageBytes) * PageBytes

\* The bytes reserved for n blocks; the division is one of integers, so ceil()
\* around it changes nothing.
Reserve(size, n) == (1 + ((size + 8) * n) \div PageBytes) * PageBytes

\* The heap registerUse() makes at address p, when it does not throw ENOALIGN.
\* std::align has moved its third argument and shortened its fourth.
HeapAt(size, n, align, p) ==
    LET memory == Align(align, size, p, Reserve(size, n))
    IN  [size   |-> size,
         align  |-> align,
         memory |-> memory,
         max    |-> Reserve(size, n) - (memory - p),
         total  |-> n - 1]

Init ==
    /\ \E size \in DataLengths, n \in QueueSizes, align \in Alignments, p \in Addresses :
          /\ Align(align, size, p, Reserve(size, n)) # Null
          /\ heap = HeapAt(size, n, align, p)
    /\ blocks = <<>>
    /\ allocated = 0
    /\ ret = Null

-----------------------------------------------------------------------------
\* Mutant: alloc() takes the first block, freed or not.
AnyBlock == DOMAIN blocks

InUse == {i \in DOMAIN blocks : blocks[i].inUse}
Reusable == {i \in DOMAIN blocks : ~blocks[i].inUse}

\* The value of blocks.back().second.  Of an empty list, back() is the word after
\* the heap_t.
Back ==
    IF blocks = <<>> THEN WordsAfter ELSE {blocks[Len(blocks)].second}

\* Mutant: the room is counted from the last block's start.
RemainingFromStart(back) ==
    LET left == heap.max - (back - heap.memory)
    IN  IF left < 0 THEN left + SizeT ELSE left

\* A negative difference becomes a huge size_t.
Remaining(back) ==
    LET left == heap.max - (back + heap.size - heap.memory)
    IN  IF left < 0 THEN left + SizeT ELSE left

\* Mutant: the next block is sought where the last one starts.
NextPtrInside(back) == IF allocated = 0 THEN heap.memory ELSE back + 1

NextPtr(back) == IF allocated = 0 THEN heap.memory ELSE back + heap.size

NewBlock(back) == Align(heap.align, heap.size, NextPtr(back), Remaining(back))

\* Mutant: a block handed out again is not counted.
ReuseUncounted ==
    /\ allocated < MaxAllocated
    /\ \E i \in Reusable :
          /\ \A j \in Reusable : i <= j
          /\ blocks' = [blocks EXCEPT ![i].inUse = TRUE]
          /\ ret' = blocks[i].second
    /\ UNCHANGED <<heap, allocated>>

\* alloc() finds a freed block; it takes the first.
Reuse ==
    /\ allocated < MaxAllocated
    /\ \E i \in Reusable :
          /\ \A j \in Reusable : i <= j
          /\ blocks' = [blocks EXCEPT ![i].inUse = TRUE]
          /\ ret' = blocks[i].second
    /\ allocated' = allocated + 1
    /\ UNCHANGED heap

\* alloc() carves a new block.  The loop around this never comes round, and
\* nothing compares `allocated` with `total` before it.
Carve ==
    /\ allocated < MaxAllocated
    /\ Reusable = {}
    /\ \E back \in Back :
          /\ NewBlock(back) # Null
          /\ blocks' = Append(blocks, [inUse |-> TRUE, second |-> NewBlock(back)])
          /\ ret' = NewBlock(back)
    /\ allocated' = allocated + 1
    /\ UNCHANGED heap

\* alloc() finds no room: `allocated` has been raised already.
AllocFails ==
    /\ allocated < MaxAllocated
    /\ Reusable = {}
    /\ \E back \in Back : NewBlock(back) = Null
    /\ ret' = Null
    /\ allocated' = allocated + 1
    /\ UNCHANGED <<heap, blocks>>

\* Mutant: free() does not ask whether the block is in use.
FreesAnyBlock(block) == {i \in DOMAIN blocks : blocks[i].second = block}

\* The pairs free(block) looks for; with none it only complains ("Double free?").
Frees(block) == {i \in InUse : blocks[i].second = block}

Free(block) ==
    /\ \E i \in Frees(block) :
          /\ \A j \in Frees(block) : i <= j
          /\ blocks' = [blocks EXCEPT ![i].inUse = FALSE]
    /\ allocated' = allocated - 1
    /\ ret' = Null
    /\ UNCHANGED heap

\* freeAll() destroys the buffers in use; it leaves `allocated` as it is.
FreeAll ==
    /\ blocks' = [i \in DOMAIN blocks |-> [blocks[i] EXCEPT !.inUse = FALSE]]
    /\ ret' = Null
    /\ UNCHANGED <<heap, allocated>>

Next ==
    \/ Reuse
    \/ Carve
    \/ AllocFails
    \/ \E i \in DOMAIN blocks : Free(blocks[i].second)
    \/ FreeAll

Spec == Init /\ [][Next]_vars

-----------------------------------------------------------------------------
(* What heap_t owes its users.                                                  *)

Heap == [size : DataLengths, align : Alignments, memory : Nat, max : Int, total : Int]
Block == [inUse : BOOLEAN, second : Nat]

\* The type invariant.  The count never goes below zero: free() counts down only
\* for a block that alloc() has counted.
TypeOK ==
    /\ heap \in Heap
    /\ blocks \in Seq(Block)
    /\ allocated \in 0 .. MaxAllocated
    /\ ret \in Nat

\* No two blocks share a byte, whatever was freed and handed out before: users
\* write their buffers without any lock between them.
BlocksApart ==
    \A i, j \in DOMAIN blocks :
        i < j => blocks[i].second + heap.size <= blocks[j].second

\* Every block is aligned and lies inside the memory that registerUse() got:
\* alloc() computes the room left from the last block, and a negative room would
\* count as a huge one.
BlocksInMemory ==
    \A i \in DOMAIN blocks :
        /\ blocks[i].second % heap.align = 0
        /\ heap.memory <= blocks[i].second
        /\ blocks[i].second + heap.size <= heap.memory + heap.max

\* `allocated` is at least the number of blocks in use, so that
\* do_unregisterHeap(), which asks `if(second->allocated)`, never frees a heap
\* with buffers without clearing them.  It may be more: a failed alloc() and a
\* freeAll() leave it too high.
CountCovers == Cardinality(InUse) <= allocated

\* alloc() never returns a block that somebody uses.
FreshBlock ==
    [][ret' # Null => \A i \in InUse : blocks[i].second # ret']_vars

\* With an alignment up to 8, the 8 bytes a block that registerUse() adds for it
\* are enough: alloc() fails only when all of the blocks agreed upon are in use.
RoomForTotal ==
    [][(allocated' > allocated /\ ret' = Null /\ heap.align <= 8)
            => Cardinality(InUse) >= heap.total]_vars

=============================================================================
