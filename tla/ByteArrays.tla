---- MODULE ByteArrays ----
\* byte_array: a pointer, a length and whether the memory is the array's own (byte_array.cpp).
\* Of the bytes, the model keeps how many there are and whether a NUL ends them.
EXTENDS Integers, Sequences

CONSTANTS Array,       \* the variables of the type
          MaxLength,   \* bound on the length of what is appended at a time
          MaxMemory    \* bound on the memory blocks allocated

ASSUME ByteArraysAssumption == MaxLength \in Nat /\ MaxMemory \in Nat

VARIABLES arrays,     \* m_data, m_length and m_destroy of each, Unborn before its constructor
          memory,     \* every block allocated: its size, whether a NUL is in it, free or not
          released,   \* the blocks whose pointer release() gave to a caller who will free them
          byteFault

byteVars == <<arrays, memory, released, byteFault>>

Null0 == 0
Elsewhere == -1       \* memory that no array allocated: a C string
Empty == [born |-> TRUE, m_data |-> Null0, m_length |-> 0, m_destroy |-> FALSE]
Unborn == [Empty EXCEPT !.born = FALSE]
Malloced(n, nul) == [size |-> n, nul |-> nul, free |-> FALSE]

BytesInit == /\ arrays = [a \in Array |-> Unborn] /\ memory = <<>> /\ released = {}
             /\ byteFault = "none"

Working(a) == byteFault = "none" /\ arrays[a].born
BytesFault(f) == byteFault' = f /\ UNCHANGED <<arrays, memory, released>>
Room == Len(memory) < MaxMemory

\* append(): realloc() of memory of its own, malloc() for an array that has none; the bytes go
\* after those that are there.  An array whose memory is not its own has no place to write to.
Appended(x, n) == [born |-> x.born, m_data |-> Len(memory) + 1, m_length |-> x.m_length + n,
                   m_destroy |-> TRUE]
MemoryAfter(x, n, nul) ==
  Append([b \in DOMAIN memory |-> IF b = x.m_data THEN [memory[b] EXCEPT !.free = TRUE] ELSE memory[b]],
         Malloced(x.m_length + n, nul))
Writable(x) == x.m_destroy \/ x.m_data = Null0
Appends(a, x, n, nul) ==
  \/ /\ n = 0 /\ arrays' = [arrays EXCEPT ![a] = x] /\ UNCHANGED <<memory, released, byteFault>>
  \/ /\ n > 0 /\ Writable(x) /\ Room
     /\ arrays' = [arrays EXCEPT ![a] = Appended(x, n)]
     /\ memory' = MemoryAfter(x, n, nul) /\ UNCHANGED <<released, byteFault>>
  \/ n > 0 /\ ~Writable(x) /\ BytesFault("wildWrite")
AppendBytes(a, n, nul) == Working(a) /\ Appends(a, arrays[a], n, nul)

\* fromData() and readAll() make an array and append to it; the one with a start takes a byte more
\* than it is told, which only a NUL-terminated source has.
FromBytes(a, n, nul) == byteFault = "none" /\ ~arrays[a].born /\ Appends(a, Empty, n, nul)
FromDataStart(a, n, nul) ==
  /\ byteFault = "none" /\ ~arrays[a].born
  /\ IF nul THEN Appends(a, Empty, n + 1, TRUE) ELSE BytesFault("overread")
\* readsome() fills whole chunks; the last part of one is read and left out.
Chunk == 2
ReadAll(a, n) == byteFault = "none" /\ ~arrays[a].born /\ Appends(a, Empty, Chunk * (n \div Chunk), FALSE)

\* clear() and the destructor: memory of its own is freed.
Freed(x) == IF x.m_destroy /\ x.m_data # Null0
              THEN [memory EXCEPT ![x.m_data].free = TRUE] ELSE memory
Clear(a) == /\ Working(a) /\ memory' = Freed(arrays[a])
            /\ \E after \in {Empty, Unborn} : arrays' = [arrays EXCEPT ![a] = after]
            /\ UNCHANGED <<released, byteFault>>

\* release(): the caller frees it, now or later; the array still points there.
StillOwned(x) == x
Disowned(x) == [x EXCEPT !.m_destroy = FALSE]

Release(a) ==
  /\ Working(a) /\ arrays' = [arrays EXCEPT ![a] = Disowned(@)]
  /\ released' = IF arrays[a].m_destroy THEN released \cup {arrays[a].m_data} ELSE released
  /\ UNCHANGED <<memory, byteFault>>
CallerFrees(b) == /\ byteFault = "none" /\ b \in released /\ released' = released \ {b}
                  /\ memory' = [memory EXCEPT ![b].free = TRUE]
                  /\ UNCHANGED <<arrays, byteFault>>

\* truncate() puts its NUL after the last byte that it keeps: past the end when it keeps them all,
\* and before the memory for a length below zero, which passes the test.
Truncate(a, n) ==
  /\ Working(a) /\ arrays[a].m_data # Null0 /\ n <= arrays[a].m_length
  /\ LET owned == arrays[a].m_destroy
         end == memory[arrays[a].m_data].size
     IN  \/ ~owned /\ BytesFault(IF n = 0 THEN "foreignWrite" ELSE "wildWrite")
         \/ owned /\ n < 0 /\ BytesFault("underrun")
         \/ owned /\ n = end /\ BytesFault("overrun")
         \/ /\ owned /\ 0 <= n /\ n < end
            /\ arrays' = [arrays EXCEPT ![a].m_length = n]
            /\ memory' = [memory EXCEPT ![arrays[a].m_data].nul = TRUE]
            /\ UNCHANGED <<released, byteFault>>
TruncateNothing(a, n) == /\ Working(a) /\ (arrays[a].m_data = Null0 \/ n > arrays[a].m_length)
                         /\ UNCHANGED byteVars

\* The conversions read m_length bytes, that to a string_list also up to the next NUL.
Reads(a, strings) ==
  /\ Working(a) /\ arrays[a].m_length > 0
  /\ LET b == arrays[a].m_data
     IN  byteFault' = IF memory[b].free THEN "useAfterFree"
                      ELSE IF strings /\ ~memory[b].nul THEN "overread" ELSE "none"
  /\ UNCHANGED <<arrays, memory, released>>

\* operator+: a const array can only be copied through its string, a temporary that is gone when
\* the copy appends to it.
Plus(a, b) == /\ Working(a) /\ Working(b) /\ arrays[b].m_length > 0 /\ BytesFault("wildWrite")
\* Each operator= and operator+= does its work, on the array and its memory, and then returns the
\* array by value: a copy, which its constructor makes with operator=, and so on without an end.
ReturnsCopy(a, x, mem) == /\ arrays' = [arrays EXCEPT ![a] = x] /\ memory' = mem
                          /\ byteFault' = "recursion" /\ UNCHANGED released
ReadsFreed(b) == arrays[b].m_length > 0 /\ memory[arrays[b].m_data].free
HasNul(b) == arrays[b].m_length > 0 /\ memory[arrays[b].m_data].nul

\* operator=(const byte_array&), which the constructors from an array call: clear(), append().
AssignCopy(a, b) ==
  /\ byteFault = "none" /\ Working(b)
  /\ LET n == IF a = b THEN 0 ELSE arrays[b].m_length
     IN  \/ n = 0 /\ ReturnsCopy(a, Empty, Freed(arrays[a]))
         \/ /\ n > 0 /\ ~ReadsFreed(b) /\ Room
            /\ ReturnsCopy(a, Appended(Empty, n), Append(Freed(arrays[a]), Malloced(n, HasNul(b))))
         \/ n > 0 /\ ReadsFreed(b) /\ BytesFault("useAfterFree")

\* operator=(const byte_array&&) leaves two arrays with the memory of one.
AssignMove(a, b) ==
  /\ Working(a) /\ Working(b)
  /\ ReturnsCopy(a, IF a = b THEN Empty ELSE arrays[b], Freed(arrays[a]))

AssignChars(a, n) ==
  /\ Working(a)
  /\ ReturnsCopy(a, [Empty EXCEPT !.m_data = Elsewhere, !.m_length = n + 1], Freed(arrays[a]))

\* operator+=: an array that is appended to itself is read after its realloc(), which may move it.
PlusAssign(a, b) ==
  /\ Working(a) /\ Working(b)
  /\ LET x == arrays[a]
         n == arrays[b].m_length
     IN  \/ n = 0 /\ ReturnsCopy(a, x, memory)
         \/ /\ n > 0 /\ Writable(x) /\ ~ReadsFreed(b) /\ Room
            /\ ReturnsCopy(a, Appended(x, n), MemoryAfter(x, n, HasNul(b)))
         \/ n > 0 /\ Writable(x) /\ (a = b \/ ReadsFreed(b)) /\ BytesFault("useAfterFree")
         \/ n > 0 /\ ~Writable(x) /\ BytesFault("wildWrite")

BytesNext ==
  \/ \E a \in Array :
       \/ \E n \in 0..MaxLength, nul \in BOOLEAN :
            AppendBytes(a, n, nul) \/ FromBytes(a, n, nul) \/ FromDataStart(a, n, nul)
       \/ \E n \in 0..(2 * MaxLength + 1) : ReadAll(a, n)
       \/ \E n \in -1..(2 * MaxLength + 1) : Truncate(a, n) \/ TruncateNothing(a, n)
       \/ \E strings \in BOOLEAN : Reads(a, strings)
       \/ \E b \in Array : Plus(a, b) \/ AssignCopy(a, b) \/ AssignMove(a, b) \/ PlusAssign(a, b)
       \/ \E n \in 0..MaxLength : AssignChars(a, n)
       \/ Clear(a) \/ Release(a)
  \/ \E b \in released : CallerFrees(b)

-----------------------------------------------------------------------------
\* Safety, byte_array.h:47 and byte_array.cpp:53-61: memory has one owner, an array or the caller
\* of release(), who finds it not yet freed, and an array has the room for its length in what
\* it owns; memory with no owner is freed, never lost.  Not so once an assignment recurses: then a
\* moved array has shared its memory.
MemoryHasOneOwner ==
  LET Owners(b) == {a \in Array : arrays[a].m_destroy /\ arrays[a].m_data = b}
  IN  byteFault # "recursion" =>
        \A b \in DOMAIN memory :
          /\ \A a, c \in Owners(b) : a = c
          /\ Owners(b) # {} => b \notin released /\ ~memory[b].free
          /\ \A a \in Owners(b) : arrays[a].m_length <= memory[b].size
          /\ b \in released => ~memory[b].free
          /\ Owners(b) = {} /\ b \notin released => memory[b].free
====
