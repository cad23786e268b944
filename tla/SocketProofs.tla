---------------------------- MODULE SocketProofs ----------------------------
(* Theorems about Sockets, for any lengths of buffers and any bounds, and about *)
(* Servers, which MCSockets composes with it.                                   *)
EXTENDS MCSockets, SequenceLemmas, FiniteSetTheorems

-----------------------------------------------------------------------------
(* Counting the handlers that wait for the io thread.                           *)

Buffer == [id : 1..MaxWrites, len : Lengths]
Handler == [kind : {"written", "read"}, n : Nat, ec : BOOLEAN]

OfKind(h, kind) == {k \in DOMAIN h : h[k].kind = kind}
Count(h, kind) == Cardinality(OfKind(h, kind))

LEMMA CountIsNat ==
    ASSUME NEW h \in Seq(Handler), NEW kind
    PROVE  /\ IsFiniteSet(OfKind(h, kind)) /\ Count(h, kind) \in Nat
           /\ Count(h, kind) = 0 <=> OfKind(h, kind) = {}
<1>1. DOMAIN h = 1..Len(h) /\ Len(h) \in Nat
  BY LenProperties
<1>2. IsFiniteSet(1..Len(h))
  BY <1>1, FS_Interval
<1>3. OfKind(h, kind) \in SUBSET (1..Len(h))
  BY <1>1 DEF OfKind
<1>4. IsFiniteSet(OfKind(h, kind))
  BY <1>2, <1>3, FS_Subset
<1>5. QED
  BY <1>4, FS_CardinalityType, FS_EmptySet DEF Count

LEMMA CountAppend ==
    ASSUME NEW h \in Seq(Handler), NEW x \in Handler, NEW kind
    PROVE  /\ Append(h, x) \in Seq(Handler)
           /\ Count(Append(h, x), kind) = Count(h, kind) + IF x.kind = kind THEN 1 ELSE 0
<1> DEFINE a == Append(h, x)
<1>1. /\ a \in Seq(Handler) /\ Len(h) \in Nat /\ Len(a) = Len(h) + 1 /\ a[Len(h) + 1] = x
      /\ \A k \in 1..Len(h) : a[k] = h[k]
      /\ DOMAIN h = 1..Len(h) /\ DOMAIN a = 1..(Len(h) + 1)
  BY AppendProperties, LenProperties
<1> HIDE DEF a
<1>2. OfKind(a, kind) = IF x.kind = kind THEN OfKind(h, kind) \cup {Len(h) + 1} ELSE OfKind(h, kind)
  BY <1>1 DEF OfKind
<1>3. Len(h) + 1 \notin OfKind(h, kind)
  BY <1>1 DEF OfKind
<1>4. IsFiniteSet(OfKind(h, kind)) /\ Count(h, kind) \in Nat
  BY CountIsNat
<1>5. Cardinality(OfKind(h, kind) \cup {Len(h) + 1}) = Cardinality(OfKind(h, kind)) + 1
  BY <1>3, <1>4, FS_AddElement
<1>6. Count(a, kind) = Count(h, kind) + IF x.kind = kind THEN 1 ELSE 0
  BY <1>2, <1>4, <1>5 DEF Count
<1>7. QED
  BY <1>1, <1>6 DEF a

LEMMA CountTail ==
    ASSUME NEW h \in Seq(Handler), h # <<>>, NEW kind
    PROVE  /\ Tail(h) \in Seq(Handler) /\ Head(h) \in Handler
           /\ Count(Tail(h), kind) + (IF Head(h).kind = kind THEN 1 ELSE 0) <= Count(h, kind)
<1> DEFINE a == Tail(h)
<1>1. /\ a \in Seq(Handler) /\ Head(h) = h[1] /\ Head(h) \in Handler
      /\ Len(h) \in Nat \ {0} /\ Len(a) = Len(h) - 1
      /\ \A k \in 1..Len(a) : a[k] = h[k + 1]
      /\ DOMAIN h = 1..Len(h) /\ DOMAIN a = 1..(Len(h) - 1)
  <2>1. a \in Seq(Handler) /\ Head(h) \in Handler /\ Len(a) = Len(h) - 1
        /\ (\A k \in 1..Len(a) : a[k] = h[k + 1])
    BY HeadTailProperties
  <2>2. Len(h) \in Nat \ {0} /\ DOMAIN h = 1..Len(h) /\ Head(h) = h[1]
    BY EmptySeq, LenProperties
  <2>3. QED
    BY <2>1, <2>2, LenProperties
<1> HIDE DEF a
<1> DEFINE S == OfKind(h, kind) \ {1}
           f == [k \in OfKind(a, kind) |-> k + 1]
<1>2. f \in Injection(OfKind(a, kind), S)
  BY <1>1 DEF OfKind, Injection, IsInjective
<1>3. IsFiniteSet(OfKind(h, kind)) /\ Count(h, kind) \in Nat
  BY CountIsNat
<1>4. IsFiniteSet(S) /\ Cardinality(S) = Count(h, kind) - IF 1 \in OfKind(h, kind) THEN 1 ELSE 0
  BY <1>3, FS_RemoveElement DEF Count
<1>5. Cardinality(OfKind(a, kind)) <= Cardinality(S)
  <2> HIDE DEF S, f
  <2> QED BY <1>2, <1>4, FS_Injection
<1>6. 1 \in OfKind(h, kind) <=> Head(h).kind = kind
  BY <1>1 DEF OfKind
<1>7. Count(a, kind) \in Nat
  BY <1>1, CountIsNat
<1>8. Count(a, kind) + (IF Head(h).kind = kind THEN 1 ELSE 0) <= Count(h, kind)
  BY <1>3, <1>4, <1>5, <1>6, <1>7 DEF Count
<1>9. QED
  BY <1>1, <1>8 DEF a

-----------------------------------------------------------------------------
(* The type invariant of Sockets.  The receives in flight are bounded because   *)
(* each of them goes back to a call of the client.                              *)

ReceivesCounted == /\ alive => recvs + Count(handlers, "read") <= issued
                   /\ ~alive => recvs = 0 /\ sends = <<>>
QueuesType ==
  /\ m_writeBuffers \in Seq(Buffer) /\ m_readBuffers \in Seq(0..MaxIn) /\ m_recv_buf \in 0..MaxIn
  /\ m_finished \in BOOLEAN /\ m_closing \in BOOLEAN /\ m_handler \in BOOLEAN /\ alive \in BOOLEAN
  /\ sends \in Seq(Buffer) /\ recvs \in Nat /\ handlers \in Seq(Handler)
  /\ wire \in Seq((1..MaxWrites) \X Nat) /\ arrived \in 0..MaxIn /\ taken \in Seq(0..MaxIn)
  /\ written \in 0..MaxWrites /\ issued \in 0..MaxCalls /\ causes \subseteq AllCauses
  /\ fault \in {"none", "emptyFront", "emptyRead", "sendsFreedBuffer", "nullHandler", "deadSocket"}
SocketType == QueuesType /\ ReceivesCounted

LEMMA PendingIsOfKind == \A kind : Pending(kind) = OfKind(handlers, kind)
BY DEF Pending, OfKind

LEMMA SocketTypeSuffices == SocketsAssumption /\ SocketType => TypeOK
<1> SUFFICES ASSUME SocketsAssumption, SocketType PROVE TypeOK
  OBVIOUS
<1>1. Count(handlers, "read") \in Nat
  BY CountIsNat DEF SocketType, QueuesType
<1>2. recvs \in 0..MaxCalls
  BY <1>1 DEF SocketType, QueuesType, ReceivesCounted, SocketsAssumption
<1>3. QED
  BY <1>2 DEF SocketType, QueuesType, TypeOK, Buffer, Handler

LEMMA AbortedIsHandler ==
    /\ Aborted("written") \in Handler /\ Aborted("read") \in Handler
    /\ Aborted("written").kind = "written" /\ Aborted("written").ec
    /\ Aborted("read").kind = "read" /\ Aborted("read").ec
BY DEF Aborted, Handler

LEMMA Acknowledgement ==
    ASSUME NEW n \in Nat, NEW kind \in {"written", "read"}, NEW b \in BOOLEAN
    PROVE  /\ [kind |-> kind, n |-> n, ec |-> b] \in Handler
           /\ [kind |-> kind, n |-> n, ec |-> b].kind = kind
           /\ [kind |-> kind, n |-> n, ec |-> b].n = n
           /\ [kind |-> kind, n |-> n, ec |-> b].ec = b
BY DEF Handler

LEMMA FrontTypes ==
    ASSUME NEW S, NEW q \in Seq(S)
    PROVE  /\ Front0(q) \in Seq(S)
           /\ q = <<>> => Front0(q) = <<>>
           /\ q # <<>> => /\ Front0(q) = <<Head(q)>> /\ Head(q) \in S /\ Tail(q) \in Seq(S)
                          /\ Len(q) \in Nat \ {0} /\ Head(q) = q[1]
BY DEF Front0

LEMMA FrontOfShort ==
    ASSUME NEW S, NEW q \in Seq(S), ~(Len(q) > 1)
    PROVE  Front0(q) = q
<1>0. Len(q) \in Nat /\ (q # <<>> => Len(q) \in Nat \ {0})
  BY EmptySeq, LenProperties
<1>1. q # <<>> => Len(q) = 1
  <2>1. \A n \in Nat \ {0} : ~(n > 1) => n = 1
    OBVIOUS
  <2>2. QED
    BY <1>0, <2>1
<1>2. CASE q = <<>>
  BY <1>2 DEF Front0
<1>3. CASE q # <<>>
  <2>1. Head(q) = q[1] /\ Head(q) \in S
    BY <1>3
  <2>2. <<Head(q)>> \in Seq(S) /\ Len(<<Head(q)>>) = 1 /\ <<Head(q)>>[1] = q[1]
    BY <2>1
  <2>3. <<Head(q)>> = q
    BY <1>1, <1>3, <2>2, SeqEqual
  <2>4. QED
    BY <1>3, <2>3 DEF Front0
<1>4. QED
  BY <1>2, <1>3

LEMMA BytesType ==
    ASSUME NEW b \in Buffer, NEW n \in 1..b.len, SocketsAssumption
    PROVE  /\ SubSeq(Bytes(b), 1, n) \in Seq((1..MaxWrites) \X Nat)
           /\ Bytes(b) \in Seq((1..MaxWrites) \X Nat)
<1>1. b.id \in 1..MaxWrites /\ b.len \in Nat \ {0}
  BY DEF Buffer, SocketsAssumption
<1>2. Bytes(b) \in Seq((1..MaxWrites) \X Nat) /\ Len(Bytes(b)) = b.len
  <2>1. \A k \in 1..b.len : <<b.id, k>> \in (1..MaxWrites) \X Nat
    BY <1>1
  <2>2. QED
    BY <1>1, <2>1 DEF Bytes
<1> QED
  BY <1>1, <1>2

LEMMA SocketTypeInit == SocketsAssumption /\ Init => SocketType
<1> SUFFICES ASSUME SocketsAssumption, Init PROVE SocketType
  OBVIOUS
<1>1. OfKind(<<>>, "read") = {}
  BY DEF OfKind
<1>2. Count(<<>>, "read") = 0
  BY <1>1, FS_EmptySet DEF Count
<1>3. ReceivesCounted
  BY <1>2 DEF Init, ReceivesCounted
<1>4. MaxWrites \in Nat /\ MaxIn \in Nat /\ MaxCalls \in Nat
  BY DEF SocketsAssumption
<1>5. /\ m_writeBuffers \in Seq(Buffer) /\ m_readBuffers \in Seq(0..MaxIn)
      /\ sends \in Seq(Buffer) /\ handlers \in Seq(Handler)
      /\ wire \in Seq((1..MaxWrites) \X Nat) /\ taken \in Seq(0..MaxIn)
  BY EmptySeq DEF Init
<1>6. /\ m_finished \in BOOLEAN /\ m_closing \in BOOLEAN
      /\ m_handler \in BOOLEAN /\ alive \in BOOLEAN /\ causes \subseteq AllCauses
  BY Zenon DEF Init
<1>7. QueuesType
  BY <1>4, <1>5, <1>6 DEF Init, QueuesType
<1>8. QED
  BY <1>3, <1>7 DEF SocketType

\* What the client's calls do to the types.
LEMMA SocketTypeClient ==
    ASSUME SocketsAssumption, SocketType, Client
    PROVE  SocketType'
<1> USE DEF SocketType, QueuesType, writeVars, readVars, flagVars, Calls
<1>0. Count(handlers, "read") \in Nat
  BY CountIsNat
<1>1. ASSUME NEW len \in Lengths, NEW prepend \in BOOLEAN, Write(len, prepend) PROVE SocketType'
  <2> DEFINE b == [id |-> written + 1, len |-> len]
  <2>1. /\ m_writeBuffers' = IF prepend THEN <<b>> \o m_writeBuffers ELSE Append(m_writeBuffers, b)
        /\ written < MaxWrites /\ written' = written + 1
        /\ causes' \in {causes, causes \cup {"prependInFlight"}}
        /\ UNCHANGED <<sends, wire, readVars, flagVars, handlers, issued, fault>>
    BY <1>1 DEF Write
  <2>2. b \in Buffer
    BY <2>1 DEF Buffer, SocketsAssumption
  <2> HIDE DEF b
  <2>3. m_writeBuffers' \in Seq(Buffer)
    BY <2>1, <2>2
  <2>4. written' \in 0..MaxWrites /\ causes' \subseteq AllCauses
    BY <2>1 DEF AllCauses, WriteSpoilers, SocketsAssumption
  <2>5. QED
    BY <2>1, <2>3, <2>4 DEF ReceivesCounted
<1>2. CASE CallWriting
  <2>0. Front0(m_writeBuffers) \in Seq(Buffer)
    BY FrontTypes
  <2>1. sends' \in Seq(Buffer)
    BY <1>2, <2>0, ConcatProperties DEF CallWriting, StartsSending
  <2>2. causes' \subseteq AllCauses
    BY <1>2 DEF CallWriting, AllCauses, WriteSpoilers
  <2>3. ReceivesCounted'
    BY <1>0, <1>2 DEF CallWriting, ReceivesCounted
  <2>4. QED
    BY <1>2, <2>1, <2>2, <2>3 DEF CallWriting, StartsSending, SocketsAssumption
<1>3. CASE CallReading
  <2>1. causes' \subseteq AllCauses
    BY <1>3 DEF CallReading, AllCauses, ReadSpoilers
  <2>2. recvs' \in Nat /\ recvs' <= recvs + 1 /\ issued' = issued + 1 /\ issued < MaxCalls
    BY <1>3 DEF CallReading, Reading
  <2>3. ReceivesCounted'
    BY <1>0, <1>3, <2>2 DEF CallReading, ReceivesCounted
  <2>4. QED
    BY <1>3, <2>1, <2>2, <2>3 DEF CallReading, SocketsAssumption
<1>4. CASE SetClosing
  BY <1>0, <1>4 DEF SetClosing, ReceivesCounted, SocketsAssumption
<1>5. CASE SetFinished
  BY <1>0, <1>5 DEF SetFinished, ReceivesCounted, SocketsAssumption
<1>6. ASSUME NEW coalesce \in BOOLEAN, NEW flush \in BOOLEAN, PeekData(coalesce, flush)
      PROVE  SocketType'
  <2>1. Peeked(coalesce) \in Seq(0..MaxIn)
    <3>1. Front0(m_readBuffers) \in Seq(0..MaxIn)
      BY FrontTypes
    <3>2. QED
      BY <3>1 DEF Peeked
  <2>2. taken' \in Seq(0..MaxIn) /\ m_readBuffers' \in Seq(0..MaxIn)
    BY <1>6, <2>1, ConcatProperties, EmptySeq DEF PeekData, Flushed
  <2>3. causes' \subseteq AllCauses
    BY <1>6 DEF PeekData, AllCauses, ReadSpoilers
  <2>4. ReceivesCounted'
    BY <1>0, <1>6 DEF PeekData, ReceivesCounted
  <2>5. QED
    BY <1>6, <2>2, <2>3, <2>4 DEF PeekData, SocketsAssumption
<1>7. CASE PeekSorted
  <2>1. m_readBuffers' \in Seq(0..MaxIn)
    <3>1. m_readBuffers' = [i \in 1..Len(m_readBuffers) |-> m_readBuffers[(Len(m_readBuffers) - i) + 1]]
      BY <1>7 DEF PeekSorted, Reverse
    <3>2. \A i \in 1..Len(m_readBuffers) : m_readBuffers[(Len(m_readBuffers) - i) + 1] \in 0..MaxIn
      <4> TAKE i \in 1..Len(m_readBuffers)
      <4>1. (Len(m_readBuffers) - i) + 1 \in 1..Len(m_readBuffers)
        OBVIOUS
      <4>2. m_readBuffers \in Seq(0..MaxIn)
        OBVIOUS
      <4>3. QED
        BY <4>1, <4>2, ElementOfSeq
    <3>3. QED
      BY <3>1, <3>2
  <2>2. causes' \subseteq AllCauses
    BY <1>7 DEF PeekSorted, AllCauses, ReadSpoilers
  <2>3. ReceivesCounted'
    BY <1>0, <1>7 DEF PeekSorted, ReceivesCounted
  <2>4. QED
    BY <1>7, <2>1, <2>2, <2>3 DEF PeekSorted, SocketsAssumption
<1>8. CASE Destroy
  <2>1. [k \in DOMAIN sends |-> Aborted("written")] \in Seq(Handler)
    <3>1. DOMAIN sends = 1..Len(sends) /\ Len(sends) \in Nat
      BY LenProperties
    <3>2. \A k \in 1..Len(sends) : Aborted("written") \in Handler
      BY AbortedIsHandler
    <3>3. [k \in 1..Len(sends) |-> Aborted("written")] \in Seq(Handler)
      BY <3>1, <3>2, IsASeq
    <3>4. QED
      BY <3>1, <3>3
  <2>2. [k \in 1..recvs |-> Aborted("read")] \in Seq(Handler)
    BY AbortedIsHandler
  <2>3. handlers' \in Seq(Handler)
    BY <1>8, <2>1, <2>2, ConcatProperties DEF Destroy
  <2>4. causes' \subseteq AllCauses
    BY <1>8 DEF Destroy, AllCauses
  <2>5. ReceivesCounted'
    BY <1>8 DEF Destroy, ReceivesCounted
  <2>6. /\ m_writeBuffers' \in Seq(Buffer) /\ m_readBuffers' \in Seq(0..MaxIn)
        /\ sends' \in Seq(Buffer) /\ recvs' \in Nat
    BY <1>8, EmptySeq DEF Destroy
  <2>7. m_handler' \in BOOLEAN /\ alive' \in BOOLEAN
    BY <1>8, Zenon DEF Destroy
  <2>8. QED
    BY <1>8, <2>3, <2>4, <2>5, <2>6, <2>7 DEF Destroy, SocketsAssumption
<1>9. QED
  BY <1>1, <1>2, <1>3, <1>4, <1>5, <1>6, <1>7, <1>8 DEF Client

\* What an operation that completes adds to the io thread's queue.
LEMMA CompletionAdds ==
    ASSUME handlers \in Seq(Handler), NEW x \in Handler, handlers' = Append(handlers, x)
    PROVE  /\ handlers' \in Seq(Handler)
           /\ Count(handlers, "read") \in Nat /\ Count(handlers, "written") \in Nat
           /\ Count(handlers', "read")
                = Count(handlers, "read") + IF x.kind = "read" THEN 1 ELSE 0
           /\ Count(handlers', "written")
                = Count(handlers, "written") + IF x.kind = "written" THEN 1 ELSE 0
<1>1. /\ Append(handlers, x) \in Seq(Handler)
      /\ \A kind : Count(Append(handlers, x), kind)
                     = Count(handlers, kind) + IF x.kind = kind THEN 1 ELSE 0
  BY CountAppend
<1>2. Count(handlers, "read") \in Nat /\ Count(handlers, "written") \in Nat
  BY CountIsNat
<1>3. QED
  BY <1>1, <1>2

LEMMA SocketTypeNetwork ==
    ASSUME SocketsAssumption, SocketType, Network
    PROVE  SocketType'
<1> USE DEF SocketType, QueuesType, writeVars, readVars, flagVars
<1>0. Count(handlers, "read") \in Nat
  BY CountIsNat
<1>1. CASE SendCompletes
  <2>1. sends # <<>> /\ sends' = Tail(sends) /\ sends' \in Seq(Buffer) /\ Head(sends) \in Buffer
    BY <1>1, HeadTailProperties DEF SendCompletes
  <2>2. alive
    BY <2>1 DEF ReceivesCounted
  <2>3. CASE fault' = "none" /\ SendsFrom(Head(sends))
    <3>1. PICK n \in 1..Head(sends).len :
            /\ wire' = wire \o SubSeq(Bytes(Head(sends)), 1, n)
            /\ handlers' = Append(handlers, [kind |-> "written", n |-> n, ec |-> FALSE])
      BY <1>1, <2>3 DEF SendCompletes
    <3>2. n \in Nat
      BY <2>1 DEF Buffer, SocketsAssumption
    <3> DEFINE x == [kind |-> "written", n |-> n, ec |-> FALSE]
    <3>3. x \in Handler /\ x.kind = "written"
      BY <3>2, FALSE \in BOOLEAN DEF Handler
    <3>4. handlers' = Append(handlers, x)
      BY <3>1
    <3> HIDE DEF x
    <3>5. handlers' \in Seq(Handler) /\ Count(handlers', "read") = Count(handlers, "read")
      BY <3>3, <3>4, CompletionAdds
    <3>6. SubSeq(Bytes(Head(sends)), 1, n) \in Seq((1..MaxWrites) \X Nat)
      BY <2>1, BytesType
    <3>7. wire' \in Seq((1..MaxWrites) \X Nat)
      BY <3>1, <3>6, ConcatProperties
    <3>8. ReceivesCounted'
      BY <1>1, <2>2, <3>5 DEF SendCompletes, ReceivesCounted
    <3>9. QED
      BY <1>1, <2>1, <2>3, <3>5, <3>7, <3>8 DEF SendCompletes
  <2>4. CASE fault' = "sendsFreedBuffer" /\ UNCHANGED <<wire, handlers>>
    <3>1. ReceivesCounted'
      BY <1>1, <2>2, <2>4 DEF SendCompletes, ReceivesCounted
    <3>2. QED
      BY <1>1, <2>1, <2>4, <3>1 DEF SendCompletes
  <2>5. QED
    BY <1>1, <2>3, <2>4 DEF SendCompletes
<1>2. CASE ReceiveCompletes
  <2>1. alive /\ recvs > 0 /\ recvs' = recvs - 1
    BY <1>2 DEF ReceiveCompletes, ReceivesCounted
  <2>2. handlers' \in Seq(Handler) /\ Count(handlers', "read") = Count(handlers, "read") + 1
    <3> DEFINE x == [kind |-> "read", n |-> 1, ec |-> FALSE]
    <3>1. x \in Handler /\ x.kind = "read"
      BY FALSE \in BOOLEAN DEF Handler
    <3>2. handlers' = Append(handlers, x)
      BY <1>2 DEF ReceiveCompletes
    <3> HIDE DEF x
    <3>3. QED
      BY <3>1, <3>2, CompletionAdds
  <2>3. ReceivesCounted'
    BY <1>0, <1>2, <2>1, <2>2 DEF ReceiveCompletes, ReceivesCounted
  <2>4. arrived' \in 0..MaxIn /\ m_recv_buf' \in 0..MaxIn
    BY <1>2 DEF ReceiveCompletes, SocketsAssumption
  <2>5. QED
    BY <1>2, <2>1, <2>2, <2>3, <2>4 DEF ReceiveCompletes
<1>3. CASE Fails
  <2>1. causes' \subseteq AllCauses
    BY <1>3 DEF Fails, AllCauses
  <2>2. CASE /\ sends # <<>> /\ sends' = Tail(sends) /\ recvs' = recvs
             /\ handlers' = Append(handlers, Aborted("written"))
    <3>1. handlers' \in Seq(Handler) /\ Count(handlers', "read") = Count(handlers, "read")
      BY <2>2, AbortedIsHandler, CompletionAdds
    <3>2. alive /\ sends' \in Seq(Buffer)
      BY <2>2, HeadTailProperties DEF ReceivesCounted
    <3>3. ReceivesCounted'
      BY <1>3, <2>2, <3>1, <3>2 DEF Fails, ReceivesCounted
    <3>4. QED
      BY <1>3, <2>1, <2>2, <3>1, <3>2, <3>3 DEF Fails
  <2>3. CASE /\ recvs > 0 /\ recvs' = recvs - 1 /\ sends' = sends
             /\ handlers' = Append(handlers, Aborted("read"))
    <3>1. handlers' \in Seq(Handler) /\ Count(handlers', "read") = Count(handlers, "read") + 1
      BY <2>3, AbortedIsHandler, CompletionAdds
    <3>2. alive
      BY <2>3 DEF ReceivesCounted
    <3>3. ReceivesCounted'
      BY <1>0, <1>3, <2>3, <3>1, <3>2 DEF Fails, ReceivesCounted
    <3>4. QED
      BY <1>3, <2>1, <2>3, <3>1, <3>3 DEF Fails
  <2>4. QED
    BY <1>3, <2>2, <2>3 DEF Fails
<1>4. QED
  BY <1>1, <1>2, <1>3 DEF Network

\* A receive that starts and a handler that ran for it leave the count of those in flight.
LEMMA ReceiveMoves ==
    ASSUME NEW r \in Nat, NEW h \in Nat, NEW n \in Nat, r + h <= n,
           NEW r2 \in Nat, NEW h2 \in Nat, r2 <= r + 1, h2 + 1 <= h
    PROVE  r2 + h2 <= n
OBVIOUS

\* What running a handler takes from the io thread's queue.
LEMMA RunsTakesHead ==
    ASSUME handlers \in Seq(Handler), NEW kind \in {"written", "read"}, Runs(kind)
    PROVE  /\ handlers # <<>> /\ handlers' = Tail(handlers) /\ handlers' \in Seq(Handler)
           /\ Head(handlers) \in Handler /\ Head(handlers).kind = kind /\ fault = "none"
           /\ Count(handlers, "read") \in Nat /\ Count(handlers', "read") \in Nat
           /\ Count(handlers, "written") \in Nat /\ Count(handlers', "written") \in Nat
           /\ kind = "read" => /\ Count(handlers', "read") + 1 <= Count(handlers, "read")
                               /\ Count(handlers', "written") <= Count(handlers, "written")
           /\ kind = "written" => /\ Count(handlers', "written") + 1 <= Count(handlers, "written")
                                  /\ Count(handlers', "read") <= Count(handlers, "read")
<1>1. handlers # <<>> /\ handlers' = Tail(handlers) /\ Head(handlers).kind = kind /\ fault = "none"
  BY DEF Runs
<1>2. /\ handlers' \in Seq(Handler) /\ Head(handlers) \in Handler
      /\ \A j \in {"written", "read"} :
           Count(handlers', j) + (IF Head(handlers).kind = j THEN 1 ELSE 0) <= Count(handlers, j)
  BY <1>1, CountTail
<1>3. \A j \in {"written", "read"} : Count(handlers, j) \in Nat /\ Count(handlers', j) \in Nat
  BY <1>2, CountIsNat
<1>4. QED
  BY <1>1, <1>2, <1>3

LEMMA SocketTypeIoThread ==
    ASSUME SocketsAssumption, SocketType, IoThread
    PROVE  SocketType'
<1> USE DEF SocketType, QueuesType, writeVars, readVars, flagVars
<1>1. CASE RunsOnDestroyed
  <2>1. handlers' \in Seq(Handler)
    BY <1>1, RunsTakesHead DEF RunsOnDestroyed
  <2>2. ReceivesCounted'
    BY <1>1 DEF RunsOnDestroyed, ReceivesCounted
  <2>3. QED
    BY <1>1, <2>1, <2>2 DEF RunsOnDestroyed
<1>2. CASE RunsError
  <2>1. /\ handlers' \in Seq(Handler) /\ Count(handlers', "read") <= Count(handlers, "read")
        /\ Count(handlers, "read") \in Nat /\ Count(handlers', "read") \in Nat
    BY <1>2, RunsTakesHead DEF RunsError
  <2>2. ReceivesCounted'
    BY <1>2, <2>1 DEF RunsError, ReceivesCounted
  <2>3. QED
    BY <1>2, <2>1, <2>2 DEF RunsError
<1>3. CASE BytesWrittenShort
  <2>1. /\ handlers' \in Seq(Handler) /\ Count(handlers', "read") <= Count(handlers, "read")
        /\ Count(handlers, "read") \in Nat /\ Count(handlers', "read") \in Nat
    BY <1>3, RunsTakesHead DEF BytesWrittenShort
  <2>2. ReceivesCounted'
    BY <1>3, <2>1 DEF BytesWrittenShort, ReceivesCounted
  <2>3. causes' \subseteq AllCauses
    BY <1>3 DEF BytesWrittenShort, AllCauses, WriteSpoilers
  <2>4. QED
    BY <1>3, <2>1, <2>2, <2>3 DEF BytesWrittenShort
<1>4. CASE BytesWritten
  <2>1. /\ handlers' \in Seq(Handler) /\ Count(handlers', "read") <= Count(handlers, "read")
        /\ Count(handlers, "read") \in Nat /\ Count(handlers', "read") \in Nat
    BY <1>4, RunsTakesHead DEF BytesWritten
  <2>2. ReceivesCounted'
    BY <1>4, <2>1 DEF BytesWritten, ReceivesCounted
  <2>3. Popped \in Seq(Buffer)
    BY EmptySeq, HeadTailProperties DEF Popped
  <2>4. Front0(Popped) \in Seq(Buffer)
    BY <2>3, FrontTypes
  <2>5. sends' \in Seq(Buffer) /\ m_writeBuffers' \in Seq(Buffer)
    BY <1>4, <2>3, <2>4, ConcatProperties DEF BytesWritten, StartsSending
  <2>6. fault' \in {"emptyFront", "none", "nullHandler"}
    BY <1>4 DEF BytesWritten, StartsSending
  <2>7. QED
    BY <1>4, <2>1, <2>2, <2>5, <2>6 DEF BytesWritten
<1>5. CASE BytesRead
  <2>1. /\ handlers' \in Seq(Handler) /\ Count(handlers', "read") + 1 <= Count(handlers, "read")
        /\ Count(handlers, "read") \in Nat /\ Count(handlers', "read") \in Nat
    BY <1>5, RunsTakesHead DEF BytesRead
  <2>2. recvs' \in Nat /\ recvs' <= recvs + 1
    BY <1>5 DEF BytesRead, Reading
  <2>3. alive' = alive /\ alive /\ issued' = issued
    BY <1>5 DEF BytesRead
  <2>4. ReceivesCounted'
    <3>1. recvs + Count(handlers, "read") <= issued
      BY <2>3 DEF ReceivesCounted
    <3>2. recvs \in Nat /\ issued \in Nat
      OBVIOUS
    <3>3. recvs' + Count(handlers', "read") <= issued
      BY <2>1, <2>2, <3>1, <3>2, ReceiveMoves
    <3>4. QED
      BY <2>3, <3>3 DEF ReceivesCounted
  <2>5. m_readBuffers' \in Seq(0..MaxIn)
    BY <1>5, AppendProperties DEF BytesRead
  <2>6. m_finished' \in BOOLEAN
    BY <1>5, Zenon DEF BytesRead, Processed
  <2>7. QED
    BY <1>5, <2>1, <2>2, <2>4, <2>5, <2>6 DEF BytesRead
<1>6. QED
  BY <1>1, <1>2, <1>3, <1>4, <1>5 DEF IoThread

LEMMA SocketTypeStep == SocketsAssumption /\ SocketType /\ [Next]_vars => SocketType'
<1>1. SocketType /\ UNCHANGED vars => SocketType'
  BY DEF SocketType, QueuesType, ReceivesCounted, vars, writeVars, readVars, flagVars
<1>2. QED
  BY <1>1, SocketTypeClient, SocketTypeNetwork, SocketTypeIoThread DEF Next

\* Type invariant of Sockets (socket.h): the queues, the operations in flight, the handlers and
\* the flags keep their types; in particular no more receives are in flight than calls were made.
THEOREM SocketTypeCorrect == Spec => []TypeOK
<1>1. Init => SocketType
  BY SocketTypeInit, SocketsAssumption
<1>2. SocketType /\ [Next]_vars => SocketType'
  BY SocketTypeStep, SocketsAssumption
<1>3. SocketType => TypeOK
  BY SocketTypeSuffices, SocketsAssumption
<1>4. QED
  BY <1>1, <1>2, <1>3, PTL DEF Spec

-----------------------------------------------------------------------------
(* The write side: at most one write is in flight, and what is in flight is the *)
(* front of the queue, each as long as the client did not spoil it.             *)

WritesInFlight ==
  alive /\ "secondWriting" \notin causes =>
    /\ Len(sends) + Count(handlers, "written") <= 1
    /\ Len(sends) + Count(handlers, "written") > 0 => m_writeBuffers # <<>>
FrontInFlight ==
  alive /\ {"secondWriting", "prependInFlight"} \cap causes = {} =>
    (sends # <<>> => Head(sends) = Head(m_writeBuffers))
OrphansHaveCause == ~alive /\ handlers # <<>> => "destroyedInFlight" \in causes
WriteSide == WritesInFlight /\ FrontInFlight /\ OrphansHaveCause /\ FaultsHaveCauses

LEMMA InFlightCounted ==
    ASSUME SocketType
    PROVE  /\ Count(handlers, "written") \in Nat /\ Count(handlers, "read") \in Nat
           /\ Len(sends) \in Nat /\ Len(sends) = 0 <=> sends = <<>>
           /\ WriteInFlight <=> Len(sends) + Count(handlers, "written") > 0
           /\ ReadInFlight <=> recvs + Count(handlers, "read") > 0
<1>1. handlers \in Seq(Handler) /\ sends \in Seq(Buffer) /\ recvs \in Nat
  BY DEF SocketType, QueuesType
<1>2. /\ Count(handlers, "written") \in Nat /\ Count(handlers, "read") \in Nat
      /\ Count(handlers, "written") = 0 <=> Pending("written") = {}
      /\ Count(handlers, "read") = 0 <=> Pending("read") = {}
  BY <1>1, CountIsNat, PendingIsOfKind
<1>3. Len(sends) \in Nat /\ (Len(sends) = 0 <=> sends = <<>>)
  BY <1>1, EmptySeq, LenProperties
<1>4. QED
  BY <1>1, <1>2, <1>3 DEF WriteInFlight, ReadInFlight

\* A step that leaves the write queue and the sends as they are.
LEMMA WriteSideUndisturbed ==
    ASSUME SocketType, WriteSide, alive, alive',
           UNCHANGED <<m_writeBuffers, sends>>, causes \subseteq causes',
           Count(handlers', "written") \in Nat,
           Count(handlers', "written") <= Count(handlers, "written"),
           fault' \notin {"emptyFront", "sendsFreedBuffer", "deadSocket"}
    PROVE  WriteSide'
<1>1. Len(sends) \in Nat /\ Count(handlers, "written") \in Nat
  BY InFlightCounted
<1>2. WritesInFlight'
  BY <1>1 DEF WriteSide, WritesInFlight
<1>3. FrontInFlight'
  BY DEF WriteSide, FrontInFlight
<1>4. OrphansHaveCause' /\ FaultsHaveCauses'
  BY DEF OrphansHaveCause, FaultsHaveCauses
<1>5. QED
  BY <1>2, <1>3, <1>4 DEF WriteSide

LEMMA WriteSideClient ==
    ASSUME SocketType, WriteSide, Client, SocketType'
    PROVE  WriteSide'
<1>0. /\ Count(handlers, "written") \in Nat /\ Count(handlers, "read") \in Nat
      /\ Len(sends) \in Nat /\ Len(sends) = 0 <=> sends = <<>>
      /\ WriteInFlight <=> Len(sends) + Count(handlers, "written") > 0
      /\ ReadInFlight <=> recvs + Count(handlers, "read") > 0
      /\ m_writeBuffers \in Seq(Buffer) /\ sends \in Seq(Buffer) /\ handlers \in Seq(Handler)
  BY InFlightCounted DEF SocketType, QueuesType
<1>1. ASSUME NEW len \in Lengths, NEW prepend \in BOOLEAN, Write(len, prepend) PROVE WriteSide'
  <2> DEFINE b == [id |-> written + 1, len |-> len]
  <2>1. /\ m_writeBuffers' = IF prepend THEN <<b>> \o m_writeBuffers ELSE Append(m_writeBuffers, b)
        /\ causes' = IF prepend /\ WriteInFlight THEN causes \cup {"prependInFlight"} ELSE causes
        /\ alive /\ alive' = alive /\ fault' = "none"
        /\ sends' = sends /\ handlers' = handlers
    BY <1>1 DEF Write, flagVars
  <2>2. b \in Buffer
    BY <1>1 DEF Write, Buffer, SocketType, QueuesType
  <2> HIDE DEF b
  <2>3. m_writeBuffers' # <<>>
    <3>1. <<b>> \in Seq(Buffer) /\ Len(<<b>>) = 1
      BY <2>2
    <3>2. <<b>> \o m_writeBuffers # <<>> /\ Append(m_writeBuffers, b) # <<>>
      BY <1>0, <2>2, <3>1, ConcatEqualIffEmpty, AppendProperties
    <3>3. QED
      BY <2>1, <3>2
  <2>4. WritesInFlight'
    BY <1>0, <2>1, <2>3 DEF WriteSide, WritesInFlight
  <2>5. CASE prepend
    <3>1. sends # <<>> => "prependInFlight" \in causes'
      BY <2>1, <2>5 DEF WriteInFlight
    <3>2. FrontInFlight'
      BY <2>1, <3>1 DEF FrontInFlight
    <3>3. QED
      BY <2>1, <2>4, <3>2 DEF WriteSide, OrphansHaveCause, FaultsHaveCauses
  <2>6. CASE ~prepend
    <3>1. m_writeBuffers # <<>> => Head(m_writeBuffers') = Head(m_writeBuffers)
      BY <1>0, <2>1, <2>2, <2>6, HeadTailAppend
    <3>2. FrontInFlight'
      BY <1>0, <2>1, <2>6, <3>1 DEF WriteSide, WritesInFlight, FrontInFlight
    <3>3. QED
      BY <2>1, <2>4, <3>2 DEF WriteSide, OrphansHaveCause, FaultsHaveCauses
  <2>7. QED
    BY <2>5, <2>6
<1>2. CASE CallWriting
  <2>1. /\ m_writeBuffers' = m_writeBuffers /\ handlers' = handlers /\ alive' = alive /\ alive
        /\ sends' = (IF m_closing THEN sends ELSE sends \o Front0(m_writeBuffers))
        /\ fault' = IF ~m_closing /\ m_writeBuffers = <<>> THEN "emptyFront" ELSE "none"
        /\ causes \subseteq causes'
    BY <1>2 DEF CallWriting, Calls, StartsSending, flagVars
  <2>2. CASE m_closing
    BY <1>0, <2>1, <2>2, WriteSideUndisturbed
  <2>3. CASE ~m_closing /\ m_writeBuffers = <<>>
    <3>1. sends' = sends
      BY <1>0, <2>1, <2>3, FrontTypes, ConcatEmptySeq
    <3>2. "writingEmpty" \in causes' /\ fault' = "emptyFront"
      BY <1>2, <2>1, <2>3 DEF CallWriting
    <3>3. WritesInFlight' /\ FrontInFlight'
      BY <2>1, <3>1 DEF WriteSide, WritesInFlight, FrontInFlight
    <3>4. QED
      BY <2>1, <3>2, <3>3 DEF WriteSide, OrphansHaveCause, FaultsHaveCauses
  <2>4. CASE ~m_closing /\ m_writeBuffers # <<>> /\ WriteInFlight
    <3>1. "secondWriting" \in causes' /\ fault' = "none"
      BY <1>2, <2>1, <2>4 DEF CallWriting
    <3>2. QED
      BY <2>1, <3>1
      DEF WriteSide, WritesInFlight, FrontInFlight, OrphansHaveCause, FaultsHaveCauses
  <2>5. CASE ~m_closing /\ m_writeBuffers # <<>> /\ ~WriteInFlight
    <3>1. sends = <<>> /\ Count(handlers, "written") = 0
      BY <1>0, <2>5
    <3>2. sends' = <<Head(m_writeBuffers)>> /\ fault' = "none"
      BY <1>0, <2>1, <2>5, <3>1, FrontTypes, ConcatEmptySeq
    <3>3. \A x : Len(<<x>>) = 1 /\ Head(<<x>>) = x
      OBVIOUS
    <3>4. Len(sends') = 1 /\ Head(sends') = Head(m_writeBuffers')
      BY <2>1, <3>2, <3>3
    <3>5. Count(handlers', "written") = 0
      BY <2>1, <3>1
    <3>6. WritesInFlight' /\ FrontInFlight'
      BY <2>1, <2>5, <3>4, <3>5 DEF WritesInFlight, FrontInFlight
    <3>7. QED
      BY <2>1, <3>2, <3>6 DEF WriteSide, OrphansHaveCause, FaultsHaveCauses
  <2>6. QED
    BY <2>2, <2>3, <2>4, <2>5
<1>3. CASE \/ CallReading \/ SetClosing \/ SetFinished \/ PeekSorted
           \/ \E coalesce, flush \in BOOLEAN : PeekData(coalesce, flush)
  <2>1. /\ alive /\ alive' = alive /\ handlers' = handlers
        /\ UNCHANGED <<m_writeBuffers, sends>> /\ causes \subseteq causes'
        /\ fault' \in {"none", "emptyRead"}
    BY <1>3 DEF CallReading, SetClosing, SetFinished, PeekSorted, PeekData, Calls, writeVars, flagVars
  <2>2. QED
    BY <1>0, <2>1, WriteSideUndisturbed
<1>4. CASE Destroy
  <2>1. ~alive' /\ fault' = "none" /\ causes \subseteq causes'
    BY <1>4 DEF Destroy, Calls
  <2>2. ASSUME handlers' # <<>>, ~(WriteInFlight \/ ReadInFlight) PROVE FALSE
    <3>0. recvs \in Nat
      BY DEF SocketType, QueuesType
    <3>1. sends = <<>> /\ recvs = 0 /\ Pending("written") = {} /\ Pending("read") = {}
      BY <2>2, <3>0 DEF WriteInFlight, ReadInFlight
    <3>2. \A k \in DOMAIN handlers : handlers[k].kind \in {"written", "read"}
      <4>1. handlers \in [1..Len(handlers) -> Handler]
        BY <1>0, LenProperties
      <4>2. QED
        BY <4>1 DEF Handler
    <3>3. DOMAIN handlers = {}
      BY <3>1, <3>2 DEF Pending
    <3>4. handlers = <<>>
      BY <1>0, <3>3
    <3>5. [k \in DOMAIN sends |-> Aborted("written")] = <<>>
      BY <3>1
    <3>6. [k \in 1..recvs |-> Aborted("read")] = <<>>
      BY <3>1
    <3>7. handlers' = <<>> \o <<>> \o <<>>
      BY <1>4, <3>4, <3>5, <3>6 DEF Destroy
    <3>8. QED
      BY <2>2, <3>7
  <2>3. OrphansHaveCause'
    BY <1>4, <2>2 DEF Destroy, OrphansHaveCause
  <2>4. QED
    BY <2>1, <2>3 DEF WriteSide, WritesInFlight, FrontInFlight, FaultsHaveCauses
<1>5. QED
  BY <1>1, <1>2, <1>3, <1>4 DEF Client

LEMMA WriteSideNetwork ==
    ASSUME SocketType, WriteSide, Network
    PROVE  WriteSide'
<1>0. /\ Count(handlers, "written") \in Nat /\ Len(sends) \in Nat
      /\ Len(sends) = 0 <=> sends = <<>>
      /\ m_writeBuffers \in Seq(Buffer) /\ sends \in Seq(Buffer) /\ handlers \in Seq(Handler)
  BY InFlightCounted DEF SocketType, QueuesType
<1>1. sends # <<>> => alive /\ Len(Tail(sends)) = Len(sends) - 1
  BY <1>0, HeadTailProperties DEF SocketType, ReceivesCounted
<1>2. CASE SendCompletes
  <2>1. /\ sends # <<>> /\ sends' = Tail(sends) /\ alive /\ alive' = alive
        /\ m_writeBuffers' = m_writeBuffers /\ causes' = causes
    BY <1>1, <1>2 DEF SendCompletes, flagVars
  <2>2. CASE fault' = "none" /\ SendsFrom(Head(sends))
    <3>1. PICK n \in 1..Head(sends).len :
            handlers' = Append(handlers, [kind |-> "written", n |-> n, ec |-> FALSE])
      BY <1>2, <2>2 DEF SendCompletes
    <3> DEFINE x == [kind |-> "written", n |-> n, ec |-> FALSE]
    <3>2. x \in Handler /\ x.kind = "written" /\ handlers' = Append(handlers, x)
      BY <3>1, FALSE \in BOOLEAN DEF Handler
    <3> HIDE DEF x
    <3>3. Count(handlers', "written") = Count(handlers, "written") + 1
      BY <1>0, <3>2, CompletionAdds
    <3>4. WritesInFlight'
      BY <1>0, <1>1, <2>1, <3>3 DEF WriteSide, WritesInFlight
    <3>5. FrontInFlight'
      BY <1>0, <1>1, <2>1 DEF WriteSide, FrontInFlight, WritesInFlight
    <3>6. QED
      BY <2>1, <2>2, <3>4, <3>5 DEF WriteSide, OrphansHaveCause, FaultsHaveCauses
  <2>3. CASE ~SendsFrom(Head(sends)) /\ fault' = "sendsFreedBuffer" /\ UNCHANGED handlers
    <3>1. m_writeBuffers # <<>> => SendsFrom(Head(m_writeBuffers))
      BY <1>0 DEF SendsFrom
    <3>2. causes \cap {"secondWriting", "prependInFlight"} # {}
      BY <1>0, <2>1, <2>3, <3>1 DEF WriteSide, WritesInFlight, FrontInFlight
    <3>3. WritesInFlight'
      BY <1>0, <1>1, <2>1, <2>3 DEF WriteSide, WritesInFlight
    <3>4. FrontInFlight'
      BY <2>1, <3>2 DEF FrontInFlight
    <3>5. QED
      BY <2>1, <2>3, <3>2, <3>3, <3>4 DEF WriteSide, OrphansHaveCause, FaultsHaveCauses
  <2>4. QED
    BY <1>2, <2>2, <2>3 DEF SendCompletes
<1>3. CASE ReceiveCompletes
  <2>1. /\ alive /\ alive' = alive /\ UNCHANGED <<m_writeBuffers, sends, causes>>
        /\ fault' = "none"
    BY <1>3 DEF ReceiveCompletes, SocketType, ReceivesCounted, flagVars, writeVars
  <2> DEFINE x == [kind |-> "read", n |-> 1, ec |-> FALSE]
  <2>2. x \in Handler /\ x.kind = "read" /\ handlers' = Append(handlers, x)
    BY <1>3, FALSE \in BOOLEAN DEF Handler, ReceiveCompletes
  <2> HIDE DEF x
  <2>3. Count(handlers', "written") = Count(handlers, "written")
    BY <1>0, <2>2, CompletionAdds
  <2>4. QED
    BY <1>0, <2>1, <2>3, WriteSideUndisturbed
<1>4. CASE Fails
  <2>1. /\ m_writeBuffers' = m_writeBuffers /\ alive' = alive /\ causes \subseteq causes'
        /\ fault' = "none"
    BY <1>4 DEF Fails, flagVars
  <2>2. CASE sends # <<>> /\ sends' = Tail(sends) /\ handlers' = Append(handlers, Aborted("written"))
    <3>1. Count(handlers', "written") = Count(handlers, "written") + 1
      BY <1>0, <2>2, AbortedIsHandler, CompletionAdds
    <3>2. WritesInFlight'
      BY <1>0, <1>1, <2>1, <2>2, <3>1 DEF WriteSide, WritesInFlight
    <3>3. FrontInFlight'
      BY <1>0, <1>1, <2>1, <2>2 DEF WriteSide, FrontInFlight, WritesInFlight
    <3>4. QED
      BY <1>1, <2>1, <2>2, <3>2, <3>3 DEF WriteSide, OrphansHaveCause, FaultsHaveCauses
  <2>3. CASE recvs > 0 /\ sends' = sends /\ handlers' = Append(handlers, Aborted("read"))
    <3>1. Count(handlers', "written") = Count(handlers, "written")
      BY <1>0, <2>3, AbortedIsHandler, CompletionAdds
    <3>2. alive
      BY <2>3 DEF SocketType, ReceivesCounted
    <3>3. QED
      BY <1>0, <2>1, <2>3, <3>1, <3>2, WriteSideUndisturbed
  <2>4. QED
    BY <1>4, <2>2, <2>3 DEF Fails
<1>5. QED
  BY <1>2, <1>3, <1>4 DEF Network

LEMMA WriteSideIoThread ==
    ASSUME SocketType, WriteSide, IoThread
    PROVE  WriteSide'
<1>0. /\ Count(handlers, "written") \in Nat /\ Len(sends) \in Nat
      /\ Len(sends) = 0 <=> sends = <<>>
      /\ m_writeBuffers \in Seq(Buffer) /\ sends \in Seq(Buffer) /\ handlers \in Seq(Handler)
  BY InFlightCounted DEF SocketType, QueuesType
<1>1. CASE RunsOnDestroyed
  <2>1. /\ handlers # <<>> /\ ~alive /\ fault' = "deadSocket"
        /\ UNCHANGED <<alive, causes>>
    BY <1>0, <1>1, RunsTakesHead DEF RunsOnDestroyed, flagVars
  <2>2. "destroyedInFlight" \in causes'
    BY <2>1 DEF WriteSide, OrphansHaveCause
  <2>3. QED
    BY <2>1, <2>2
    DEF WriteSide, WritesInFlight, FrontInFlight, OrphansHaveCause, FaultsHaveCauses
<1>2. CASE RunsError \/ BytesWrittenShort \/ BytesRead
  <2>1. /\ alive /\ alive' = alive /\ UNCHANGED <<m_writeBuffers, sends>>
        /\ causes \subseteq causes' /\ fault' = fault
    BY <1>2 DEF RunsError, BytesWrittenShort, BytesRead, flagVars, writeVars
  <2>2. PICK kind \in {"written", "read"} : Runs(kind)
    BY <1>2 DEF RunsError, BytesWrittenShort, BytesRead
  <2>3. /\ Count(handlers', "written") \in Nat
        /\ Count(handlers', "written") <= Count(handlers, "written") /\ fault = "none"
    BY <1>0, <2>2, RunsTakesHead
  <2>4. QED
    BY <2>1, <2>3, WriteSideUndisturbed
<1>3. CASE BytesWritten
  <2>1. /\ alive /\ alive' = alive /\ causes' = causes /\ m_writeBuffers' = Popped
        /\ sends' = IF GoesOn /\ ~m_closing THEN sends \o Front0(Popped) ELSE sends
        /\ fault' = "emptyFront" <=> GoesOn /\ ~m_closing /\ Popped = <<>>
        /\ fault' \in {"none", "emptyFront", "nullHandler"}
    BY <1>3 DEF BytesWritten, StartsSending, flagVars
  <2>2. /\ Count(handlers', "written") \in Nat
        /\ Count(handlers', "written") + 1 <= Count(handlers, "written")
    BY <1>0, <1>3, RunsTakesHead DEF BytesWritten
  <2>3. CASE "secondWriting" \in causes
    BY <2>1, <2>3 DEF WriteSide, WritesInFlight, FrontInFlight, OrphansHaveCause, FaultsHaveCauses
  <2>4. CASE "secondWriting" \notin causes
    <3>1. sends = <<>> /\ Count(handlers', "written") = 0 /\ m_writeBuffers # <<>>
      BY <1>0, <2>1, <2>2, <2>4 DEF WriteSide, WritesInFlight
    <3>2. Popped = Tail(m_writeBuffers) /\ Popped \in Seq(Buffer)
      BY <1>0, <3>1, HeadTailProperties DEF Popped
    <3>3. GoesOn => Popped # <<>>
      BY <3>1 DEF GoesOn
    <3>4. \A x : Len(<<x>>) = 1 /\ Head(<<x>>) = x
      OBVIOUS
    <3>5. GoesOn /\ ~m_closing =>
            sends' = <<Head(m_writeBuffers')>> /\ Len(sends') = 1 /\ m_writeBuffers' # <<>>
      <4>1. SUFFICES ASSUME GoesOn, ~m_closing
                     PROVE  sends' = <<Head(m_writeBuffers')>> /\ Len(sends') = 1
                            /\ m_writeBuffers' # <<>>
        OBVIOUS
      <4>2. Front0(Popped) = <<Head(Popped)>> /\ Front0(Popped) \in Seq(Buffer)
        BY <3>2, <3>3, <4>1, FrontTypes
      <4>3. sends' = <<Head(Popped)>>
        BY <2>1, <3>1, <4>1, <4>2, ConcatEmptySeq
      <4>4. QED
        BY <2>1, <3>3, <3>4, <4>1, <4>3
    <3>6. ~(GoesOn /\ ~m_closing) => sends' = <<>> /\ Len(sends') = 0
      BY <1>0, <2>1, <3>1
    <3>7. WritesInFlight'
      <4>1. CASE GoesOn /\ ~m_closing
        <5>1. Len(sends') = 1 /\ m_writeBuffers' # <<>> /\ Count(handlers', "written") = 0
          BY <3>1, <3>5, <4>1
        <5>2. QED
          BY <5>1 DEF WritesInFlight
      <4>2. CASE ~(GoesOn /\ ~m_closing)
        <5>1. Len(sends') = 0 /\ Count(handlers', "written") = 0
          BY <3>1, <3>6, <4>2
        <5>2. QED
          BY <5>1 DEF WritesInFlight
      <4>3. QED
        BY <4>1, <4>2
    <3>8. FrontInFlight'
      BY <3>4, <3>5, <3>6 DEF FrontInFlight
    <3>9. QED
      BY <2>1, <3>3, <3>7, <3>8 DEF WriteSide, OrphansHaveCause, FaultsHaveCauses
  <2>5. QED
    BY <2>3, <2>4
<1>4. QED
  BY <1>1, <1>2, <1>3 DEF IoThread

LEMMA WriteSideStep ==
    SocketsAssumption /\ SocketType /\ WriteSide /\ [Next]_vars => WriteSide'
<1>1. WriteSide /\ UNCHANGED vars => WriteSide'
  BY DEF WriteSide, WritesInFlight, FrontInFlight, OrphansHaveCause, FaultsHaveCauses,
         vars, writeVars, readVars, flagVars
<1>2. QED
  BY <1>1, SocketTypeStep, WriteSideClient, WriteSideNetwork, WriteSideIoThread DEF Next

LEMMA WriteSideInit == SocketsAssumption /\ Init => WriteSide
<1> SUFFICES ASSUME SocketsAssumption, Init PROVE WriteSide
  OBVIOUS
<1>1. OfKind(<<>>, "written") = {}
  BY DEF OfKind
<1>2. Count(handlers, "written") = 0 /\ Len(sends) = 0 /\ sends = <<>> /\ handlers = <<>>
  BY <1>1, FS_EmptySet DEF Count, Init
<1>3. fault = "none"
  BY DEF Init
<1>4. QED
  BY <1>2, <1>3 DEF WriteSide, WritesInFlight, FrontInFlight, OrphansHaveCause, FaultsHaveCauses

LEMMA SentIsFrontFollows == SocketType /\ WriteSide => SentIsFront
<1> SUFFICES ASSUME SocketType, WriteSide, alive,
                    causes \cap {"prependInFlight", "secondWriting"} = {}
             PROVE  /\ Len(sends) + Cardinality(Pending("written")) <= 1
                    /\ sends # <<>> => /\ m_writeBuffers # <<>>
                                       /\ Head(sends) = Head(m_writeBuffers)
  BY DEF SentIsFront
<1>1. "secondWriting" \notin causes /\ "prependInFlight" \notin causes
  OBVIOUS
<1>2. Len(sends) \in Nat /\ Count(handlers, "written") \in Nat /\ (Len(sends) = 0 <=> sends = <<>>)
  BY InFlightCounted
<1>3. Cardinality(Pending("written")) = Count(handlers, "written")
  BY PendingIsOfKind DEF Count
<1>4. QED
  BY <1>1, <1>2, <1>3 DEF WriteSide, WritesInFlight, FrontInFlight

LEMMA WriteSideAlways == Spec => [](SocketType /\ WriteSide)
<1>1. Init => SocketType /\ WriteSide
  BY SocketTypeInit, WriteSideInit, SocketsAssumption
<1>2. SocketType /\ WriteSide /\ [Next]_vars => SocketType' /\ WriteSide'
  BY SocketTypeStep, WriteSideStep, SocketsAssumption
<1>3. QED
  BY <1>1, <1>2, PTL DEF Spec

\* Safety, socket.h:340-350: one write at a time is in flight, and what is in flight is the front
\* of the queue, unless writing() was called with a write in flight or a buffer was prepended to
\* one: bytesWritten takes off the buffer that was sent.
THEOREM FrontIsSent == Spec => []SentIsFront
BY WriteSideAlways, SentIsFrontFollows, PTL

\* Safety, socket.h:317, :327 and :332: the front of an empty queue is read, a freed buffer is sent
\* and a handler runs on a destroyed socket only after what the client did to cause it.
THEOREM SocketFaultsHaveCauses == Spec => []FaultsHaveCauses
<1>1. WriteSide => FaultsHaveCauses
  BY DEF WriteSide
<1>2. QED
  BY <1>1, WriteSideAlways, PTL

-----------------------------------------------------------------------------
(* The read side: at most one receive is in flight, so that m_recv_buf holds at *)
(* most one chunk that is not in the queue.                                     *)

ReadsInFlight ==
  alive /\ "secondReading" \notin causes => recvs + Count(handlers, "read") <= 1
ReadSide == ReadsInFlight /\ InputKept

\* A chunk that is in m_recv_buf and for which bytesRead has yet to run.
Unread(h) == \E k \in OfKind(h, "read") : ~h[k].ec
AtHand == IF Unread(handlers) THEN <<m_recv_buf>> ELSE <<>>

\* InputKept by its parts, in a state and in the next one.
ChunksInOrder == taken \o m_readBuffers \o AtHand = [k \in 1..arrived |-> k]

LEMMA InputKeptByParts ==
    /\ InputKept <=> (alive /\ causes \cap ReadSpoilers = {} => ChunksInOrder)
    /\ InputKept' <=> (alive' /\ causes' \cap ReadSpoilers = {} => ChunksInOrder')
BY DEF InputKept, ChunksInOrder, AtHand, Unread, Pending, OfKind

LEMMA UnreadAppend ==
    ASSUME NEW h \in Seq(Handler), NEW x \in Handler
    PROVE  Unread(Append(h, x)) <=> Unread(h) \/ (x.kind = "read" /\ ~x.ec)
<1> DEFINE a == Append(h, x)
<1>1. /\ Len(h) \in Nat /\ a[Len(h) + 1] = x /\ (\A k \in 1..Len(h) : a[k] = h[k])
      /\ DOMAIN h = 1..Len(h) /\ DOMAIN a = 1..(Len(h) + 1)
  BY AppendProperties, LenProperties
<1> HIDE DEF a
<1>2. Unread(a) <=> Unread(h) \/ (x.kind = "read" /\ ~x.ec)
  BY <1>1 DEF Unread, OfKind
<1>3. QED
  BY <1>2 DEF a

LEMMA UnreadTail ==
    ASSUME NEW h \in Seq(Handler), h # <<>>
    PROVE  Unread(h) <=> Unread(Tail(h)) \/ (Head(h).kind = "read" /\ ~Head(h).ec)
<1> DEFINE a == Tail(h)
<1>1. /\ Head(h) = h[1] /\ Len(h) \in Nat \ {0} /\ (\A k \in 1..(Len(h) - 1) : a[k] = h[k + 1])
      /\ DOMAIN h = 1..Len(h) /\ DOMAIN a = 1..(Len(h) - 1)
  BY HeadTailProperties, LenProperties, EmptySeq
<1> HIDE DEF a
<1>2. Unread(a) => Unread(h)
  BY <1>1 DEF Unread, OfKind
<1>3. Head(h).kind = "read" /\ ~Head(h).ec => Unread(h)
  BY <1>1 DEF Unread, OfKind
<1>4. Unread(h) => Unread(a) \/ (Head(h).kind = "read" /\ ~Head(h).ec)
  <2>1. SUFFICES ASSUME NEW k \in DOMAIN h, h[k].kind = "read", ~h[k].ec, k # 1
                 PROVE  Unread(a)
    BY <1>1 DEF Unread, OfKind
  <2>2. k - 1 \in DOMAIN a /\ a[k - 1] = h[k]
    BY <1>1, <2>1
  <2>3. QED
    BY <2>1, <2>2 DEF Unread, OfKind
<1>5. QED
  BY <1>2, <1>3, <1>4 DEF a

LEMMA NothingUnread ==
    ASSUME NEW h \in Seq(Handler), Count(h, "read") = 0
    PROVE  ~Unread(h)
BY CountIsNat DEF Unread

\* A step that leaves the read queue, m_recv_buf and the unread chunk as they are.
LEMMA ReadSideUndisturbed ==
    ASSUME SocketType, ReadSide, alive, alive', causes \subseteq causes',
           UNCHANGED <<m_readBuffers, m_recv_buf, taken, arrived>>,
           Unread(handlers') <=> Unread(handlers),
           recvs' \in Nat, Count(handlers', "read") \in Nat,
           "secondReading" \notin causes' =>
             \/ recvs' + Count(handlers', "read") <= recvs + Count(handlers, "read")
             \/ recvs' + Count(handlers', "read") <= 1
    PROVE  ReadSide'
<1>1. recvs \in Nat /\ Count(handlers, "read") \in Nat
  BY InFlightCounted DEF SocketType, QueuesType
<1>2. ReadsInFlight'
  BY <1>1 DEF ReadSide, ReadsInFlight
<1>3. AtHand' = AtHand
  BY DEF AtHand
<1>4. ChunksInOrder => ChunksInOrder'
  BY <1>3 DEF ChunksInOrder
<1>5. InputKept'
  BY <1>4, InputKeptByParts DEF ReadSide
<1>6. QED
  BY <1>2, <1>5 DEF ReadSide

LEMMA ReadSideClient ==
    ASSUME SocketType, ReadSide, Client
    PROVE  ReadSide'
<1>0. /\ Count(handlers, "read") \in Nat /\ recvs \in Nat
      /\ ReadInFlight <=> recvs + Count(handlers, "read") > 0
      /\ m_readBuffers \in Seq(0..MaxIn) /\ taken \in Seq(0..MaxIn) /\ m_recv_buf \in 0..MaxIn
  BY InFlightCounted DEF SocketType, QueuesType
<1>1. CASE CallWriting \/ SetClosing \/ SetFinished
           \/ \E len \in Lengths, prepend \in BOOLEAN : Write(len, prepend)
  <2>1. /\ alive /\ alive' = alive /\ handlers' = handlers /\ recvs' = recvs
        /\ UNCHANGED <<m_readBuffers, m_recv_buf, taken, arrived>> /\ causes \subseteq causes'
    BY <1>1 DEF CallWriting, SetClosing, SetFinished, Write, Calls, readVars, flagVars
  <2>2. QED
    BY <1>0, <2>1, ReadSideUndisturbed
<1>2. CASE CallReading
  <2>1. /\ alive /\ alive' = alive /\ handlers' = handlers
        /\ UNCHANGED <<m_readBuffers, m_recv_buf, taken, arrived>> /\ causes \subseteq causes'
        /\ recvs' = IF m_closing THEN recvs ELSE recvs + 1
        /\ ~m_closing /\ ReadInFlight => "secondReading" \in causes'
    BY <1>2 DEF CallReading, Calls, Reading, flagVars
  <2>2. "secondReading" \notin causes' => \/ recvs' + Count(handlers', "read") <= 1
                                          \/ recvs' = recvs
    BY <1>0, <2>1
  <2>3. QED
    BY <1>0, <2>1, <2>2, ReadSideUndisturbed
<1>3. ASSUME NEW coalesce \in BOOLEAN, NEW flush \in BOOLEAN, PeekData(coalesce, flush)
      PROVE  ReadSide'
  <2>1. /\ alive /\ alive' = alive /\ handlers' = handlers /\ recvs' = recvs
        /\ UNCHANGED <<m_recv_buf, arrived>> /\ causes \subseteq causes'
        /\ taken' = IF flush THEN taken \o Peeked(coalesce) ELSE taken
        /\ m_readBuffers' = IF flush THEN <<>> ELSE m_readBuffers
        /\ flush /\ ~coalesce /\ Len(m_readBuffers) > 1 => "flushOnly" \in causes'
    BY <1>3 DEF PeekData, Calls, Flushed, flagVars
  <2>2. CASE ~flush
    <3>1. taken' = taken /\ m_readBuffers' = m_readBuffers
      BY <2>1, <2>2
    <3>2. QED
      BY <1>0, <2>1, <3>1, ReadSideUndisturbed
  <2>3. CASE flush
    <3>1. ReadsInFlight'
      BY <2>1 DEF ReadSide, ReadsInFlight
    <3>2. SUFFICES ASSUME causes' \cap ReadSpoilers = {}
                   PROVE  ChunksInOrder'
      BY <3>1, InputKeptByParts DEF ReadSide
    <3>3. Peeked(coalesce) = m_readBuffers
      <4>0. "flushOnly" \notin causes' /\ Len(m_readBuffers) \in Nat
        BY <1>0, <3>2 DEF ReadSpoilers
      <4>1. coalesce \/ ~(Len(m_readBuffers) > 1)
        BY <2>1, <2>3, <4>0
      <4>2. ~(Len(m_readBuffers) > 1) => Front0(m_readBuffers) = m_readBuffers
        BY <1>0, FrontOfShort
      <4>3. QED
        BY <4>1, <4>2 DEF Peeked
    <3>4. taken' \o m_readBuffers' = taken \o m_readBuffers
      <4>1. taken' = taken \o m_readBuffers /\ m_readBuffers' = <<>>
        BY <2>1, <2>3, <3>3
      <4>2. taken \o m_readBuffers \in Seq(0..MaxIn)
        BY <1>0, ConcatProperties
      <4>3. QED
        BY <4>1, <4>2, ConcatEmptySeq
    <3>5. AtHand' = AtHand
      BY <2>1 DEF AtHand
    <3>6. ChunksInOrder
      BY <2>1, <3>2, InputKeptByParts DEF ReadSide
    <3>7. QED
      BY <2>1, <3>4, <3>5, <3>6 DEF ChunksInOrder
  <2>4. QED
    BY <2>2, <2>3
<1>4. CASE PeekSorted
  <2>1. "sorted" \in causes' /\ alive' = alive /\ recvs' = recvs /\ handlers' = handlers
        /\ causes \subseteq causes'
    BY <1>4 DEF PeekSorted, flagVars
  <2>2. QED
    BY <2>1 DEF ReadSide, ReadsInFlight, InputKept, ReadSpoilers
<1>5. CASE Destroy
  BY <1>5 DEF Destroy, ReadSide, ReadsInFlight, InputKept
<1>6. QED
  BY <1>1, <1>2, <1>3, <1>4, <1>5 DEF Client

LEMMA ReadSideNetwork ==
    ASSUME SocketType, ReadSide, Network
    PROVE  ReadSide'
<1>0. /\ Count(handlers, "read") \in Nat /\ recvs \in Nat /\ arrived \in Nat
      /\ handlers \in Seq(Handler) /\ (sends # <<>> \/ recvs > 0 => alive)
      /\ m_readBuffers \in Seq(0..MaxIn) /\ taken \in Seq(0..MaxIn) /\ m_recv_buf \in 0..MaxIn
  BY InFlightCounted DEF SocketType, QueuesType, ReceivesCounted
<1>1. CASE SendCompletes
  <2>1. /\ alive /\ alive' = alive /\ recvs' = recvs /\ causes' = causes
        /\ UNCHANGED <<m_readBuffers, m_recv_buf, taken, arrived>>
    BY <1>0, <1>1 DEF SendCompletes, readVars, flagVars
  <2>2. Count(handlers', "read") = Count(handlers, "read") /\ (Unread(handlers') <=> Unread(handlers))
    <3>1. CASE handlers' = handlers
      BY <3>1
    <3>2. CASE \E n \in 1..Head(sends).len :
                 handlers' = Append(handlers, [kind |-> "written", n |-> n, ec |-> FALSE])
      <4>1. PICK n \in 1..Head(sends).len :
                 handlers' = Append(handlers, [kind |-> "written", n |-> n, ec |-> FALSE])
        BY <3>2
      <4>2. n \in Nat
        BY <1>1, HeadTailProperties
        DEF SendCompletes, SocketType, QueuesType, Buffer
      <4> DEFINE x == [kind |-> "written", n |-> n, ec |-> FALSE]
      <4>3. x \in Handler /\ x.kind = "written" /\ handlers' = Append(handlers, x)
        BY <4>1, <4>2, FALSE \in BOOLEAN DEF Handler
      <4> HIDE DEF x
      <4>4. QED
        BY <1>0, <4>3, CompletionAdds, UnreadAppend
    <3>3. QED
      BY <1>1, <3>1, <3>2 DEF SendCompletes
  <2>3. QED
    BY <1>0, <2>1, <2>2, ReadSideUndisturbed
<1>2. CASE ReceiveCompletes
  <2>1. /\ alive /\ alive' = alive /\ recvs > 0 /\ recvs' = recvs - 1 /\ causes' = causes
        /\ UNCHANGED <<m_readBuffers, taken>> /\ arrived' = arrived + 1 /\ m_recv_buf' = arrived + 1
    BY <1>0, <1>2 DEF ReceiveCompletes, flagVars
  <2> DEFINE x == [kind |-> "read", n |-> 1, ec |-> FALSE]
  <2>2. x \in Handler /\ x.kind = "read" /\ ~x.ec /\ handlers' = Append(handlers, x)
    BY <1>2, FALSE \in BOOLEAN DEF Handler, ReceiveCompletes
  <2> HIDE DEF x
  <2>3. Count(handlers', "read") = Count(handlers, "read") + 1 /\ Unread(handlers')
    BY <1>0, <2>2, CompletionAdds, UnreadAppend
  <2>4. ReadsInFlight'
    BY <1>0, <2>1, <2>3 DEF ReadSide, ReadsInFlight
  <2>5. SUFFICES ASSUME causes \cap ReadSpoilers = {}
                 PROVE  ChunksInOrder'
    BY <2>1, <2>4, InputKeptByParts DEF ReadSide
  <2>6. Count(handlers, "read") = 0
    BY <1>0, <2>1, <2>5 DEF ReadSide, ReadsInFlight, ReadSpoilers
  <2>7. AtHand = <<>> /\ AtHand' = <<arrived + 1>>
    BY <1>0, <2>1, <2>3, <2>6, NothingUnread DEF AtHand
  <2>8. taken \o m_readBuffers = [k \in 1..arrived |-> k]
    <3>0. ChunksInOrder
      BY <2>1, <2>5, InputKeptByParts DEF ReadSide
    <3>1. taken \o m_readBuffers \o <<>> = [k \in 1..arrived |-> k]
      BY <2>7, <3>0 DEF ChunksInOrder
    <3>2. taken \o m_readBuffers \in Seq(0..MaxIn)
      BY <1>0, ConcatProperties
    <3>3. QED
      BY <3>1, <3>2, ConcatEmptySeq
  <2>9. [k \in 1..arrived |-> k] \o <<arrived + 1>> = [k \in 1..(arrived + 1) |-> k]
    BY <1>0
  <2>10. QED
    BY <2>1, <2>7, <2>8, <2>9 DEF ChunksInOrder
<1>3. CASE Fails
  <2>1. /\ alive' = alive /\ causes \subseteq causes'
        /\ UNCHANGED <<m_readBuffers, m_recv_buf, taken, arrived>>
    BY <1>3 DEF Fails, flagVars
  <2>2. CASE sends # <<>> /\ recvs' = recvs /\ handlers' = Append(handlers, Aborted("written"))
    <3>1. Count(handlers', "read") = Count(handlers, "read") /\ (Unread(handlers') <=> Unread(handlers))
      BY <1>0, <2>2, AbortedIsHandler, CompletionAdds, UnreadAppend
    <3>2. QED
      BY <1>0, <2>1, <2>2, <3>1, ReadSideUndisturbed
  <2>3. CASE recvs > 0 /\ recvs' = recvs - 1 /\ handlers' = Append(handlers, Aborted("read"))
    <3>1. /\ Count(handlers', "read") = Count(handlers, "read") + 1
          /\ Unread(handlers') <=> Unread(handlers)
      BY <1>0, <2>3, AbortedIsHandler, CompletionAdds, UnreadAppend
    <3>2. recvs' \in Nat /\ recvs' + Count(handlers', "read") = recvs + Count(handlers, "read")
      BY <1>0, <2>3, <3>1
    <3>3. QED
      BY <1>0, <2>1, <2>3, <3>1, <3>2, ReadSideUndisturbed
  <2>4. QED
    BY <1>3, <2>2, <2>3 DEF Fails
<1>4. QED
  BY <1>1, <1>2, <1>3 DEF Network

LEMMA ReadSideIoThread ==
    ASSUME SocketType, ReadSide, IoThread
    PROVE  ReadSide'
<1>0. /\ Count(handlers, "read") \in Nat /\ recvs \in Nat /\ handlers \in Seq(Handler)
      /\ m_readBuffers \in Seq(0..MaxIn) /\ taken \in Seq(0..MaxIn) /\ m_recv_buf \in 0..MaxIn
  BY InFlightCounted DEF SocketType, QueuesType
<1>1. CASE RunsOnDestroyed
  BY <1>1 DEF RunsOnDestroyed, flagVars, ReadSide, ReadsInFlight, InputKept
<1>2. CASE RunsError \/ BytesWrittenShort \/ BytesWritten
  <2>1. /\ alive /\ alive' = alive /\ recvs' = recvs /\ causes \subseteq causes'
        /\ UNCHANGED <<m_readBuffers, m_recv_buf, taken, arrived>>
    BY <1>2 DEF RunsError, BytesWrittenShort, BytesWritten, flagVars, readVars
  <2>2. PICK kind \in {"written", "read"} : Runs(kind) /\ (kind = "written" \/ Head(handlers).ec)
    BY <1>2 DEF RunsError, BytesWrittenShort, BytesWritten
  <2>3. /\ Count(handlers', "read") \in Nat
        /\ Count(handlers', "read") <= Count(handlers, "read")
        /\ handlers # <<>> /\ handlers' = Tail(handlers) /\ Head(handlers).kind = kind
    BY <1>0, <2>2, RunsTakesHead
  <2>4. Unread(handlers') <=> Unread(handlers)
    BY <1>0, <2>2, <2>3, UnreadTail
  <2>5. QED
    BY <1>0, <2>1, <2>3, <2>4, ReadSideUndisturbed
<1>3. CASE BytesRead
  <2>1. /\ alive /\ alive' = alive /\ causes' = causes /\ Runs("read") /\ ~Head(handlers).ec
        /\ UNCHANGED <<m_recv_buf, taken, arrived>>
        /\ m_readBuffers' = Append(m_readBuffers, m_recv_buf)
        /\ recvs' \in {recvs, recvs + 1}
    BY <1>3 DEF BytesRead, Reading
  <2>2. /\ Count(handlers', "read") \in Nat
        /\ Count(handlers', "read") + 1 <= Count(handlers, "read")
        /\ handlers # <<>> /\ handlers' = Tail(handlers) /\ Head(handlers).kind = "read"
        /\ handlers' \in Seq(Handler)
    BY <1>0, <2>1, RunsTakesHead
  <2>3. ReadsInFlight'
    BY <1>0, <2>1, <2>2 DEF ReadSide, ReadsInFlight
  <2>4. SUFFICES ASSUME causes \cap ReadSpoilers = {}
                 PROVE  ChunksInOrder'
    BY <2>1, <2>3, InputKeptByParts DEF ReadSide
  <2>5. Count(handlers', "read") = 0
    BY <1>0, <2>1, <2>2, <2>4 DEF ReadSide, ReadsInFlight, ReadSpoilers
  <2>6. AtHand = <<m_recv_buf>> /\ AtHand' = <<>>
    <3>1. Unread(handlers)
      BY <1>0, <2>1, <2>2, UnreadTail
    <3>2. ~Unread(handlers')
      BY <2>2, <2>5, NothingUnread
    <3>3. QED
      BY <3>1, <3>2 DEF AtHand
  <2>7. taken \o m_readBuffers \o <<m_recv_buf>> = [k \in 1..arrived |-> k]
    <3>1. ChunksInOrder
      BY <2>1, <2>4, InputKeptByParts DEF ReadSide
    <3>2. QED
      BY <2>6, <3>1 DEF ChunksInOrder
  <2>8. taken' \o m_readBuffers' \o <<>> = taken \o m_readBuffers \o <<m_recv_buf>>
    <3>1. <<m_recv_buf>> \in Seq(0..MaxIn)
      BY <1>0
    <3>2. m_readBuffers' = m_readBuffers \o <<m_recv_buf>>
      BY <1>0, <2>1, AppendIsConcat
    <3>3. taken \o (m_readBuffers \o <<m_recv_buf>>) = taken \o m_readBuffers \o <<m_recv_buf>>
      BY <1>0, <3>1, ConcatAssociative
    <3>4. taken' \o m_readBuffers' \in Seq(0..MaxIn)
      BY <1>0, <2>1, <3>1, <3>2, ConcatProperties
    <3>5. QED
      BY <2>1, <3>2, <3>3, <3>4, ConcatEmptySeq
  <2>9. QED
    BY <2>1, <2>6, <2>7, <2>8 DEF ChunksInOrder
<1>4. QED
  BY <1>1, <1>2, <1>3 DEF IoThread

LEMMA ReadSideStep == SocketType /\ ReadSide /\ [Next]_vars => ReadSide'
<1>1. ReadSide /\ UNCHANGED vars => ReadSide'
  <2>1. SUFFICES ASSUME ReadSide, UNCHANGED vars PROVE ReadSide'
    OBVIOUS
  <2>2. /\ UNCHANGED <<handlers, recvs, alive, causes>>
        /\ UNCHANGED <<taken, m_readBuffers, m_recv_buf, arrived>>
    BY <2>1 DEF vars, readVars, flagVars
  <2>3. ReadsInFlight'
    BY <2>1, <2>2 DEF ReadSide, ReadsInFlight
  <2>4. ChunksInOrder => ChunksInOrder'
    BY <2>2 DEF ChunksInOrder, AtHand
  <2>5. QED
    BY <2>1, <2>2, <2>3, <2>4, InputKeptByParts DEF ReadSide
<1>2. QED
  BY <1>1, ReadSideClient, ReadSideNetwork, ReadSideIoThread DEF Next

LEMMA ReadSideInit == Init => ReadSide
<1> SUFFICES ASSUME Init PROVE ReadSide
  OBVIOUS
<1>1. handlers = <<>> /\ recvs = 0 /\ arrived = 0 /\ taken = <<>> /\ m_readBuffers = <<>>
  BY DEF Init
<1>2. OfKind(<<>>, "read") = {}
  BY DEF OfKind
<1>3. Count(handlers, "read") = 0 /\ AtHand = <<>>
  BY <1>1, <1>2, FS_EmptySet DEF Count, AtHand, Unread
<1>4. ChunksInOrder
  BY <1>1, <1>3 DEF ChunksInOrder
<1>5. QED
  BY <1>1, <1>3, <1>4, InputKeptByParts DEF ReadSide, ReadsInFlight

\* Safety, socket.h:234: every chunk that came in is handed out once and in order, is queued or
\* waits in m_recv_buf, unless a second reading(), a sort or a Flush without Coalesce came between.
THEOREM NoInputLost == Spec => []InputKept
<1>1. Init => SocketType /\ ReadSide
  BY SocketTypeInit, ReadSideInit, SocketsAssumption
<1>2. SocketType /\ ReadSide /\ [Next]_vars => SocketType' /\ ReadSide'
  BY SocketTypeStep, ReadSideStep, SocketsAssumption
<1>3. ReadSide => InputKept
  BY DEF ReadSide
<1>4. QED
  BY <1>1, <1>2, <1>3, PTL DEF Spec

-----------------------------------------------------------------------------
(* The bytes of a queue.                                                        *)

Byte == (1..MaxWrites) \X Nat
BytesOfEach(q) == [k \in DOMAIN q |-> Bytes(q[k])]

LEMMA BytesOfBuffer ==
    ASSUME NEW b \in Buffer
    PROVE  /\ b.len \in Nat \ {0} /\ Bytes(b) \in Seq(Byte) /\ Len(Bytes(b)) = b.len
<1>1. b.id \in 1..MaxWrites /\ b.len \in Nat \ {0}
  BY SocketsAssumption DEF Buffer, SocketsAssumption
<1>2. \A k \in 1..b.len : <<b.id, k>> \in Byte
  BY <1>1 DEF Byte
<1>3. QED
  BY <1>1, <1>2 DEF Bytes

LEMMA BytesOfEachType ==
    ASSUME NEW q \in Seq(Buffer)
    PROVE  /\ BytesOfEach(q) \in Seq(Seq(Byte)) /\ Len(BytesOfEach(q)) = Len(q)
           /\ \A k \in 1..Len(q) : BytesOfEach(q)[k] = Bytes(q[k])
<1>1. q \in [1..Len(q) -> Buffer] /\ Len(q) \in Nat /\ DOMAIN q = 1..Len(q)
  BY LenProperties
<1>2. \A k \in 1..Len(q) : Bytes(q[k]) \in Seq(Byte)
  BY <1>1, BytesOfBuffer
<1>3. BytesOfEach(q) = [k \in 1..Len(q) |-> Bytes(q[k])]
  BY <1>1 DEF BytesOfEach
<1>4. [k \in 1..Len(q) |-> Bytes(q[k])] \in Seq(Seq(Byte))
  BY <1>1, <1>2, IsASeq
<1>5. QED
  BY <1>1, <1>3, <1>4

LEMMA BytesOfType ==
    ASSUME NEW q \in Seq(Buffer)
    PROVE  BytesOf(q) \in Seq(Byte) /\ (q = <<>> => BytesOf(q) = <<>>)
<1>1. BytesOf(q) = FlattenSeq(BytesOfEach(q))
  BY DEF BytesOf, BytesOfEach
<1>2. BytesOfEach(q) \in Seq(Seq(Byte)) /\ (q = <<>> => BytesOfEach(q) = <<>>)
  BY BytesOfEachType DEF BytesOfEach
<1>3. BytesOf(q) \in Seq(Byte)
  BY <1>1, <1>2, FlattenType
<1>4. q = <<>> => BytesOf(q) = <<>>
  BY <1>1, <1>2, FlattenSeqIsLast
<1>5. QED
  BY <1>3, <1>4

LEMMA BytesOfAppend ==
    ASSUME NEW q \in Seq(Buffer), NEW b \in Buffer
    PROVE  BytesOf(Append(q, b)) = BytesOf(q) \o Bytes(b)
<1> DEFINE a == Append(q, b)
<1>1. /\ a \in Seq(Buffer) /\ Len(a) = Len(q) + 1 /\ Len(q) \in Nat /\ a[Len(q) + 1] = b
      /\ \A k \in 1..Len(q) : a[k] = q[k]
  BY AppendProperties, LenProperties
<1> HIDE DEF a
<1>2. /\ BytesOfEach(q) \in Seq(Seq(Byte)) /\ Len(BytesOfEach(q)) = Len(q)
      /\ \A k \in 1..Len(q) : BytesOfEach(q)[k] = Bytes(q[k])
  BY BytesOfEachType
<1>3. /\ BytesOfEach(a) \in Seq(Seq(Byte)) /\ Len(BytesOfEach(a)) = Len(q) + 1
      /\ \A k \in 1..(Len(q) + 1) : BytesOfEach(a)[k] = Bytes(a[k])
  BY <1>1, BytesOfEachType
<1>4. Bytes(b) \in Seq(Byte)
  BY BytesOfBuffer
<1>5. BytesOfEach(a) = Append(BytesOfEach(q), Bytes(b))
  <2> DEFINE c == Append(BytesOfEach(q), Bytes(b))
  <2>1. /\ c \in Seq(Seq(Byte)) /\ Len(c) = Len(q) + 1 /\ c[Len(q) + 1] = Bytes(b)
        /\ \A k \in 1..Len(q) : c[k] = Bytes(q[k])
    BY <1>2, <1>4, AppendProperties
  <2> HIDE DEF c
  <2>2. ASSUME NEW k \in 1..(Len(q) + 1) PROVE BytesOfEach(a)[k] = c[k]
    <3>1. BytesOfEach(a)[k] = Bytes(a[k])
      BY <1>3
    <3>2. CASE k = Len(q) + 1
      BY <1>1, <2>1, <3>1, <3>2
    <3>3. CASE k # Len(q) + 1
      <4>1. k \in 1..Len(q)
        BY <1>1, <3>3
      <4>2. QED
        BY <1>1, <2>1, <3>1, <4>1
    <3>4. QED
      BY <3>2, <3>3
  <2>3. BytesOfEach(a) = c
    BY <1>3, <2>1, <2>2, SeqEqual
  <2>4. QED
    BY <2>3 DEF c
<1>6. FlattenSeq(Append(BytesOfEach(q), Bytes(b))) = FlattenSeq(BytesOfEach(q)) \o Bytes(b)
  BY <1>2, <1>4, FlattenAppend
<1>7. QED
  BY <1>5, <1>6 DEF BytesOf, BytesOfEach, a

LEMMA BytesOfCons ==
    ASSUME NEW q \in Seq(Buffer), NEW b \in Buffer
    PROVE  BytesOf(<<b>> \o q) = Bytes(b) \o BytesOf(q)
<1> DEFINE a == <<b>> \o q
<1>0. <<b>> \in Seq(Buffer) /\ Len(<<b>>) = 1 /\ <<b>>[1] = b
  OBVIOUS
<1>1. /\ a \in Seq(Buffer) /\ Len(a) = 1 + Len(q) /\ Len(q) \in Nat
      /\ \A k \in 1..(1 + Len(q)) : a[k] = IF k <= 1 THEN <<b>>[k] ELSE q[k - 1]
  BY <1>0, ConcatProperties, LenProperties
<1> HIDE DEF a
<1>2. /\ BytesOfEach(q) \in Seq(Seq(Byte)) /\ Len(BytesOfEach(q)) = Len(q)
      /\ \A k \in 1..Len(q) : BytesOfEach(q)[k] = Bytes(q[k])
  BY BytesOfEachType
<1>3. /\ BytesOfEach(a) \in Seq(Seq(Byte)) /\ Len(BytesOfEach(a)) = 1 + Len(q)
      /\ \A k \in 1..(1 + Len(q)) : BytesOfEach(a)[k] = Bytes(a[k])
  BY <1>1, BytesOfEachType
<1>4. Bytes(b) \in Seq(Byte) /\ <<Bytes(b)>> \in Seq(Seq(Byte)) /\ Len(<<Bytes(b)>>) = 1
      /\ <<Bytes(b)>>[1] = Bytes(b)
  BY BytesOfBuffer
<1>5. BytesOfEach(a) = <<Bytes(b)>> \o BytesOfEach(q)
  <2> DEFINE c == <<Bytes(b)>> \o BytesOfEach(q)
  <2>1. /\ c \in Seq(Seq(Byte)) /\ Len(c) = 1 + Len(q)
        /\ \A k \in 1..(1 + Len(q)) :
             c[k] = IF k <= 1 THEN <<Bytes(b)>>[k] ELSE BytesOfEach(q)[k - 1]
    BY <1>2, <1>4, ConcatProperties
  <2> HIDE DEF c
  <2>2. ASSUME NEW k \in 1..(1 + Len(q)) PROVE BytesOfEach(a)[k] = c[k]
    <3>1. CASE k = 1
      BY <1>0, <1>1, <1>3, <1>4, <2>1, <3>1
    <3>2. CASE k # 1
      <4>1. ~(k <= 1) /\ k - 1 \in 1..Len(q)
        BY <1>1, <3>2
      <4>2. a[k] = q[k - 1] /\ c[k] = BytesOfEach(q)[k - 1]
        BY <1>1, <2>1, <4>1
      <4>3. QED
        BY <1>2, <1>3, <4>1, <4>2
    <3>3. QED
      BY <3>1, <3>2
  <2>3. BytesOfEach(a) = c
    BY <1>3, <2>1, <2>2, SeqEqual
  <2>4. QED
    BY <2>3 DEF c
<1>6. FlattenSeq(<<Bytes(b)>> \o BytesOfEach(q)) = Bytes(b) \o FlattenSeq(BytesOfEach(q))
  BY <1>2, <1>4, FlattenCons
<1>7. QED
  BY <1>5, <1>6 DEF BytesOf, BytesOfEach, a

LEMMA BytesOfFront ==
    ASSUME NEW q \in Seq(Buffer), q # <<>>
    PROVE  BytesOf(q) = Bytes(Head(q)) \o BytesOf(Tail(q))
<1>1. Head(q) \in Buffer /\ Tail(q) \in Seq(Buffer)
  BY HeadTailProperties
<1>2. q = <<Head(q)>> \o Tail(q)
  OBVIOUS
<1>3. BytesOf(<<Head(q)>> \o Tail(q)) = Bytes(Head(q)) \o BytesOf(Tail(q))
  BY <1>1, BytesOfCons
<1>4. QED
  BY <1>2, <1>3

\* What is left of a sequence after its first n elements.
After(x, n) == SubSeq(x, n + 1, Len(x))

LEMMA AfterOfConcat ==
    ASSUME NEW S, NEW x \in Seq(S), NEW y \in Seq(S), NEW n \in 0..Len(x)
    PROVE  /\ After(x \o y, n) = After(x, n) \o y
           /\ After(x, n) \in Seq(S) /\ Len(After(x, n)) = Len(x) - n
<1>1. /\ Len(x) \in Nat /\ Len(y) \in Nat /\ x \o y \in Seq(S) /\ Len(x \o y) = Len(x) + Len(y)
      /\ \A i \in 1..(Len(x) + Len(y)) : (x \o y)[i] = IF i <= Len(x) THEN x[i] ELSE y[i - Len(x)]
      /\ (\A i \in 1..Len(x) : x[i] \in S) /\ (\A i \in 1..Len(y) : y[i] \in S)
  BY ConcatProperties, LenProperties, ElementOfSeq
<1>2. /\ After(x, n) \in Seq(S) /\ Len(After(x, n)) = Len(x) - n
      /\ \A i \in 1..(Len(x) - n) : After(x, n)[i] = x[n + i]
  BY <1>1 DEF After
<1> DEFINE z == x \o y
<1>3. /\ After(z, n) \in Seq(S) /\ Len(After(z, n)) = Len(x) + Len(y) - n
      /\ \A i \in 1..(Len(x) + Len(y) - n) : After(z, n)[i] = z[n + i]
  <2>1. Len(z) \in Nat /\ Len(z) = Len(x) + Len(y) /\ \A i \in 1..Len(z) : z[i] \in S
    BY <1>1
  <2> HIDE DEF z
  <2>2. QED
    BY <2>1 DEF After
<1> DEFINE w == After(x, n) \o y
<1>4. /\ w \in Seq(S) /\ Len(w) = (Len(x) - n) + Len(y)
      /\ \A i \in 1..((Len(x) - n) + Len(y)) :
           w[i] = IF i <= Len(x) - n THEN After(x, n)[i] ELSE y[i - (Len(x) - n)]
  <2> DEFINE u == After(x, n)
  <2>1. u \in Seq(S) /\ Len(u) = Len(x) - n
    BY <1>2
  <2> HIDE DEF u
  <2>2. /\ u \o y \in Seq(S) /\ Len(u \o y) = Len(u) + Len(y)
        /\ \A i \in 1..(Len(u) + Len(y)) :
             (u \o y)[i] = IF i <= Len(u) THEN u[i] ELSE y[i - Len(u)]
    BY <2>1, ConcatProperties
  <2>3. QED
    BY <2>1, <2>2 DEF u
<1>5. ASSUME NEW i \in 1..(Len(x) + Len(y) - n) PROVE After(z, n)[i] = w[i]
  <2>1. n + i \in 1..(Len(x) + Len(y)) /\ i \in 1..((Len(x) - n) + Len(y))
    BY <1>1
  <2>2. CASE i <= Len(x) - n
    <3>1. n + i <= Len(x) /\ i \in 1..(Len(x) - n)
      BY <1>1, <2>2
    <3>2. z[n + i] = x[n + i]
      BY <1>1, <2>1, <3>1
    <3> HIDE DEF z, w
    <3>3. QED
      BY <1>2, <1>3, <1>4, <2>1, <2>2, <3>1, <3>2
  <2>3. CASE ~(i <= Len(x) - n)
    <3>1. ~(n + i <= Len(x)) /\ (n + i) - Len(x) = i - (Len(x) - n)
      BY <1>1, <2>3
    <3>2. z[n + i] = y[(n + i) - Len(x)]
      BY <1>1, <2>1, <3>1
    <3> HIDE DEF z, w
    <3>3. QED
      BY <1>3, <1>4, <2>1, <2>3, <3>1, <3>2
  <2>4. QED
    BY <2>2, <2>3
<1>6. After(z, n) = w
  <2>1. Len(After(z, n)) = Len(w) /\ Len(w) = Len(x) + Len(y) - n
    BY <1>1, <1>3, <1>4
  <2> HIDE DEF z, w
  <2>2. QED
    BY <1>3, <1>4, <1>5, <2>1, SeqEqual
<1>7. QED
  BY <1>2, <1>6

-----------------------------------------------------------------------------
(* The written handler that was not run yet.                                    *)

AckOf(h) == {k \in OfKind(h, "written") : ~h[k].ec}
SentOf(h) == IF AckOf(h) = {} THEN 0 ELSE h[CHOOSE k \in AckOf(h) : TRUE].n
Acked(h, n) == \E k \in AckOf(h) : h[k].n = n

LEMMA SentIsSentOf == Sent = SentOf(handlers) /\ Sent' = SentOf(handlers')
BY DEF Sent, SentOf, Acknowledged, AckOf, Pending, OfKind

LEMMA AckedAppend ==
    ASSUME NEW h \in Seq(Handler), NEW x \in Handler, NEW n
    PROVE  Acked(Append(h, x), n) <=> Acked(h, n) \/ (x.kind = "written" /\ ~x.ec /\ x.n = n)
<1> DEFINE a == Append(h, x)
<1>1. /\ Len(h) \in Nat /\ a[Len(h) + 1] = x /\ (\A k \in 1..Len(h) : a[k] = h[k])
      /\ DOMAIN h = 1..Len(h) /\ DOMAIN a = 1..(Len(h) + 1)
  BY AppendProperties, LenProperties
<1> HIDE DEF a
<1>2. Acked(a, n) <=> Acked(h, n) \/ (x.kind = "written" /\ ~x.ec /\ x.n = n)
  BY <1>1 DEF Acked, AckOf, OfKind
<1>3. QED
  BY <1>2 DEF a

LEMMA AckedTail ==
    ASSUME NEW h \in Seq(Handler), h # <<>>, NEW n
    PROVE  /\ Acked(Tail(h), n) => Acked(h, n)
           /\ Head(h).kind = "written" /\ ~Head(h).ec => Acked(h, Head(h).n)
           /\ Acked(h, n) => \/ Acked(Tail(h), n)
                             \/ Head(h).kind = "written" /\ ~Head(h).ec
<1> DEFINE a == Tail(h)
<1>1. /\ Head(h) = h[1] /\ Len(h) \in Nat \ {0} /\ (\A k \in 1..(Len(h) - 1) : a[k] = h[k + 1])
      /\ DOMAIN h = 1..Len(h) /\ DOMAIN a = 1..(Len(h) - 1)
  BY HeadTailProperties, LenProperties, EmptySeq
<1> HIDE DEF a
<1>2. Acked(a, n) => Acked(h, n)
  BY <1>1 DEF Acked, AckOf, OfKind
<1>3. Head(h).kind = "written" /\ ~Head(h).ec => Acked(h, Head(h).n)
  BY <1>1 DEF Acked, AckOf, OfKind
<1>4. Acked(h, n) => Acked(a, n) \/ (Head(h).kind = "written" /\ ~Head(h).ec)
  <2>1. SUFFICES ASSUME NEW k \in DOMAIN h, h[k].kind = "written", ~h[k].ec, h[k].n = n, k # 1
                 PROVE  Acked(a, n)
    BY <1>1 DEF Acked, AckOf, OfKind
  <2>2. k - 1 \in DOMAIN a /\ a[k - 1] = h[k]
    BY <1>1, <2>1
  <2>3. QED
    BY <2>1, <2>2 DEF Acked, AckOf, OfKind
<1>5. QED
  BY <1>2, <1>3, <1>4 DEF a

LEMMA SentOfOne ==
    ASSUME NEW h \in Seq(Handler), Count(h, "written") <= 1
    PROVE  /\ \A n : Acked(h, n) => SentOf(h) = n /\ n \in Nat /\ Count(h, "written") = 1
           /\ (\A n : ~Acked(h, n)) => SentOf(h) = 0
<1>1. /\ IsFiniteSet(OfKind(h, "written")) /\ Count(h, "written") \in Nat
      /\ Count(h, "written") = 0 <=> OfKind(h, "written") = {}
  BY CountIsNat
<1>2. \A j, k \in OfKind(h, "written") : j = k
  <2>1. Count(h, "written") = 0 \/ Count(h, "written") = 1
    BY <1>1
  <2>2. Count(h, "written") = 1 => \E k : OfKind(h, "written") = {k}
    BY <1>1, FS_Singleton DEF Count
  <2>3. QED
    BY <1>1, <2>1, <2>2
<1>3. ASSUME NEW n, Acked(h, n) PROVE SentOf(h) = n /\ n \in Nat /\ Count(h, "written") = 1
  <2>1. PICK k \in AckOf(h) : h[k].n = n
    BY <1>3 DEF Acked
  <2>2. \A j \in AckOf(h) : j = k
    BY <1>2, <2>1 DEF AckOf
  <2>3. SentOf(h) = n
    BY <2>1, <2>2 DEF SentOf
  <2>4. h \in [1..Len(h) -> Handler] /\ DOMAIN h = 1..Len(h)
    BY LenProperties
  <2>5. h[k] \in Handler
    BY <2>1, <2>4 DEF AckOf, OfKind
  <2>6. n \in Nat
    BY <2>1, <2>5 DEF Handler
  <2>7. QED
    BY <1>1, <2>1, <2>3, <2>6 DEF AckOf
<1>4. (\A n : ~Acked(h, n)) => SentOf(h) = 0
  BY DEF SentOf, Acked
<1>5. QED
  BY <1>3, <1>4

\* Handlers with the same acknowledgements count the same bytes.
LEMMA SentOfSame ==
    ASSUME NEW h \in Seq(Handler), NEW g \in Seq(Handler),
           Count(h, "written") <= 1, Count(g, "written") <= 1,
           \A n : Acked(g, n) <=> Acked(h, n)
    PROVE  SentOf(g) = SentOf(h)
<1>1. CASE \E n : Acked(h, n)
  <2>1. PICK n : Acked(h, n)
    BY <1>1
  <2>2. SentOf(h) = n /\ SentOf(g) = n
    BY <2>1, SentOfOne
  <2>3. QED
    BY <2>2
<1>2. CASE ~(\E n : Acked(h, n))
  <2>1. SentOf(h) = 0 /\ SentOf(g) = 0
    BY <1>2, SentOfOne
  <2>2. QED
    BY <2>1
<1>3. QED
  BY <1>1, <1>2

-----------------------------------------------------------------------------
(* What a handler still has to account for is in the front of the queue.        *)

Unspoilt == alive /\ {"secondWriting", "prependInFlight"} \cap causes = {}
AckFits == Unspoilt => \A n \in Nat : Acked(handlers, n) => n \in 1..Head(m_writeBuffers).len

\* A step that adds no acknowledgement and leaves the queue as it is.
LEMMA AckFitsUndisturbed ==
    ASSUME AckFits, alive, causes \subseteq causes', m_writeBuffers' = m_writeBuffers,
           \A n : Acked(handlers', n) => Acked(handlers, n)
    PROVE  AckFits'
BY DEF AckFits, Unspoilt

LEMMA NextFacts ==
    ASSUME Next
    PROVE  fault = "none" /\ causes \subseteq causes'
BY DEF Next, Client, Network, IoThread, Write, CallWriting, CallReading, SetClosing, SetFinished,
       PeekData, PeekSorted, Destroy, Calls, SendCompletes, ReceiveCompletes, Fails,
       RunsOnDestroyed, RunsError, BytesWrittenShort, BytesWritten, BytesRead, Runs

LEMMA AckFitsStep ==
    ASSUME SocketType, WriteSide, AckFits, [Next]_vars
    PROVE  AckFits'
<1>0. /\ Count(handlers, "written") \in Nat /\ Len(sends) \in Nat
      /\ Len(sends) = 0 <=> sends = <<>>
      /\ WriteInFlight <=> Len(sends) + Count(handlers, "written") > 0
      /\ m_writeBuffers \in Seq(Buffer) /\ sends \in Seq(Buffer) /\ handlers \in Seq(Handler)
      /\ (sends # <<>> \/ recvs > 0 => alive)
  BY InFlightCounted DEF SocketType, QueuesType, ReceivesCounted
<1>1. ASSUME NEW len \in Lengths, NEW prepend \in BOOLEAN, Write(len, prepend) PROVE AckFits'
  <2> DEFINE b == [id |-> written + 1, len |-> len]
  <2>1. /\ m_writeBuffers' = IF prepend THEN <<b>> \o m_writeBuffers ELSE Append(m_writeBuffers, b)
        /\ causes' = IF prepend /\ WriteInFlight THEN causes \cup {"prependInFlight"} ELSE causes
        /\ alive /\ alive' = alive /\ handlers' = handlers
    BY <1>1 DEF Write, flagVars
  <2> HIDE DEF b
  <2>2. SUFFICES ASSUME Unspoilt', NEW n \in Nat, Acked(handlers, n)
                 PROVE  n \in 1..Head(m_writeBuffers').len
    BY <2>1 DEF AckFits
  <2>3. Unspoilt /\ causes' = causes /\ ~(prepend /\ WriteInFlight)
    BY <2>1, <2>2 DEF Unspoilt
  <2>4. Count(handlers, "written") <= 1
    BY <1>0, <2>3 DEF WriteSide, WritesInFlight, Unspoilt
  <2>5. Count(handlers, "written") = 1
    BY <1>0, <2>2, <2>4, SentOfOne
  <2>6. ~prepend /\ m_writeBuffers # <<>>
    BY <1>0, <2>3, <2>5 DEF WriteSide, WritesInFlight, Unspoilt
  <2>7. Head(m_writeBuffers') = Head(m_writeBuffers)
    BY <1>0, <2>1, <2>6, HeadTailAppend
  <2>8. QED
    BY <2>2, <2>3, <2>7 DEF AckFits
<1>2. CASE \/ CallWriting \/ CallReading \/ SetClosing \/ SetFinished \/ PeekSorted
           \/ \E coalesce, flush \in BOOLEAN : PeekData(coalesce, flush)
  <2>1. alive /\ handlers' = handlers /\ m_writeBuffers' = m_writeBuffers /\ causes \subseteq causes'
    BY <1>2 DEF CallWriting, CallReading, SetClosing, SetFinished, PeekSorted, PeekData, Calls,
                writeVars, flagVars
  <2>2. QED
    BY <2>1, AckFitsUndisturbed
<1>3. CASE Destroy \/ RunsOnDestroyed
  BY <1>3 DEF Destroy, RunsOnDestroyed, flagVars, AckFits, Unspoilt
<1>4. CASE SendCompletes
  <2>1. /\ alive /\ alive' = alive /\ causes' = causes /\ m_writeBuffers' = m_writeBuffers
        /\ sends # <<>>
    BY <1>0, <1>4 DEF SendCompletes, flagVars
  <2>2. CASE handlers' = handlers
    BY <2>1, <2>2, AckFitsUndisturbed
  <2>3. CASE \E n \in 1..Head(sends).len :
               handlers' = Append(handlers, [kind |-> "written", n |-> n, ec |-> FALSE])
    <3>1. PICK m \in 1..Head(sends).len :
            handlers' = Append(handlers, [kind |-> "written", n |-> m, ec |-> FALSE])
      BY <2>3
    <3>2. m \in Nat
      BY <1>0, <2>1, HeadTailProperties DEF Buffer
    <3> DEFINE x == [kind |-> "written", n |-> m, ec |-> FALSE]
    <3>3. x \in Handler /\ x.n = m /\ handlers' = Append(handlers, x)
      BY <3>1, <3>2, FALSE \in BOOLEAN DEF Handler
    <3> HIDE DEF x
    <3>4. SUFFICES ASSUME Unspoilt, NEW n \in Nat, Acked(handlers', n)
                   PROVE  n \in 1..Head(m_writeBuffers).len
      BY <2>1 DEF AckFits, Unspoilt
    <3>5. Acked(handlers, n) \/ n = m
      BY <1>0, <3>3, <3>4, AckedAppend
    <3>6. Head(sends) = Head(m_writeBuffers)
      BY <2>1, <3>4 DEF WriteSide, FrontInFlight, Unspoilt
    <3>7. QED
      BY <3>4, <3>5, <3>6 DEF AckFits
  <2>4. QED
    BY <1>4, <2>2, <2>3 DEF SendCompletes
<1>5. CASE ReceiveCompletes
  <2>1. alive /\ causes' = causes /\ m_writeBuffers' = m_writeBuffers
    BY <1>0, <1>5 DEF ReceiveCompletes, writeVars
  <2> DEFINE x == [kind |-> "read", n |-> 1, ec |-> FALSE]
  <2>2. x \in Handler /\ x.kind = "read" /\ handlers' = Append(handlers, x)
    BY <1>5, FALSE \in BOOLEAN DEF Handler, ReceiveCompletes
  <2> HIDE DEF x
  <2>3. \A n : Acked(handlers', n) => Acked(handlers, n)
    BY <1>0, <2>2, AckedAppend
  <2>4. QED
    BY <2>1, <2>3, AckFitsUndisturbed
<1>6. CASE Fails
  <2>1. alive /\ causes \subseteq causes' /\ m_writeBuffers' = m_writeBuffers
    BY <1>0, <1>6 DEF Fails
  <2>2. PICK x \in {Aborted("written"), Aborted("read")} : handlers' = Append(handlers, x)
    BY <1>6 DEF Fails
  <2>3. x \in Handler /\ x.ec
    BY <2>2, AbortedIsHandler
  <2>4. \A n : Acked(handlers', n) => Acked(handlers, n)
    BY <1>0, <2>2, <2>3, AckedAppend
  <2>5. QED
    BY <2>1, <2>4, AckFitsUndisturbed
<1>7. CASE RunsError \/ BytesWrittenShort \/ BytesRead
  <2>1. alive /\ causes \subseteq causes' /\ m_writeBuffers' = m_writeBuffers
    BY <1>7 DEF RunsError, BytesWrittenShort, BytesRead, writeVars
  <2>2. handlers # <<>> /\ handlers' = Tail(handlers)
    BY <1>7 DEF RunsError, BytesWrittenShort, BytesRead, Runs
  <2>3. \A n : Acked(handlers', n) => Acked(handlers, n)
    BY <1>0, <2>2, AckedTail
  <2>4. QED
    BY <2>1, <2>3, AckFitsUndisturbed
<1>8. CASE BytesWritten
  <2>1. /\ Count(handlers', "written") \in Nat /\ handlers' \in Seq(Handler)
        /\ Count(handlers', "written") + 1 <= Count(handlers, "written")
        /\ alive' = alive /\ causes' = causes
    BY <1>0, <1>8, RunsTakesHead DEF BytesWritten, flagVars
  <2>2. Unspoilt => Count(handlers', "written") = 0
    BY <1>0, <2>1 DEF WriteSide, WritesInFlight, Unspoilt
  <2>3. Unspoilt => \A n : ~Acked(handlers', n)
    BY <2>1, <2>2, SentOfOne
  <2>4. QED
    BY <2>1, <2>3 DEF AckFits, Unspoilt
<1>9. CASE UNCHANGED vars
  BY <1>9 DEF vars, writeVars, readVars, flagVars, AckFits, Unspoilt
<1>10. QED
  BY <1>1, <1>2, <1>3, <1>4, <1>5, <1>6, <1>7, <1>8, <1>9 DEF Next, Client, Network, IoThread

LEMMA AckFitsInit == Init => AckFits
<1> SUFFICES ASSUME Init PROVE AckFits
  OBVIOUS
<1>1. handlers = <<>>
  BY DEF Init
<1>2. \A n : ~Acked(<<>>, n)
  BY DEF Acked, AckOf, OfKind
<1>3. QED
  BY <1>1, <1>2 DEF AckFits

-----------------------------------------------------------------------------
(* The socket implements ByteStream.                                            *)

Queue == IF alive THEN After(BytesOf(m_writeBuffers), Sent) ELSE <<>>
Spoilt == causes \cap WriteSpoilers # {} \/ fault # "none"

LEMMA AfterNone ==
    ASSUME NEW S, NEW x \in Seq(S)
    PROVE  After(x, 0) = x /\ After(x, Len(x)) = <<>>
<1>1. Len(x) \in Nat /\ \A i \in 1..Len(x) : x[i] \in S
  BY LenProperties, ElementOfSeq
<1>2. After(x, 0) \in Seq(S) /\ Len(After(x, 0)) = Len(x) /\ \A i \in 1..Len(x) : After(x, 0)[i] = x[i]
  BY <1>1 DEF After
<1>3. After(x, 0) = x
  BY <1>2, SeqEqual
<1>4. After(x, Len(x)) = <<>>
  BY <1>1 DEF After
<1>5. QED
  BY <1>3, <1>4

LEMMA FirstOfConcat ==
    ASSUME NEW S, NEW x \in Seq(S), NEW y \in Seq(S), NEW n \in 1..Len(x)
    PROVE  SubSeq(x \o y, 1, n) = SubSeq(x, 1, n) /\ n \in 1..Len(x \o y)
<1> DEFINE z == x \o y
<1>1. /\ Len(x) \in Nat /\ Len(y) \in Nat /\ z \in Seq(S) /\ Len(z) = Len(x) + Len(y)
      /\ \A i \in 1..Len(x) : z[i] = x[i]
      /\ \A i \in 1..Len(x) : x[i] \in S
  BY ConcatProperties, LenProperties, ElementOfSeq
<1> HIDE DEF z
<1>2. /\ SubSeq(x, 1, n) \in Seq(S) /\ Len(SubSeq(x, 1, n)) = n
      /\ \A i \in 1..n : SubSeq(x, 1, n)[i] = x[i]
  BY <1>1
<1>3. \A i \in 1..Len(z) : z[i] \in S
  BY <1>1, ElementOfSeq
<1>4. /\ SubSeq(z, 1, n) \in Seq(S) /\ Len(SubSeq(z, 1, n)) = n
      /\ \A i \in 1..n : SubSeq(z, 1, n)[i] = z[i]
  BY <1>1, <1>3
<1>5. \A i \in 1..n : i \in 1..Len(x)
  BY <1>1
<1>6. SubSeq(z, 1, n) = SubSeq(x, 1, n)
  BY <1>1, <1>2, <1>4, <1>5, SeqEqual
<1>7. QED
  BY <1>1, <1>6 DEF z

\* What is known of the queue while nothing spoils it.
LEMMA QueueFacts ==
    ASSUME SocketType, WriteSide, AckFits, Unspoilt
    PROVE  /\ Count(handlers, "written") \in Nat /\ Count(handlers, "written") <= 1
           /\ m_writeBuffers \in Seq(Buffer) /\ BytesOf(m_writeBuffers) \in Seq(Byte)
           /\ Queue = After(BytesOf(m_writeBuffers), Sent)
           /\ Sent \in 0..Len(BytesOf(m_writeBuffers))
           /\ Count(handlers, "written") = 0 => Sent = 0
           /\ m_writeBuffers # <<>> =>
                /\ Sent \in 0..Len(Bytes(Head(m_writeBuffers)))
                /\ Queue = After(Bytes(Head(m_writeBuffers)), Sent) \o BytesOf(Tail(m_writeBuffers))
<1>1. /\ Count(handlers, "written") \in Nat /\ Len(sends) \in Nat
      /\ m_writeBuffers \in Seq(Buffer) /\ handlers \in Seq(Handler)
  BY InFlightCounted DEF SocketType, QueuesType
<1>2. /\ Count(handlers, "written") <= 1
      /\ Count(handlers, "written") > 0 => m_writeBuffers # <<>>
  BY <1>1 DEF WriteSide, WritesInFlight, Unspoilt
<1>3. Queue = After(BytesOf(m_writeBuffers), Sent) /\ BytesOf(m_writeBuffers) \in Seq(Byte)
  BY <1>1, BytesOfType DEF Queue, Unspoilt
<1>4. \/ Sent = 0
      \/ /\ Count(handlers, "written") = 1 /\ m_writeBuffers # <<>>
         /\ Sent \in 1..Head(m_writeBuffers).len
  <2>1. CASE \A n : ~Acked(handlers, n)
    BY <1>1, <1>2, <2>1, SentOfOne, SentIsSentOf
  <2>2. CASE \E n : Acked(handlers, n)
    <3>1. PICK n : Acked(handlers, n)
      BY <2>2
    <3>2. Sent = n /\ n \in Nat /\ Count(handlers, "written") = 1
      BY <1>1, <1>2, <3>1, SentOfOne, SentIsSentOf
    <3>3. n \in 1..Head(m_writeBuffers).len
      BY <3>1, <3>2 DEF AckFits
    <3>4. m_writeBuffers # <<>>
      BY <1>2, <3>2
    <3>5. QED
      BY <3>2, <3>3, <3>4
  <2>3. QED
    BY <2>1, <2>2
<1>5. ASSUME m_writeBuffers # <<>>
      PROVE  /\ Sent \in 0..Len(Bytes(Head(m_writeBuffers)))
             /\ Sent \in 0..Len(BytesOf(m_writeBuffers))
             /\ Queue = After(Bytes(Head(m_writeBuffers)), Sent) \o BytesOf(Tail(m_writeBuffers))
  <2> DEFINE x == Bytes(Head(m_writeBuffers))
             y == BytesOf(Tail(m_writeBuffers))
  <2>1. Head(m_writeBuffers) \in Buffer /\ Tail(m_writeBuffers) \in Seq(Buffer)
    BY <1>1, <1>5, HeadTailProperties
  <2>2. /\ x \in Seq(Byte) /\ Len(x) = Head(m_writeBuffers).len /\ Len(x) \in Nat \ {0}
    BY <2>1, BytesOfBuffer
  <2>3. y \in Seq(Byte) /\ BytesOf(m_writeBuffers) = x \o y
    BY <1>1, <1>5, <2>1, BytesOfType, BytesOfFront
  <2> HIDE DEF x, y
  <2>4. Sent \in 0..Len(x)
    BY <1>4, <2>2
  <2>5. Len(x \o y) = Len(x) + Len(y) /\ Len(y) \in Nat
    BY <2>2, <2>3, ConcatProperties, LenProperties
  <2>6. After(x \o y, Sent) = After(x, Sent) \o y
    BY <2>2, <2>3, <2>4, AfterOfConcat
  <2>7. Sent \in 0..Len(x \o y)
    BY <2>2, <2>4, <2>5
  <2>8. QED
    BY <1>3, <2>3, <2>4, <2>6, <2>7 DEF x, y
<1>6. Count(handlers, "written") = 0 => Sent = 0
  BY <1>4
<1>7. Sent \in 0..Len(BytesOf(m_writeBuffers))
  <2>1. Len(BytesOf(m_writeBuffers)) \in Nat
    BY <1>3, LenProperties
  <2>2. QED
    BY <1>4, <1>5, <2>1
<1>8. QED
  BY <1>1, <1>2, <1>3, <1>5, <1>6, <1>7

\* The chunks that the abstract writer may write.
LEMMA BytesAreChunks ==
    ASSUME NEW i \in 1..MaxWrites, NEW n \in Lengths
    PROVE  Bytes([id |-> i, len |-> n])
             \in {Bytes([id |-> j, len |-> m]) : j \in 1..MaxWrites, m \in Lengths}
OBVIOUS

\* The abstract steps, each from what the mapped queue does.
LEMMA StreamWrites ==
    ASSUME NEW i \in 1..MaxWrites, NEW n \in Lengths, wire' = wire,
           \/ Queue' = Queue \o Bytes([id |-> i, len |-> n])
           \/ Queue' = Bytes([id |-> i, len |-> n]) \o Queue
    PROVE  Stream!Write \/ Stream!Prepend
<1> DEFINE C == {Bytes([id |-> j, len |-> m]) : j \in 1..MaxWrites, m \in Lengths}
           x == Bytes([id |-> i, len |-> n])
<1>1. x \in C
  BY BytesAreChunks
<1>2. Stream!Write <=> \E b \in C : Queue' = Queue \o b /\ wire' = wire
  BY DEF Stream!Write, Queue, After
<1>3. Stream!Prepend <=> \E b \in C : Queue' = b \o Queue /\ wire' = wire
  BY DEF Stream!Prepend, Queue, After
<1> HIDE DEF C, x
<1>4. \/ \E b \in C : Queue' = Queue \o b /\ wire' = wire
      \/ \E b \in C : Queue' = b \o Queue /\ wire' = wire
  BY <1>1 DEF x
<1>5. QED
  BY <1>2, <1>3, <1>4

LEMMA StreamSends ==
    ASSUME NEW n \in 1..Len(Queue), wire' = wire \o SubSeq(Queue, 1, n), Queue' = After(Queue, n)
    PROVE  Stream!Send
BY DEF Stream!Send, Queue, After

LEMMA StreamDiscards ==
    ASSUME wire' = wire, Queue' = <<>>
    PROVE  Stream!Discard
BY DEF Stream!Discard, Queue, After

\* A step that leaves the queue, the acknowledgements and the wire as they are.
LEMMA StreamStutters ==
    ASSUME SocketType, WriteSide, SocketType', WriteSide', Unspoilt, Unspoilt',
           m_writeBuffers' = m_writeBuffers, wire' = wire, alive' = alive,
           \A n : Acked(handlers', n) <=> Acked(handlers, n)
    PROVE  Queue' = Queue /\ wire' = wire
<1>1. /\ handlers \in Seq(Handler) /\ handlers' \in Seq(Handler)
      /\ Count(handlers, "written") \in Nat /\ Len(sends) \in Nat
      /\ Count(handlers', "written") \in Nat /\ Len(sends') \in Nat
  <2>1. handlers \in Seq(Handler) /\ handlers' \in Seq(Handler) /\ sends \in Seq(Buffer)
        /\ sends' \in Seq(Buffer)
    BY DEF SocketType, QueuesType
  <2>2. QED
    BY <2>1, CountIsNat, LenProperties
<1>2. Count(handlers, "written") <= 1
  BY <1>1 DEF WriteSide, WritesInFlight, Unspoilt
<1>3. Count(handlers', "written") <= 1
  BY <1>1 DEF WriteSide, WritesInFlight, Unspoilt
<1>4. Sent' = Sent
  BY <1>1, <1>2, <1>3, SentOfSame, SentIsSentOf
<1>5. QED
  BY <1>4 DEF Queue, After

StreamMoves == Stream!Write \/ Stream!Prepend \/ Stream!Send \/ Stream!Discard
QueueStays == Queue' = Queue /\ wire' = wire

\* What the client's calls do to the mapped queue.
LEMMA StreamClient ==
    ASSUME SocketType, WriteSide, AckFits, SocketType', WriteSide', AckFits', ~Spoilt', Client
    PROVE  StreamMoves \/ QueueStays
<1>0. alive /\ causes \subseteq causes' /\ causes' \cap WriteSpoilers = {}
  BY NextFacts DEF Client, Next, Write, CallWriting, CallReading, SetClosing, SetFinished,
                   PeekData, PeekSorted, Destroy, Calls, Spoilt
<1>1. Unspoilt /\ (alive' => Unspoilt')
  BY <1>0 DEF Unspoilt, WriteSpoilers
<1>2. /\ m_writeBuffers \in Seq(Buffer) /\ BytesOf(m_writeBuffers) \in Seq(Byte)
      /\ Queue = After(BytesOf(m_writeBuffers), Sent)
      /\ Sent \in 0..Len(BytesOf(m_writeBuffers))
      /\ Count(handlers, "written") = 0 => Sent = 0
  BY <1>1, QueueFacts
<1>3. ASSUME NEW len \in Lengths, NEW prepend \in BOOLEAN, Write(len, prepend)
      PROVE  Stream!Write \/ Stream!Prepend
  <2> DEFINE b == [id |-> written + 1, len |-> len]
  <2>1. /\ m_writeBuffers' = IF prepend THEN <<b>> \o m_writeBuffers ELSE Append(m_writeBuffers, b)
        /\ causes' = IF prepend /\ WriteInFlight THEN causes \cup {"prependInFlight"} ELSE causes
        /\ alive' = alive /\ handlers' = handlers /\ wire' = wire
    BY <1>3 DEF Write, flagVars
  <2>2. b \in Buffer /\ written + 1 \in 1..MaxWrites
    BY <1>3 DEF Write, Buffer, SocketType, QueuesType
  <2> HIDE DEF b
  <2>3. Bytes(b) \in Seq(Byte) /\ Sent' = Sent
    BY <2>1, <2>2, BytesOfBuffer, SentIsSentOf
  <2>4. Queue' = After(BytesOf(m_writeBuffers'), Sent)
    BY <1>0, <2>1, <2>3 DEF Queue
  <2>5. \/ Queue' = Queue \o Bytes(b)
        \/ Queue' = Bytes(b) \o Queue
    <3>1. CASE ~prepend
      <4>1. BytesOf(m_writeBuffers') = BytesOf(m_writeBuffers) \o Bytes(b)
        BY <1>2, <2>1, <2>2, <3>1, BytesOfAppend
      <4>2. After(BytesOf(m_writeBuffers) \o Bytes(b), Sent)
              = After(BytesOf(m_writeBuffers), Sent) \o Bytes(b)
        BY <1>2, <2>3, AfterOfConcat
      <4>3. QED
        BY <1>2, <2>4, <4>1, <4>2
    <3>2. CASE prepend
      <4>1. ~WriteInFlight
        BY <1>0, <2>1, <3>2 DEF WriteSpoilers
      <4>2. Sent = 0
        BY <1>2, <4>1, InFlightCounted
      <4>3. BytesOf(m_writeBuffers') = Bytes(b) \o BytesOf(m_writeBuffers)
        BY <1>2, <2>1, <2>2, <3>2, BytesOfCons
      <4>4. After(BytesOf(m_writeBuffers), 0) = BytesOf(m_writeBuffers)
        BY <1>2, AfterNone
      <4>5. After(BytesOf(m_writeBuffers'), 0) = BytesOf(m_writeBuffers')
        <5>1. Bytes(b) \o BytesOf(m_writeBuffers) \in Seq(Byte)
          BY <1>2, <2>3, ConcatProperties
        <5>2. QED
          BY <4>3, <5>1, AfterNone
      <4>6. QED
        BY <1>2, <2>4, <4>2, <4>3, <4>4, <4>5
    <3>3. QED
      BY <3>1, <3>2
  <2>6. QED
    BY <2>1, <2>2, <2>5, StreamWrites DEF b
<1>4. CASE \/ CallWriting \/ CallReading \/ SetClosing \/ SetFinished \/ PeekSorted
           \/ \E coalesce, flush \in BOOLEAN : PeekData(coalesce, flush)
  <2>1. alive' = alive /\ handlers' = handlers /\ m_writeBuffers' = m_writeBuffers /\ wire' = wire
    BY <1>4 DEF CallWriting, CallReading, SetClosing, SetFinished, PeekSorted, PeekData, Calls,
                writeVars, flagVars
  <2>2. QueueStays
    BY <1>0, <1>1, <2>1, StreamStutters DEF QueueStays
  <2>3. QED
    BY <2>2
<1>5. CASE Destroy
  <2>1. wire' = wire /\ Queue' = <<>>
    BY <1>5 DEF Destroy, Queue
  <2>2. QED
    BY <2>1, StreamDiscards DEF StreamMoves
<1>6. QED
  BY <1>3, <1>4, <1>5 DEF Client, StreamMoves

\* A send that completes takes bytes off the front of the mapped queue.
LEMMA StreamNetwork ==
    ASSUME SocketType, WriteSide, AckFits, SocketType', WriteSide', AckFits', ~Spoilt', Network
    PROVE  StreamMoves \/ QueueStays
<1>0. /\ alive /\ alive' = alive /\ causes \subseteq causes' /\ causes' \cap WriteSpoilers = {}
      /\ fault' = "none" /\ m_writeBuffers' = m_writeBuffers
      /\ sends \in Seq(Buffer) /\ handlers \in Seq(Handler) /\ handlers' \in Seq(Handler)
  <2>1. alive /\ sends \in Seq(Buffer) /\ handlers \in Seq(Handler) /\ handlers' \in Seq(Handler)
    <3>1. sends # <<>> \/ recvs > 0
      BY DEF Network, SendCompletes, ReceiveCompletes, Fails
    <3>2. QED
      BY <3>1 DEF SocketType, QueuesType, ReceivesCounted
  <2>2. alive' = alive /\ m_writeBuffers' = m_writeBuffers
    BY DEF Network, SendCompletes, ReceiveCompletes, Fails, flagVars, writeVars
  <2>3. causes \subseteq causes'
    BY NextFacts DEF Next
  <2>4. causes' \cap WriteSpoilers = {} /\ fault' = "none"
    BY DEF Spoilt
  <2>5. QED
    BY <2>1, <2>2, <2>3, <2>4
<1>1. Unspoilt /\ Unspoilt'
  BY <1>0 DEF Unspoilt, WriteSpoilers
<1>2. CASE SendCompletes
  <2> DEFINE b == Head(m_writeBuffers)
  <2>1. sends # <<>> /\ Head(sends) = b /\ m_writeBuffers # <<>>
    <3>1. sends # <<>>
      BY <1>2 DEF SendCompletes
    <3>2. WriteInFlight
      BY <3>1 DEF WriteInFlight
    <3>3. QED
      BY <1>1, <3>1, <3>2, InFlightCounted DEF WriteSide, FrontInFlight, WritesInFlight, Unspoilt
  <2>2. Count(handlers, "written") = 0
    <3>1. /\ Count(handlers, "written") \in Nat /\ Len(sends) \in Nat /\ Len(sends) # 0
          /\ Len(sends) + Count(handlers, "written") <= 1
      BY <1>1, <2>1, InFlightCounted DEF WriteSide, WritesInFlight, Unspoilt
    <3>2. QED
      BY <3>1
  <2>3. /\ m_writeBuffers \in Seq(Buffer) /\ BytesOf(m_writeBuffers) \in Seq(Byte)
        /\ Queue = BytesOf(m_writeBuffers)
    BY <1>1, <2>2, QueueFacts, AfterNone
  <2>4. /\ Bytes(b) \in Seq(Byte) /\ Len(Bytes(b)) = b.len /\ b \in Buffer
        /\ BytesOf(Tail(m_writeBuffers)) \in Seq(Byte)
        /\ Queue = Bytes(b) \o BytesOf(Tail(m_writeBuffers))
    BY <2>1, <2>3, BytesOfBuffer, BytesOfType, BytesOfFront, HeadTailProperties
  <2>5. PICK n \in 1..Head(sends).len :
          /\ wire' = wire \o SubSeq(Bytes(Head(sends)), 1, n)
          /\ handlers' = Append(handlers, [kind |-> "written", n |-> n, ec |-> FALSE])
    BY <1>0, <1>2 DEF SendCompletes
  <2>6. n \in 1..b.len /\ n \in Nat
    BY <2>1, <2>5, BytesOfBuffer, <2>4
  <2>7. Sent' = n
    <3> DEFINE x == [kind |-> "written", n |-> n, ec |-> FALSE]
    <3>1. x \in Handler /\ x.kind = "written" /\ ~x.ec /\ x.n = n /\ handlers' = Append(handlers, x)
      BY <2>5, <2>6, FALSE \in BOOLEAN DEF Handler
    <3> HIDE DEF x
    <3>2. Acked(handlers', n)
      BY <1>0, <3>1, AckedAppend
    <3>3. Count(handlers', "written") = 1
      <4>1. handlers \in Seq(Handler)
        BY <1>0
      <4>2. Count(handlers', "written") = Count(handlers, "written") + 1
        BY <3>1, <4>1, CompletionAdds
      <4>3. QED
        BY <2>2, <4>2
    <3>4. QED
      BY <1>0, <3>2, <3>3, SentOfOne, SentIsSentOf
  <2>8. Queue' = After(Queue, n)
    BY <1>0, <2>3, <2>7 DEF Queue
  <2>9. SubSeq(Queue, 1, n) = SubSeq(Bytes(b), 1, n) /\ n \in 1..Len(Queue)
    BY <2>4, <2>6, FirstOfConcat
  <2>10. Stream!Send
    BY <2>1, <2>5, <2>8, <2>9, StreamSends
  <2>11. QED
    BY <2>10 DEF StreamMoves
<1>3. CASE ReceiveCompletes \/ Fails
  <2>1. wire' = wire
    BY <1>3 DEF ReceiveCompletes, Fails, writeVars
  <2>2. PICK x \in Handler : (x.kind = "read" \/ x.ec) /\ handlers' = Append(handlers, x)
    <3>1. CASE ReceiveCompletes
      <4> DEFINE x == [kind |-> "read", n |-> 1, ec |-> FALSE]
      <4>1. x \in Handler /\ x.kind = "read" /\ handlers' = Append(handlers, x)
        BY <3>1, FALSE \in BOOLEAN DEF ReceiveCompletes, Handler
      <4> HIDE DEF x
      <4>2. QED
        BY <4>1
    <3>2. CASE Fails
      BY <3>2, AbortedIsHandler DEF Fails
    <3>3. QED
      BY <1>3, <3>1, <3>2
  <2>3. \A n : Acked(handlers', n) <=> Acked(handlers, n)
    BY <1>0, <2>2, AckedAppend
  <2>4. QueueStays
    BY <1>0, <1>1, <2>1, <2>3, StreamStutters DEF QueueStays
  <2>5. QED
    BY <2>4
<1>4. QED
  BY <1>2, <1>3 DEF Network

\* The io thread accounts for bytes that have left: the mapped queue stays.
LEMMA StreamIoThread ==
    ASSUME SocketType, WriteSide, AckFits, SocketType', WriteSide', AckFits', ~Spoilt', IoThread
    PROVE  QueueStays
<1>0. /\ alive' = alive /\ causes \subseteq causes' /\ causes' \cap WriteSpoilers = {}
      /\ fault' = "none" /\ wire' = wire
  <2>1. alive' = alive /\ wire' = wire
    BY DEF IoThread, RunsOnDestroyed, RunsError, BytesWrittenShort, BytesWritten, BytesRead,
           flagVars, writeVars
  <2>2. causes \subseteq causes'
    BY NextFacts DEF Next
  <2>3. QED
    BY <2>1, <2>2 DEF Spoilt
<1>1. alive => Unspoilt /\ Unspoilt'
  BY <1>0 DEF Unspoilt, WriteSpoilers
<1>2. CASE RunsOnDestroyed \/ BytesWrittenShort
  BY <1>0, <1>2 DEF RunsOnDestroyed, BytesWrittenShort, WriteSpoilers
<1>3. CASE BytesWritten
  <2> DEFINE b == Head(m_writeBuffers)
             h == Head(handlers)
  <2>1. /\ alive /\ handlers \in Seq(Handler) /\ handlers # <<>> /\ handlers' \in Seq(Handler)
        /\ h.kind = "written" /\ ~h.ec /\ ~TooShort(h.n) /\ m_writeBuffers' = Popped
        /\ Count(handlers, "written") \in Nat /\ Count(handlers', "written") \in Nat
        /\ Count(handlers', "written") + 1 <= Count(handlers, "written")
    <3>1. /\ alive /\ ~h.ec /\ ~TooShort(h.n) /\ m_writeBuffers' = Popped
          /\ Runs("written")
      BY <1>3 DEF BytesWritten
    <3>2. handlers \in Seq(Handler)
      BY DEF SocketType, QueuesType
    <3>3. QED
      BY <3>1, <3>2, RunsTakesHead
  <2>2. /\ Count(handlers, "written") <= 1 /\ m_writeBuffers \in Seq(Buffer)
        /\ m_writeBuffers # <<>> =>
             /\ Sent \in 0..Len(Bytes(b))
             /\ Queue = After(Bytes(b), Sent) \o BytesOf(Tail(m_writeBuffers))
    BY <1>1, <2>1, QueueFacts
  <2>3. m_writeBuffers # <<>>
    <3>1. WriteInFlight
      BY <2>1, InFlightCounted
    <3>2. QED
      BY <1>1, <2>1, <3>1, InFlightCounted DEF WriteSide, WritesInFlight, Unspoilt
  <2>4. Sent = h.n /\ h.n \in Nat
    <3>1. Acked(handlers, h.n)
      BY <2>1, AckedTail
    <3>2. QED
      BY <2>1, <2>2, <3>1, SentOfOne, SentIsSentOf
  <2>5. Bytes(b) \in Seq(Byte) /\ Len(Bytes(b)) = b.len /\ b.len \in Nat
    BY <2>2, <2>3, BytesOfBuffer, HeadTailProperties
  <2>6. Sent = Len(Bytes(b))
    BY <2>1, <2>2, <2>3, <2>4, <2>5 DEF TooShort
  <2>7. BytesOf(Tail(m_writeBuffers)) \in Seq(Byte)
    BY <2>2, <2>3, BytesOfType, HeadTailProperties
  <2>8. Queue = BytesOf(Tail(m_writeBuffers))
    <3>1. After(Bytes(b), Len(Bytes(b))) = <<>>
      BY <2>5, AfterNone
    <3>2. <<>> \o BytesOf(Tail(m_writeBuffers)) = BytesOf(Tail(m_writeBuffers))
      BY <2>7, ConcatEmptySeq
    <3>3. QED
      BY <2>2, <2>3, <2>6, <3>1, <3>2
  <2>9. Sent' = 0
    <3>1. Count(handlers', "written") = 0
      BY <2>1, <2>2
    <3>2. \A n : ~Acked(handlers', n)
      BY <2>1, <3>1, SentOfOne
    <3>3. QED
      BY <2>1, <3>1, <3>2, SentOfOne, SentIsSentOf
  <2>10. Queue' = After(BytesOf(Tail(m_writeBuffers)), 0)
    BY <1>0, <2>1, <2>3, <2>9 DEF Queue, Popped
  <2>11. After(BytesOf(Tail(m_writeBuffers)), 0) = BytesOf(Tail(m_writeBuffers))
    BY <2>7, AfterNone
  <2>12. QED
    BY <1>0, <2>8, <2>10, <2>11 DEF QueueStays
<1>4. CASE RunsError \/ BytesRead
  <2>1. alive /\ m_writeBuffers' = m_writeBuffers
    BY <1>4 DEF RunsError, BytesRead, writeVars
  <2>2. /\ handlers \in Seq(Handler) /\ handlers # <<>> /\ handlers' = Tail(handlers)
        /\ Head(handlers).kind = "read" \/ Head(handlers).ec
    <3>1. handlers # <<>> /\ handlers' = Tail(handlers)
      BY <1>4 DEF RunsError, BytesRead, Runs
    <3>2. Head(handlers).kind = "read" \/ Head(handlers).ec
      BY <1>4 DEF RunsError, BytesRead, Runs
    <3>3. QED
      BY <3>1, <3>2 DEF SocketType, QueuesType
  <2>3. \A n : Acked(handlers', n) <=> Acked(handlers, n)
    BY <2>2, AckedTail
  <2>4. QED
    BY <1>0, <1>1, <2>1, <2>3, StreamStutters DEF QueueStays
<1>5. QED
  BY <1>2, <1>3, <1>4 DEF IoThread

LEMMA SpoiltIsBoolean == Spoilt \in BOOLEAN /\ Spoilt' \in BOOLEAN
BY DEF Spoilt

LEMMA SpoiltStays == [Next]_vars /\ Spoilt => Spoilt'
<1>1. Next /\ Spoilt => Spoilt'
  BY NextFacts DEF Spoilt
<1>2. UNCHANGED vars /\ Spoilt => Spoilt'
  BY DEF Spoilt, vars
<1>3. QED
  BY <1>1, <1>2

LEMMA StreamStep ==
    ASSUME SocketType, WriteSide, AckFits, SocketType', WriteSide', AckFits', [Next]_vars
    PROVE  [Stream!Next]_<<Queue, wire, Spoilt>>
<1>1. CASE Spoilt'
  <2>1. Spoilt' = Spoilt \/ (~Spoilt /\ Spoilt')
    BY <1>1, SpoiltIsBoolean
  <2>2. CASE Spoilt
    <3>1. Spoilt' = Spoilt /\ Spoilt
      BY <2>1, <2>2
    <3>2. QED
      BY <3>1 DEF Stream!Next, Spoilt
  <2>3. CASE ~Spoilt
    BY <1>1, <2>3 DEF Stream!Next, Spoilt
  <2>4. QED
    BY <2>2, <2>3
<1>2. CASE ~Spoilt'
  <2>1. ~Spoilt /\ Spoilt' = Spoilt
    BY <1>2, SpoiltStays, SpoiltIsBoolean
  <2>2. StreamMoves \/ QueueStays
    <3>1. CASE Next
      BY <1>2, <3>1, StreamClient, StreamNetwork, StreamIoThread DEF Next
    <3>2. CASE UNCHANGED vars
      BY <3>2 DEF vars, writeVars, flagVars, QueueStays, Queue, After, Sent, Acknowledged, Pending
    <3>3. QED
      BY <3>1, <3>2
  <2>3. StreamMoves => Stream!Next
    BY <2>1 DEF StreamMoves, Stream!Next, Spoilt
  <2>4. QED
    BY <2>1, <2>2, <2>3 DEF QueueStays
<1>3. QED
  BY <1>1, <1>2

LEMMA StreamInit == Init => Stream!Init
<1> SUFFICES ASSUME Init PROVE Stream!Init
  OBVIOUS
<1>1. m_writeBuffers = <<>> /\ handlers = <<>> /\ wire = <<>> /\ causes = {} /\ fault = "none"
  BY DEF Init
<1>2. BytesOf(<<>>) = <<>>
  <2>1. <<>> \in Seq(Buffer)
    OBVIOUS
  <2>2. QED
    BY <2>1, BytesOfType
<1>3. Queue = <<>>
  <2>1. Acknowledged = {}
    BY <1>1 DEF Acknowledged, Pending
  <2>2. Sent = 0
    BY <2>1 DEF Sent
  <2>3. After(<<>>, 0) = <<>>
    BY DEF After
  <2>4. QED
    BY <1>1, <1>2, <2>2, <2>3 DEF Queue
<1>4. ~Spoilt
  BY <1>1 DEF Spoilt
<1>5. QED
  BY <1>1, <1>3, <1>4, SpoiltIsBoolean DEF Stream!Init, Queue, After, Spoilt

\* Refinement, socket.h:312-354: the write queue, the send in flight and the handler that waits
\* are together a stream of bytes that leave in the order of the queue, each of them once, for
\* any lengths of buffers, until the client or the network spoils the queue.
THEOREM SocketImplementsStream == Spec => ImplementsStream
<1>1. Init => SocketType /\ WriteSide /\ AckFits
  BY SocketTypeInit, WriteSideInit, AckFitsInit, SocketsAssumption
<1>2. SocketType /\ WriteSide /\ AckFits /\ [Next]_vars => SocketType' /\ WriteSide' /\ AckFits'
  BY SocketTypeStep, WriteSideStep, AckFitsStep, SocketsAssumption
<1>3. SocketType /\ WriteSide /\ AckFits /\ SocketType' /\ WriteSide' /\ AckFits' /\ [Next]_vars
        => [Stream!Next]_<<Queue, wire, Spoilt>>
  BY StreamStep
<1>4. Init => Stream!Init
  BY StreamInit
<1>5. QED
  BY <1>1, <1>2, <1>3, <1>4, PTL DEF Spec, ImplementsStream, Stream!Spec, Queue, Spoilt, After

-----------------------------------------------------------------------------
(* The server: one connection at a time waits, for an accept or for its handler. *)

Outcome == [connection : Nat, ec : BOOLEAN]
ServerType == /\ connections \in Seq({"pending", "started", "deleted"})
              /\ acceptHandlers \in Seq(Outcome)
NobodyWaits == accepts = {} /\ acceptHandlers = <<>> /\ Server!Waiting = {}
OneIsAccepted == \E c : accepts = {c} /\ acceptHandlers = <<>> /\ Server!Waiting = {c}
OneIsHandled == \E x \in Outcome : /\ accepts = {} /\ acceptHandlers = <<x>>
                                   /\ Server!Waiting = {x.connection}
NoneStarted == userStarts = 0 => NobodyWaits /\ acceptor = "new"
OneWaits == /\ ServerType /\ NoneStarted
            /\ NobodyWaits \/ OneIsAccepted \/ OneIsHandled

\* Servers takes these operators from the same library.
LEMMA SameCardinality == \A S : Server!Cardinality(S) = Cardinality(S)
BY DEF Server!Cardinality, Cardinality, Server!IsFiniteSet, IsFiniteSet

LEMMA OneWaitsSuffices == OneWaits => ConnectionsAccounted
<1> SUFFICES ASSUME OneWaits PROVE ConnectionsAccounted
  OBVIOUS
<1> DEFINE S == Server!Waiting
<1>1. /\ S = {} \/ \E c : S = {c}
      /\ \/ accepts = S /\ Server!Queued = {}
         \/ accepts = {} /\ Server!Queued = S
  <2>1. DOMAIN <<>> = {} /\ \A x : DOMAIN <<x>> = {1} /\ <<x>>[1] = x
    OBVIOUS
  <2>2. CASE NobodyWaits
    <3>1. DOMAIN acceptHandlers = {}
      BY <2>1, <2>2 DEF NobodyWaits
    <3>2. Server!Queued = {}
      BY <3>1 DEF Server!Queued
    <3>3. QED
      BY <2>2, <3>2 DEF NobodyWaits
  <2>3. CASE OneIsAccepted
    <3>1. PICK c : accepts = {c} /\ acceptHandlers = <<>> /\ Server!Waiting = {c}
      BY <2>3 DEF OneIsAccepted
    <3>2. DOMAIN acceptHandlers = {}
      BY <2>1, <3>1
    <3>3. Server!Queued = {}
      BY <3>2 DEF Server!Queued
    <3>4. QED
      BY <3>1, <3>3
  <2>4. CASE OneIsHandled
    <3>1. PICK x \in Outcome : /\ accepts = {} /\ acceptHandlers = <<x>>
                               /\ Server!Waiting = {x.connection}
      BY <2>4 DEF OneIsHandled
    <3>2. DOMAIN acceptHandlers = {1} /\ acceptHandlers[1] = x
      BY <2>1, <3>1
    <3>3. Server!Queued = {x.connection}
      BY <3>2 DEF Server!Queued
    <3>4. QED
      BY <3>1, <3>3
  <2>5. QED
    BY <2>2, <2>3, <2>4 DEF OneWaits
<1>2. Cardinality(S) \in {0, 1}
  BY <1>1, FS_EmptySet, FS_Singleton
<1>3. Cardinality(S) <= 1
  BY <1>2
<1>4. Server!Waiting = accepts \cup Server!Queued /\ accepts \cap Server!Queued = {}
  BY <1>1
<1>5. QED
  BY <1>1, <1>3, <1>4, SameCardinality DEF ConnectionsAccounted, Server!ConnectionsAccounted

\* A connection is appended that waits.
LEMMA WaitingAppend ==
    ASSUME NEW cs \in Seq({"pending", "started", "deleted"}), connections' = Append(cs, "pending")
    PROVE  /\ connections' \in Seq({"pending", "started", "deleted"})
           /\ Server!Waiting' = {c \in DOMAIN cs : cs[c] = "pending"} \cup {Len(cs) + 1}
<1>1. /\ Len(cs) \in Nat /\ DOMAIN cs = 1..Len(cs) /\ DOMAIN connections' = 1..(Len(cs) + 1)
      /\ connections'[Len(cs) + 1] = "pending" /\ \A k \in 1..Len(cs) : connections'[k] = cs[k]
      /\ connections' \in Seq({"pending", "started", "deleted"})
  BY AppendProperties, LenProperties
<1>2. QED
  BY <1>1 DEF Server!Waiting

\* A connection that waited is started or deleted.
LEMMA WaitingEnds ==
    ASSUME connections \in Seq({"pending", "started", "deleted"}), NEW c \in DOMAIN connections,
           NEW what \in {"started", "deleted"}
    PROVE  LET cs == [connections EXCEPT ![c] = what]
           IN  /\ cs \in Seq({"pending", "started", "deleted"}) /\ Len(cs) = Len(connections)
               /\ {k \in DOMAIN cs : cs[k] = "pending"} = Server!Waiting \ {c}
<1> DEFINE cs == [connections EXCEPT ![c] = what]
<1>1. connections \in [1..Len(connections) -> {"pending", "started", "deleted"}]
      /\ Len(connections) \in Nat /\ DOMAIN connections = 1..Len(connections)
  BY LenProperties
<1>2. cs \in [1..Len(connections) -> {"pending", "started", "deleted"}]
  BY <1>1
<1>3. cs \in Seq({"pending", "started", "deleted"})
  BY <1>1, <1>2, SeqDef
<1>4. Len(cs) = Len(connections)
  BY <1>1, <1>2, <1>3, LenProperties
<1>5. {k \in DOMAIN cs : cs[k] = "pending"} = Server!Waiting \ {c}
  BY <1>1 DEF Server!Waiting
<1>6. QED
  BY <1>3, <1>4, <1>5

LEMMA AtMostOneToSeq == Server!SetToSeq({}) = <<>> /\ \A x : Server!SetToSeq({x}) = <<x>>
<1>1. Server!SetToSeq({}) = <<>>
  <2>1. Server!Cardinality({}) = 0
    BY SameCardinality, FS_EmptySet
  <2>2. Server!SetToSeq({}) = CHOOSE f \in [1..0 -> {}] : Server!IsInjective(f)
    BY <2>1 DEF Server!SetToSeq
  <2>3. \A f \in [1..0 -> {}] : f = <<>>
    OBVIOUS
  <2>4. <<>> \in [1..0 -> {}] /\ Server!IsInjective(<<>>)
    BY DEF Server!IsInjective
  <2>5. \E f \in [1..0 -> {}] : Server!IsInjective(f)
    BY <2>4
  <2>6. (CHOOSE f \in [1..0 -> {}] : Server!IsInjective(f)) \in [1..0 -> {}]
    BY <2>5
  <2>7. QED
    BY <2>2, <2>3, <2>6
<1>2. ASSUME NEW x PROVE Server!SetToSeq({x}) = <<x>>
  <2>1. Server!Cardinality({x}) = 1
    BY SameCardinality, FS_Singleton
  <2>2. Server!SetToSeq({x}) = CHOOSE f \in [1..1 -> {x}] : Server!IsInjective(f)
    BY <2>1 DEF Server!SetToSeq
  <2>3. \A f \in [1..1 -> {x}] : f = <<x>>
    OBVIOUS
  <2>4. <<x>> \in [1..1 -> {x}] /\ Server!IsInjective(<<x>>)
    BY DEF Server!IsInjective
  <2>5. \E f \in [1..1 -> {x}] : Server!IsInjective(f)
    BY <2>4
  <2>6. (CHOOSE f \in [1..1 -> {x}] : Server!IsInjective(f)) \in [1..1 -> {x}]
    BY <2>5
  <2>7. QED
    BY <2>2, <2>3, <2>6
<1>3. QED
  BY <1>1, <1>2

\* The connections that wait exist.
LEMMA WaitingExist ==
    ASSUME OneWaits
    PROVE  /\ DOMAIN connections = 1..Len(connections) /\ Len(connections) \in Nat
           /\ Server!Waiting \subseteq 1..Len(connections)
BY LenProperties DEF OneWaits, ServerType, Server!Waiting

LEMMA OneWaitsStep ==
    ASSUME OneWaits, Server!Next
    PROVE  OneWaits'
<1>0. /\ DOMAIN connections = 1..Len(connections) /\ Len(connections) \in Nat
      /\ Server!Waiting \subseteq 1..Len(connections)
      /\ connections \in Seq({"pending", "started", "deleted"})
      /\ acceptHandlers \in Seq(Outcome)
  BY WaitingExist DEF OneWaits, ServerType
<1>1. CASE Server!CallStart
  <2>1. userStarts' = 1 /\ acceptHandlers' = acceptHandlers
    BY <1>1 DEF Server!CallStart
  <2>2. CASE acceptor = "closed"
    <3>1. accepts' = accepts /\ connections' = connections
      BY <1>1, <2>2 DEF Server!CallStart, Server!Start
    <3>2. Server!Waiting' = Server!Waiting
      BY <3>1 DEF Server!Waiting
    <3>3. NobodyWaits' \/ OneIsAccepted' \/ OneIsHandled'
      BY <2>1, <3>1, <3>2 DEF OneWaits, NobodyWaits, OneIsAccepted, OneIsHandled
    <3>4. QED
      BY <2>1, <3>1, <3>3 DEF OneWaits, ServerType, NoneStarted
  <2>3. CASE acceptor # "closed"
    <3>1. /\ connections' = Append(connections, "pending")
          /\ accepts' = accepts \cup {Len(connections) + 1} /\ userStarts = 0
      BY <1>1, <2>3 DEF Server!CallStart, Server!Start
    <3>2. accepts = {} /\ acceptHandlers = <<>> /\ Server!Waiting = {}
      BY <3>1 DEF OneWaits, NoneStarted, NobodyWaits
    <3>3. /\ connections' \in Seq({"pending", "started", "deleted"})
          /\ Server!Waiting' = Server!Waiting \cup {Len(connections) + 1}
      BY <1>0, <3>1, WaitingAppend DEF Server!Waiting
    <3>4. OneIsAccepted'
      BY <2>1, <3>1, <3>2, <3>3 DEF OneIsAccepted
    <3>5. QED
      BY <1>0, <2>1, <3>3, <3>4 DEF OneWaits, ServerType, NoneStarted
  <2>4. QED
    BY <2>2, <2>3
<1>2. CASE Server!CallStop
  <2>1. /\ connections' = connections /\ userStarts' = userStarts /\ accepts' = {}
        /\ acceptHandlers' = acceptHandlers \o Server!SetToSeq(Server!Aborts) /\ acceptor = "open"
    BY <1>2 DEF Server!CallStop
  <2>2. userStarts' # 0 /\ Server!Waiting' = Server!Waiting
    BY <2>1 DEF OneWaits, NoneStarted, Server!Waiting
  <2>3. CASE accepts = {}
    <3>1. Server!Aborts = {}
      BY <2>3 DEF Server!Aborts
    <3>2. acceptHandlers' = acceptHandlers
      BY <1>0, <2>1, <3>1, AtMostOneToSeq, ConcatEmptySeq
    <3>3. QED
      BY <2>1, <2>2, <2>3, <3>2
      DEF OneWaits, ServerType, NoneStarted, NobodyWaits, OneIsAccepted, OneIsHandled
  <2>4. CASE accepts # {}
    <3>1. PICK c : accepts = {c} /\ acceptHandlers = <<>> /\ Server!Waiting = {c}
      BY <2>4 DEF OneWaits, NobodyWaits, OneIsAccepted, OneIsHandled
    <3> DEFINE x == [connection |-> c, ec |-> TRUE]
    <3>2. c \in Nat
      BY <1>0, <3>1
    <3>3. x \in Outcome /\ x.connection = c
      BY <3>2, TRUE \in BOOLEAN DEF Outcome
    <3>4. Server!Aborts = {x}
      BY <3>1 DEF Server!Aborts
    <3> HIDE DEF x
    <3>5. acceptHandlers' = <<x>>
      <4>1. <<x>> \in Seq(Outcome)
        BY <3>3
      <4>2. <<>> \o <<x>> = <<x>>
        BY <4>1, ConcatEmptySeq
      <4>3. QED
        BY <2>1, <3>1, <3>4, <4>2, AtMostOneToSeq
    <3>6. OneIsHandled'
      BY <2>1, <2>2, <3>1, <3>3, <3>5 DEF OneIsHandled
    <3>7. acceptHandlers' \in Seq(Outcome)
      BY <3>3, <3>5
    <3>8. QED
      BY <1>0, <2>1, <2>2, <3>6, <3>7 DEF OneWaits, ServerType, NoneStarted
  <2>5. QED
    BY <2>3, <2>4
<1>3. CASE Server!Accepted
  <2>1. PICK c \in accepts, ec \in BOOLEAN :
          /\ accepts' = accepts \ {c}
          /\ acceptHandlers' = Append(acceptHandlers, [connection |-> c, ec |-> ec])
    BY <1>3 DEF Server!Accepted
  <2>2. connections' = connections /\ userStarts' = userStarts
    BY <1>3 DEF Server!Accepted
  <2>3. accepts = {c} /\ acceptHandlers = <<>> /\ Server!Waiting = {c}
    BY <2>1 DEF OneWaits, NobodyWaits, OneIsAccepted, OneIsHandled
  <2> DEFINE x == [connection |-> c, ec |-> ec]
  <2>4. x \in Outcome /\ x.connection = c
    <3>1. c \in Nat
      BY <1>0, <2>3
    <3>2. QED
      BY <3>1 DEF Outcome
  <2>5. acceptHandlers' = Append(<<>>, x)
    BY <2>1, <2>3
  <2> HIDE DEF x
  <2>6. acceptHandlers' = <<x>> /\ acceptHandlers' \in Seq(Outcome)
    BY <2>4, <2>5
  <2>7. accepts' = {} /\ Server!Waiting' = {c}
    BY <2>1, <2>2, <2>3 DEF Server!Waiting
  <2>8. OneIsHandled' /\ userStarts # 0
    BY <2>1, <2>4, <2>6, <2>7 DEF OneIsHandled, OneWaits, NoneStarted, NobodyWaits
  <2>9. QED
    BY <1>0, <2>2, <2>6, <2>8 DEF OneWaits, ServerType, NoneStarted
<1>4. CASE Server!HandleAccept \/ Server!HandleAcceptError
  <2>1. acceptHandlers # <<>> /\ acceptHandlers' = Tail(acceptHandlers) /\ userStarts' = userStarts
    BY <1>4 DEF Server!HandleAccept, Server!HandleAcceptError, Server!Runs
  <2>2. PICK x \in Outcome : /\ accepts = {} /\ acceptHandlers = <<x>>
                             /\ Server!Waiting = {x.connection}
    BY <2>1 DEF OneWaits, NobodyWaits, OneIsAccepted, OneIsHandled
  <2> DEFINE c == x.connection
  <2>3. /\ acceptHandlers' = <<>> /\ Head(acceptHandlers).connection = c /\ userStarts # 0
        /\ c \in DOMAIN connections
    BY <1>0, <2>1, <2>2 DEF OneWaits, NoneStarted, NobodyWaits
  <2> HIDE DEF c
  <2>4. \A what \in {"started", "deleted"} :
          LET cs == [connections EXCEPT ![c] = what]
          IN  /\ cs \in Seq({"pending", "started", "deleted"}) /\ Len(cs) = Len(connections)
              /\ {k \in DOMAIN cs : cs[k] = "pending"} = {}
    BY <1>0, <2>2, <2>3, WaitingEnds DEF c
  <2>5. acceptHandlers' \in Seq(Outcome)
    BY <2>3
  <2>6. CASE \/ connections' = Server!Started(c) /\ accepts' = accepts
             \/ connections' = Server!Deleted(c) /\ accepts' = accepts
    <3>1. /\ connections' \in Seq({"pending", "started", "deleted"})
          /\ Server!Waiting' = {}
      BY <2>4, <2>6 DEF Server!Started, Server!Deleted, Server!Waiting
    <3>2. NobodyWaits'
      BY <2>2, <2>3, <2>6, <3>1 DEF NobodyWaits
    <3>3. QED
      BY <2>1, <2>3, <2>5, <3>1, <3>2 DEF OneWaits, ServerType, NoneStarted
  <2>7. CASE /\ connections' = Append(Server!Started(c), "pending")
             /\ accepts' = accepts \cup {Len(Server!Started(c)) + 1}
    <3> DEFINE cs == Server!Started(c)
    <3>1. /\ cs \in Seq({"pending", "started", "deleted"})
          /\ {k \in DOMAIN cs : cs[k] = "pending"} = {}
      BY <2>4 DEF Server!Started
    <3> HIDE DEF cs
    <3>2. connections' = Append(cs, "pending") /\ accepts' = {Len(cs) + 1}
      BY <2>2, <2>7 DEF cs
    <3>3. /\ connections' \in Seq({"pending", "started", "deleted"})
          /\ Server!Waiting' = {Len(cs) + 1}
      BY <3>1, <3>2, WaitingAppend
    <3>4. OneIsAccepted'
      BY <2>3, <3>2, <3>3 DEF OneIsAccepted
    <3>5. QED
      BY <2>1, <2>3, <2>5, <3>3, <3>4 DEF OneWaits, ServerType, NoneStarted
  <2>8. QED
    BY <1>4, <2>3, <2>6, <2>7 DEF Server!HandleAccept, Server!HandleAcceptError
<1>5. CASE Server!StartIo \/ Server!RunReturns \/ Server!StopIo
  BY <1>5 DEF Server!StartIo, Server!RunReturns, Server!StopIo, Server!serverVars, OneWaits, ServerType,
              NoneStarted, NobodyWaits, OneIsAccepted, OneIsHandled, Server!Waiting
<1>6. QED
  BY <1>1, <1>2, <1>3, <1>4, <1>5 DEF Server!Next

\* Safety, connection.h:137-153: of the connections that the server made, at most one is neither
\* started nor deleted, and that one is in the accept that is pending or in the handler that the
\* io thread has still to run, for any numbers of connections, starts and stops.
THEOREM OneConnectionWaits == MCSpec => []ConnectionsAccounted
<1>1. MCInit => OneWaits
  <2>1. SUFFICES ASSUME MCInit PROVE OneWaits
    OBVIOUS
  <2>2. /\ acceptor = "new" /\ accepts = {} /\ acceptHandlers = <<>> /\ connections = <<>>
    BY <2>1 DEF MCInit, Server!Init
  <2>3. ServerType
    BY <2>2 DEF ServerType
  <2>4. NobodyWaits
    BY <2>2 DEF NobodyWaits, Server!Waiting
  <2>5. QED
    BY <2>2, <2>3, <2>4 DEF OneWaits, NoneStarted
<1>2. OneWaits /\ [MCNext]_<<vars, serverVars, focus>> => OneWaits'
  <2>1. SUFFICES ASSUME OneWaits, [MCNext]_<<vars, serverVars, focus>> PROVE OneWaits'
    OBVIOUS
  <2>2. CASE Server!Next
    BY <2>1, <2>2, OneWaitsStep
  <2>3. CASE UNCHANGED serverVars
    BY <2>1, <2>3 DEF serverVars, OneWaits, ServerType, NoneStarted, NobodyWaits, OneIsAccepted,
                      OneIsHandled, Server!Waiting
  <2>4. QED
    BY <2>1, <2>2, <2>3 DEF MCNext
<1>3. OneWaits => ConnectionsAccounted
  BY OneWaitsSuffices
<1>4. QED
  BY <1>1, <1>2, <1>3, PTL DEF MCSpec
====
