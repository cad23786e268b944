---- MODULE Sockets ----
\* The read and write queues of a Socket (socket.h) in its asynchronous mode: the client's calls,
\* the operations that are in flight in asio and the handlers that the io thread runs.
\* The mutexes of the queues make each call and each handler one step.
EXTENDS Naturals, Sequences, SequencesExt, FiniteSets

CONSTANTS Lengths,    \* the lengths of the buffers that are written
          MaxWrites,  \* bound on the buffers written
          MaxIn,      \* bound on the chunks that the peer sends
          MaxCalls    \* bound on the client's other calls

ASSUME SocketsAssumption ==
    Lengths \subseteq Nat \ {0} /\ MaxWrites \in Nat /\ MaxIn \in Nat /\ MaxCalls \in Nat

VARIABLES m_writeBuffers, m_readBuffers,
          m_recv_buf,     \* the chunk that the last receive put there
          m_finished, m_closing,
          m_handler,      \* whether the socket has a SocketHandler
          alive,          \* whether the Socket has not been destroyed
          sends,          \* async_send operations in flight: the buffers they point to
          recvs,          \* async_receive operations in flight
          handlers,       \* completion handlers that wait for the io thread
          wire,           \* the bytes sent
          arrived,        \* chunks that were received, in order, as a count
          taken,          \* the chunks that peekData() handed out and flushed
          written, issued,
          causes,         \* what the client or the network did that spoils the queues
          fault

writeVars == <<m_writeBuffers, sends, wire, written>>
readVars == <<m_readBuffers, m_recv_buf, recvs, arrived, taken>>
flagVars == <<m_finished, m_closing, m_handler, alive>>
vars == <<writeVars, readVars, flagVars, handlers, issued, causes, fault>>

Bytes(b) == [k \in 1..b.len |-> <<b.id, k>>]
BytesOf(q) == FlattenSeq([k \in DOMAIN q |-> Bytes(q[k])])

Init == /\ m_writeBuffers = <<>> /\ m_readBuffers = <<>> /\ m_recv_buf = 0
        /\ m_finished = FALSE /\ m_closing = FALSE /\ m_handler \in BOOLEAN /\ alive = TRUE
        /\ sends = <<>> /\ recvs = 0 /\ handlers = <<>> /\ wire = <<>> /\ arrived = 0
        /\ taken = <<>> /\ written = 0 /\ issued = 0 /\ causes = {} /\ fault = "none"

Pending(kind) == {k \in DOMAIN handlers : handlers[k].kind = kind}
WriteInFlight == sends # <<>> \/ Pending("written") # {}
ReadInFlight == recvs > 0 \/ Pending("read") # {}

-----------------------------------------------------------------------------
\* The client.

Calls == alive /\ fault = "none" /\ issued < MaxCalls /\ issued' = issued + 1

Write(len, prepend) ==
  /\ alive /\ fault = "none" /\ written < MaxWrites /\ written' = written + 1
  /\ LET b == [id |-> written + 1, len |-> len]
     IN  m_writeBuffers' = IF prepend THEN <<b>> \o m_writeBuffers ELSE Append(m_writeBuffers, b)
  /\ causes' = IF prepend /\ WriteInFlight THEN causes \cup {"prependInFlight"} ELSE causes
  /\ UNCHANGED <<sends, wire, readVars, flagVars, handlers, issued, fault>>

\* writing(): sends the front of the queue, whose first element is not tested for.
Back0(q) == IF q = <<>> THEN <<>> ELSE <<Last(q)>>
Front0(q) == IF q = <<>> THEN <<>> ELSE <<Head(q)>>
StartsSending(q) == /\ sends' = IF m_closing THEN sends ELSE sends \o Front0(q)
                    /\ fault' = IF ~m_closing /\ q = <<>> THEN "emptyFront" ELSE "none"
CallWriting ==
  /\ Calls
  /\ StartsSending(m_writeBuffers)
  /\ causes' = causes \cup (IF m_closing THEN {} ELSE IF m_writeBuffers = <<>> THEN {"writingEmpty"}
                             ELSE IF WriteInFlight THEN {"secondWriting"} ELSE {})
  /\ UNCHANGED <<m_writeBuffers, wire, written, readVars, flagVars, handlers>>

\* reading(): one more receive.
ReadingTwice == IF m_closing THEN recvs ELSE recvs + 2
Reading == IF m_closing THEN recvs ELSE recvs + 1
CallReading == /\ Calls
               /\ recvs' = Reading
               /\ causes' = causes \cup (IF ~m_closing /\ ReadInFlight THEN {"secondReading"} ELSE {})
               /\ UNCHANGED <<writeVars, m_readBuffers, m_recv_buf, arrived, taken, flagVars,
                              handlers, fault>>

SetClosing == /\ Calls /\ m_closing' \in BOOLEAN
              /\ UNCHANGED <<writeVars, readVars, m_finished, m_handler, alive, handlers, causes,
                             fault>>
SetFinished == /\ Calls /\ m_finished' \in BOOLEAN
               /\ UNCHANGED <<writeVars, readVars, m_closing, m_handler, alive, handlers, causes,
                              fault>>

\* peekData: all of the queue or a copy of its front; flushing clears the queue either way.
Peeked(coalesce) == IF coalesce THEN m_readBuffers ELSE Front0(m_readBuffers)
FlushedFront(flush) == IF flush /\ m_readBuffers # <<>> THEN Tail(m_readBuffers) ELSE m_readBuffers
Flushed(flush) == IF flush THEN <<>> ELSE m_readBuffers
PeekData(coalesce, flush) ==
  /\ Calls
  /\ taken' = IF flush THEN taken \o Peeked(coalesce) ELSE taken
  /\ m_readBuffers' = Flushed(flush)
  /\ causes' = IF flush /\ ~coalesce /\ Len(m_readBuffers) > 1 THEN causes \cup {"flushOnly"}
               ELSE causes
  /\ fault' = IF ~coalesce /\ m_readBuffers = <<>> THEN "emptyRead" ELSE "none"
  /\ UNCHANGED <<writeVars, m_recv_buf, recvs, arrived, flagVars, handlers>>
\* The handler sorts the queue first, in an order of its own.
PeekSorted == /\ Calls /\ m_handler /\ Len(m_readBuffers) > 1
              /\ m_readBuffers' = Reverse(m_readBuffers) /\ causes' = causes \cup {"sorted"}
              /\ UNCHANGED <<writeVars, m_recv_buf, recvs, arrived, taken, flagVars, handlers, fault>>

\* ~Socket closes the descriptor, which aborts what is in flight; its handlers still point here.
Aborted(kind) == [kind |-> kind, n |-> 0, ec |-> TRUE]
Destroy == /\ Calls /\ alive' = FALSE
           /\ m_writeBuffers' = <<>> /\ m_readBuffers' = <<>> /\ m_handler' = FALSE
           /\ sends' = <<>> /\ recvs' = 0
           /\ handlers' = handlers \o [k \in DOMAIN sends |-> Aborted("written")]
                                   \o [k \in 1..recvs |-> Aborted("read")]
           /\ causes' = causes \cup (IF WriteInFlight \/ ReadInFlight THEN {"destroyedInFlight"}
                                                                     ELSE {})
           /\ UNCHANGED <<wire, written, m_recv_buf, arrived, taken, m_finished, m_closing, fault>>

-----------------------------------------------------------------------------
\* The network: operations complete in the order in which they were started.

\* A send transmits some of its buffer, which must still be there.
SendsFrom(b) == \E k \in DOMAIN m_writeBuffers : m_writeBuffers[k].id = b.id
SendCompletes ==
  /\ fault = "none" /\ sends # <<>>
  /\ LET b == Head(sends)
     IN  \/ /\ SendsFrom(b)
            /\ \E n \in 1..b.len :
                 /\ wire' = wire \o SubSeq(Bytes(b), 1, n)
                 /\ handlers' = Append(handlers, [kind |-> "written", n |-> n, ec |-> FALSE])
            /\ fault' = "none"
         \/ ~SendsFrom(b) /\ fault' = "sendsFreedBuffer" /\ UNCHANGED <<wire, handlers>>
  /\ sends' = Tail(sends)
  /\ UNCHANGED <<m_writeBuffers, written, readVars, flagVars, issued, causes>>

\* Every receive goes to the one m_recv_buf of the socket.
ReceiveCompletes ==
  /\ fault = "none" /\ recvs > 0 /\ arrived < MaxIn
  /\ arrived' = arrived + 1 /\ m_recv_buf' = arrived + 1 /\ recvs' = recvs - 1
  /\ handlers' = Append(handlers, [kind |-> "read", n |-> 1, ec |-> FALSE])
  /\ UNCHANGED <<writeVars, m_readBuffers, taken, flagVars, issued, causes, fault>>

Fails == /\ fault = "none"
         /\ \/ /\ sends # <<>> /\ sends' = Tail(sends) /\ recvs' = recvs
               /\ handlers' = Append(handlers, Aborted("written"))
            \/ /\ recvs > 0 /\ recvs' = recvs - 1 /\ sends' = sends
               /\ handlers' = Append(handlers, Aborted("read"))
         /\ causes' = causes \cup {"error"}
         /\ UNCHANGED <<m_writeBuffers, wire, written, m_readBuffers, m_recv_buf, arrived, taken,
                        flagVars, issued, fault>>

-----------------------------------------------------------------------------
\* The io thread.

Runs(kind) == /\ fault = "none" /\ handlers # <<>> /\ Head(handlers).kind = kind
              /\ handlers' = Tail(handlers)

\* A handler that was bound to a Socket that is gone locks its mutex first.
RunsOnDestroyed == /\ \E kind \in {"written", "read"} : Runs(kind)
                   /\ ~alive /\ fault' = "deadSocket"
                   /\ UNCHANGED <<writeVars, readVars, flagVars, issued, causes>>

\* error() goes to the connection or to the handler; the queues stay as they are.
RunsError == /\ \E kind \in {"written", "read"} : Runs(kind)
             /\ alive /\ Head(handlers).ec
             /\ UNCHANGED <<writeVars, readVars, flagVars, issued, causes, fault>>

\* bytesWritten, with what it counts in d: the buffers left.  Without any, d-- wraps around.
NeverShort(n) == FALSE
TooShort(n) == m_writeBuffers # <<>> /\ n < Head(m_writeBuffers).len
Popped == IF m_writeBuffers = <<>> THEN <<>> ELSE Tail(m_writeBuffers)
GoesOnAlways == TRUE
StopsAtOne == Len(Popped) > 1
GoesOn == m_writeBuffers = <<>> \/ Popped # <<>>
BytesWrittenShort == /\ Runs("written") /\ alive /\ ~Head(handlers).ec
                     /\ TooShort(Head(handlers).n)
                     /\ causes' = causes \cup {"shortWrite"}
                     /\ UNCHANGED <<writeVars, readVars, flagVars, issued, fault>>
BytesWritten ==
  /\ Runs("written") /\ alive /\ ~Head(handlers).ec /\ ~TooShort(Head(handlers).n)
  /\ m_writeBuffers' = Popped
  /\ IF GoesOn THEN StartsSending(Popped)
     ELSE /\ sends' = sends
          /\ fault' = IF m_finished /\ ~m_handler THEN "nullHandler" ELSE "none"
  /\ UNCHANGED <<wire, written, readVars, flagVars, issued, causes>>

\* bytesRead copies m_recv_buf, lets the handler process it and receives again unless finished.
\* process(): the handler may not be ready, not reply, or reply with the last word or not.
Processed == IF m_handler THEN {m_finished, TRUE, FALSE} ELSE {m_finished}
BytesRead == /\ Runs("read") /\ alive /\ ~Head(handlers).ec
             /\ m_readBuffers' = Append(m_readBuffers, m_recv_buf)
             /\ m_finished' \in Processed
             /\ recvs' = IF m_finished' THEN recvs ELSE Reading
             /\ UNCHANGED <<writeVars, m_recv_buf, arrived, taken, m_closing, m_handler, alive,
                            issued, causes, fault>>

-----------------------------------------------------------------------------
Client == \/ \E len \in Lengths, prepend \in BOOLEAN : Write(len, prepend)
          \/ CallWriting \/ CallReading \/ SetClosing \/ SetFinished
          \/ \E coalesce, flush \in BOOLEAN : PeekData(coalesce, flush)
          \/ PeekSorted \/ Destroy
Network == SendCompletes \/ ReceiveCompletes \/ Fails
IoThread == RunsOnDestroyed \/ RunsError \/ BytesWrittenShort \/ BytesWritten \/ BytesRead

Next == Client \/ Network \/ IoThread

\* Sends that were started complete, and the io thread runs what waits for it.
Fairness == WF_vars(SendCompletes) /\ WF_vars(IoThread)
Spec == Init /\ [][Next]_vars /\ Fairness

-----------------------------------------------------------------------------
WriteSpoilers == {"prependInFlight", "secondWriting", "shortWrite"}
ReadSpoilers == {"secondReading", "flushOnly", "sorted"}
AllCauses == WriteSpoilers \cup ReadSpoilers \cup {"writingEmpty", "destroyedInFlight", "error"}

\* Type invariant.
TypeOK ==
  /\ m_writeBuffers \in Seq([id : 1..MaxWrites, len : Lengths])
  /\ m_readBuffers \in Seq(0..MaxIn) /\ m_recv_buf \in 0..MaxIn
  /\ {m_finished, m_closing, m_handler, alive} \subseteq BOOLEAN
  /\ sends \in Seq([id : 1..MaxWrites, len : Lengths]) /\ recvs \in 0..MaxCalls
  /\ handlers \in Seq([kind : {"written", "read"}, n : Nat, ec : BOOLEAN])
  /\ wire \in Seq((1..MaxWrites) \X Nat) /\ arrived \in 0..MaxIn
  /\ written \in 0..MaxWrites /\ issued \in 0..MaxCalls /\ causes \subseteq AllCauses
  /\ fault \in {"none", "emptyFront", "emptyRead", "sendsFreedBuffer", "nullHandler", "deadSocket"}

\* Safety, socket.h:340-350: one write at a time is in flight and what was sent is the front of the
\* queue, so that the buffer taken off is the one that was sent, unless writing() was called
\* with a write in flight or a buffer was prepended to one.  A short write changes nothing: its
\* buffer stays at the front and nothing is in flight.
SentIsFront ==
  alive /\ causes \cap {"prependInFlight", "secondWriting"} = {} =>
    /\ Len(sends) + Cardinality(Pending("written")) <= 1
    /\ sends # <<>> => m_writeBuffers # <<>> /\ Head(sends) = Head(m_writeBuffers)

\* Safety, socket.h:234: every chunk that came in is handed out once and in order, is queued or
\* waits in m_recv_buf, unless a second reading(), a sort, a Flush without Coalesce or the end of
\* the socket came between.
InputKept ==
  alive /\ causes \cap ReadSpoilers = {} =>
    taken \o m_readBuffers \o (IF \E k \in Pending("read") : ~handlers[k].ec
                                 THEN <<m_recv_buf>> ELSE <<>>)
      = [k \in 1..arrived |-> k]

\* Safety, socket.h:317, :327 and :332: what has to go wrong before the front of an
\* empty write queue is read, a freed buffer is sent or a handler runs on a destroyed socket.
FaultsHaveCauses ==
  /\ fault = "emptyFront" => causes \cap {"writingEmpty", "secondWriting"} # {}
  /\ fault = "sendsFreedBuffer" => causes \cap {"secondWriting", "prependInFlight"} # {}
  /\ fault = "deadSocket" => "destroyedInFlight" \in causes

\* The socket implements ByteStream until its queue is spoilt: bytes that a handler still has to
\* account for have left already.
Acknowledged == {k \in Pending("written") : ~handlers[k].ec}
Sent == IF Acknowledged = {} THEN 0 ELSE handlers[CHOOSE k \in Acknowledged : TRUE].n
Stream == INSTANCE ByteStream WITH
            Chunks <- {Bytes([id |-> i, len |-> n]) : i \in 1..MaxWrites, n \in Lengths},
            queue <- IF alive THEN SubSeq(BytesOf(m_writeBuffers), Sent + 1,
                                          Len(BytesOf(m_writeBuffers))) ELSE <<>>,
            spoilt <- causes \cap WriteSpoilers # {} \/ fault # "none"

\* Refinement, socket.h:312-354 against ByteStream.
ImplementsStream == Stream!Spec

\* Liveness, socket.h:347-350: a queue whose front is in flight is sent to its end, unless the
\* client or the network did one of the things above or the socket is closing.
Drains == sends # <<>> ~> m_writeBuffers = <<>> \/ causes # {} \/ fault # "none" \/ m_closing
====
