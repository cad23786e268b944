---- MODULE Servers ----
\* AsioServer, which accepts connections one after the other (connection.h), and the io thread
\* that runs the handlers of the whole program (connection.cpp).
EXTENDS Naturals, Sequences, SequencesExt, FiniteSets

CONSTANTS MaxConnections,   \* bound on the connection objects made
          MaxStarts         \* bound on the calls of start_io()

VARIABLES acceptor,    \* "new" until the first start(), then open or closed
          accepts,     \* the connections that an async_accept is pending for
          handlers,    \* accept handlers that wait for the io thread: connection and outcome
          connections, \* the connections that exist, with what became of them
          io_thread,   \* whether io_thread points to an IOService
          io,          \* its run(): new, running, or over
          stopped,     \* whether the io_service was stopped
          starts,      \* calls of start_io()
          userStarts,  \* calls of AsioServer::start() from outside
          fault

vars == <<acceptor, accepts, handlers, connections, io_thread, io, stopped, starts, userStarts,
          fault>>
serverVars == <<acceptor, accepts, handlers, connections, userStarts>>
ioVars == <<io_thread, io, stopped, starts>>

Init == /\ acceptor = "new" /\ accepts = {} /\ handlers = <<>> /\ connections = <<>>
        /\ io_thread = FALSE /\ io = "new" /\ stopped = FALSE /\ starts = 0 /\ userStarts = 0
        /\ fault = "none"

\* start(): listen() throws on a closed acceptor; otherwise a new connection waits for a peer.
Start == IF acceptor = "closed"
           THEN fault' = "listenOnClosed" /\ UNCHANGED <<acceptor, accepts, connections>>
           ELSE /\ Len(connections) < MaxConnections
                /\ acceptor' = "open"
                /\ connections' = Append(connections, "pending")
                /\ accepts' = accepts \cup {Len(connections) + 1}
                /\ fault' = "none"

CallStart == /\ fault = "none" /\ userStarts' = 1
             /\ userStarts = 0 \/ acceptor = "closed"
             /\ Start
             /\ UNCHANGED <<handlers, ioVars>>

\* stop(): closing the acceptor aborts the accept that is pending.
AbortsNothing == {}
Aborts == {[connection |-> c, ec |-> TRUE] : c \in accepts}
CallStop == /\ fault = "none" /\ acceptor = "open" /\ acceptor' = "closed"
            /\ handlers' = handlers \o SetToSeq(Aborts) /\ accepts' = {}
            /\ UNCHANGED <<connections, userStarts, ioVars, fault>>

\* A peer connects, or the accept fails.
Accepted == /\ fault = "none"
            /\ \E c \in accepts, ec \in BOOLEAN :
                 /\ accepts' = accepts \ {c}
                 /\ handlers' = Append(handlers, [connection |-> c, ec |-> ec])
            /\ UNCHANGED <<acceptor, connections, userStarts, ioVars, fault>>

\* handle_accept() on the io thread.
Runs == fault = "none" /\ io = "running" /\ ~stopped /\ handlers # <<>>
Started(c) == [connections EXCEPT ![c] = "started"]
Deleted(c) == [connections EXCEPT ![c] = "deleted"]
HandleAccept ==
  /\ Runs /\ ~Head(handlers).ec /\ handlers' = Tail(handlers)
  /\ LET cs == Started(Head(handlers).connection)
     IN  IF acceptor = "closed"
           THEN /\ fault' = "listenOnClosed" /\ connections' = cs
                /\ UNCHANGED <<acceptor, accepts>>
           ELSE /\ Len(cs) < MaxConnections
                /\ connections' = Append(cs, "pending")
                /\ accepts' = accepts \cup {Len(cs) + 1}
                /\ UNCHANGED <<acceptor, fault>>
  /\ UNCHANGED <<userStarts, ioVars>>
HandleAcceptError ==
  /\ Runs /\ Head(handlers).ec /\ handlers' = Tail(handlers)
  /\ connections' = Deleted(Head(handlers).connection)
  /\ UNCHANGED <<acceptor, accepts, userStarts, ioVars, fault>>

\* start_io(): nothing when there is an IOService; run() of a stopped io_service returns at once.
RunOf == IF stopped THEN "over" ELSE "running"
StartIo == /\ fault = "none" /\ starts < MaxStarts /\ starts' = starts + 1
           /\ IF io_thread THEN UNCHANGED <<io_thread, io>>
              ELSE io_thread' = TRUE /\ io' = RunOf
           /\ UNCHANGED <<serverVars, stopped, fault>>

\* run() returns when nothing is pending, or the io_service was stopped.
RunReturns == /\ fault = "none" /\ io = "running"
              /\ stopped \/ (accepts = {} /\ handlers = <<>>)
              /\ io' = "over"
              /\ UNCHANGED <<serverVars, io_thread, stopped, starts, fault>>

StopIo == /\ fault = "none" /\ starts > 0
          /\ IF io_thread THEN stopped' = TRUE /\ io_thread' = FALSE /\ fault' = "none"
                          ELSE fault' = "nullIoThread" /\ UNCHANGED <<stopped, io_thread>>
          /\ UNCHANGED <<serverVars, io, starts>>

Next == \/ CallStart \/ CallStop \/ Accepted \/ HandleAccept \/ HandleAcceptError
        \/ StartIo \/ RunReturns \/ StopIo

Fairness == WF_vars(HandleAccept) /\ WF_vars(HandleAcceptError)

-----------------------------------------------------------------------------
Waiting == {c \in DOMAIN connections : connections[c] = "pending"}
Queued == {handlers[k].connection : k \in DOMAIN handlers}

\* Safety, connection.h:137-153: a connection that nobody has started yet is the one that an
\* accept or its handler will start or delete: none is forgotten, none is in two accepts.
ConnectionsAccounted == /\ Waiting = accepts \cup Queued
                        /\ accepts \cap Queued = {}
                        /\ Cardinality(Waiting) <= 1

\* Liveness, connection.h:150-160: once stop() has closed the acceptor, the connection that was
\* waiting is started or deleted, as long as the io thread runs.
StopReleases ==
  acceptor = "closed" ~> Waiting = {} \/ io # "running" \/ stopped \/ fault # "none"
====
