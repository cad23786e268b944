---- MODULE MCSockets ----
\* A socket of a connection, and the server that accepts connections: two systems that only share
\* the io thread.  Each behaviour is of one of them.
EXTENDS Sockets

CONSTANTS MaxConnections, MaxStarts

VARIABLES acceptor, accepts, acceptHandlers, connections, io_thread, io, stopped, starts,
          userStarts, serverFault, focus

Server == INSTANCE Servers WITH handlers <- acceptHandlers, fault <- serverFault
serverVars == <<acceptor, accepts, acceptHandlers, connections, io_thread, io, stopped, starts,
                userStarts, serverFault>>

MCInit == Init /\ Server!Init /\ focus \in {"socket", "server"}
MCNext == \/ focus = "socket" /\ Next /\ UNCHANGED <<serverVars, focus>>
          \/ focus = "server" /\ Server!Next /\ UNCHANGED <<vars, focus>>
MCSpec == MCInit /\ [][MCNext]_<<vars, serverVars, focus>> /\ Fairness /\ Server!Fairness

\* The server's properties; Servers says what they are about.
ConnectionsAccounted == Server!ConnectionsAccounted
StopReleases == Server!StopReleases
====
