---- MODULE MCLocks ----
\* The mutexes and the tracer that takes none: each behaviour is of one of them.
EXTENDS Locks, Tracers, TLC

VARIABLE focus

MCInit == LocksInit /\ TracersInit /\ focus \in {"locks", "tracer"}
MCNext == /\ focus' = focus
          /\ \/ focus = "locks" /\ LocksNext /\ UNCHANGED tracerVars
             \/ focus = "tracer" /\ TracersNext /\ UNCHANGED lockVars
MCSpec == MCInit /\ [][MCNext]_<<lockVars, tracerVars, focus>>
MCSymmetry == Permutations(Thread)
====
