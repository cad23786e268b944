---- MODULE ByteStream ----
\* What a Socket promises its writer: the bytes that were written leave in the order of the queue,
\* each of them once.  The promise ends when the queue was spoilt.
EXTENDS Naturals, Sequences

CONSTANT Chunks    \* the byte sequences that may be written at once

VARIABLES queue,   \* the bytes that have not left yet
          wire,    \* the bytes that have left
          spoilt

Init == queue = <<>> /\ wire = <<>> /\ spoilt = FALSE

Write == \E b \in Chunks : queue' = queue \o b /\ wire' = wire
Prepend == \E b \in Chunks : queue' = b \o queue /\ wire' = wire
Send == \E n \in 1..Len(queue) : /\ wire' = wire \o SubSeq(queue, 1, n)
                                 /\ queue' = SubSeq(queue, n + 1, Len(queue))
Discard == queue' = <<>> /\ wire' = wire

Next == \/ spoilt' = spoilt /\ (spoilt \/ Write \/ Prepend \/ Send \/ Discard)
        \/ ~spoilt /\ spoilt'

Spec == Init /\ [][Next]_<<queue, wire, spoilt>>
====
