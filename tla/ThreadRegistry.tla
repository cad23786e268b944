--------------------------- MODULE ThreadRegistry ---------------------------
(***************************************************************************)
(* What the Application promises about the threads it is given, with none  *)
(* of the queues, flags and vectors that it takes: a thread is added, asks *)
(* to be removed when it has run, is removed once after that, and          *)
(* "ThreadsGone" is announced by no removal but that of the last one.      *)
(***************************************************************************)
CONSTANT Thread

VARIABLES
    status,   \* "absent", "added", "leaving" or "removed", for every thread
    gone      \* ThreadsGone has been announced

Init ==
    /\ status = [t \in Thread |-> "absent"]
    /\ gone = FALSE

Add(t) ==
    /\ status[t] = "absent"
    /\ status' = [status EXCEPT ![t] = "added"]
    /\ UNCHANGED gone

Leave(t) ==
    /\ status[t] = "added"
    /\ status' = [status EXCEPT ![t] = "leaving"]
    /\ UNCHANGED gone

RemoveThread(t) ==
    /\ status[t] = "leaving"
    /\ status' = [status EXCEPT ![t] = "removed"]
    /\ gone' \in {gone, gone \/ \A u \in Thread : status'[u] \in {"absent", "removed"}}

Next == \E t \in Thread : Add(t) \/ Leave(t) \/ RemoveThread(t)

Spec == Init /\ [][Next]_<<status, gone>>
=============================================================================
