---- MODULE Tracers ----
\* The tracer (cursor.cpp), in a build with DRUMLIN_TRACE: functions are called by their place in a
\* roll that every thread adds to, and nothing locks it.
EXTENDS Naturals, Sequences, SequencesExt

CONSTANTS Tracing,    \* the threads with tracepoints, endTrace() among their calls
          Function,   \* the functions that frames may name
          Unnamed,    \* a frame whose line the regular expression does not match
          MaxFrames, MaxBlocks, MaxTracers    \* bounds

ASSUME TracersAssumption == MaxFrames \in Nat /\ MaxBlocks \in Nat /\ MaxTracers \in Nat

VARIABLES tracer,      \* the number of the Tracer that the global pointer has, 0 for none
          roll, chain, \* its members
          doing,       \* what each thread is in: an addBlock(), a write() or nothing
          written,     \* the last file written
          overlapped,  \* two threads were in the Tracer at a time
          traceFault

tracerVars == <<tracer, roll, chain, doing, written, overlapped, traceFault>>

Outside == [in |-> "nothing", of |-> 0, frames |-> <<>>, copy |-> <<>>, stack |-> <<>>, names |-> <<>>]
NoFile == [functions |-> <<>>, events |-> <<>>]

TracersInit == /\ tracer = 0 /\ roll = <<>> /\ chain = <<>> /\ doing = [t \in Tracing |-> Outside]
               /\ written = NoFile /\ overlapped = FALSE /\ traceFault = "none"

Quiet(t) == traceFault = "none" /\ doing[t].in = "nothing"
Enters(t, what) == /\ doing' = [doing EXCEPT ![t] = what]
                   /\ overlapped' = (overlapped \/ \E u \in Tracing : doing[u].in # "nothing")
\* Every access goes through the pointer that the call began with.
Within(t, where) == traceFault = "none" /\ doing[t].in = where /\ doing[t].of = tracer
Dangles(t) == /\ traceFault = "none" /\ doing[t].in # "nothing" /\ doing[t].of # tracer
              /\ traceFault' = "useAfterFree"
              /\ UNCHANGED <<tracer, roll, chain, doing, written, overlapped>>

StartTrace(t) == /\ Quiet(t) /\ tracer < MaxTracers
                 /\ tracer' = tracer + 1 /\ roll' = <<>> /\ chain' = <<>> /\ written' = NoFile
                 /\ UNCHANGED <<doing, overlapped, traceFault>>

\* Cursor::backtrace() and addBlock().
Backtrace(t, frames) ==
  /\ Quiet(t) /\ tracer # 0 /\ Len(chain) < MaxBlocks
  /\ Enters(t, [Outside EXCEPT !.in = "block", !.of = tracer, !.frames = frames])
  /\ UNCHANGED <<tracer, roll, chain, written, traceFault>>
NoBacktrace(t) == Quiet(t) /\ tracer = 0 /\ UNCHANGED tracerVars

\* auto _roll = roll->get_array() is a copy.
CopyRoll(t) == /\ Within(t, "block") /\ doing[t].frames # <<>>
               /\ doing' = [doing EXCEPT ![t].copy = roll,
                                         ![t].in = IF Head(doing[t].frames) = Unnamed THEN @ ELSE "search",
                                         ![t].frames = IF Head(@) = Unnamed THEN Tail(@) ELSE @]
               /\ UNCHANGED <<tracer, roll, chain, written, overlapped, traceFault>>
\* distance(_roll.begin(), it), or to _roll.end() when the name was not there, and is put on the roll.
PlaceNew(copy, name) == IF name \in ToSet(copy) THEN SelectInSeq(copy, LAMBDA n : n = name) - 1
                                                ELSE Len(copy) + 1
Place(copy, name) == IF name \in ToSet(copy) THEN SelectInSeq(copy, LAMBDA n : n = name) - 1
                                             ELSE Len(copy)
Search(t) ==
  /\ Within(t, "search")
  /\ LET name == Head(doing[t].frames)
     IN  /\ roll' = IF name \in ToSet(doing[t].copy) THEN roll ELSE Append(roll, name)
         /\ doing' = [doing EXCEPT ![t].in = "block", ![t].frames = Tail(@),
                                   ![t].stack = Append(@, Place(doing[t].copy, name)),
                                   ![t].names = Append(@, name)]
  /\ UNCHANGED <<tracer, chain, written, overlapped, traceFault>>
EndBlock(t) == /\ Within(t, "block") /\ doing[t].frames = <<>>
               /\ chain' = Append(chain, [stack |-> doing[t].stack, names |-> doing[t].names])
               /\ doing' = [doing EXCEPT ![t] = Outside]
               /\ UNCHANGED <<tracer, roll, written, overlapped, traceFault>>

\* endTrace() and write(): first the roll, then the chain, in the file of the time; a signal's handler
\* calls it too, on any thread.
EndTrace(t) == /\ Quiet(t) /\ tracer # 0
               /\ Enters(t, [Outside EXCEPT !.in = "write", !.of = tracer])
               /\ written' = [functions |-> roll, events |-> <<>>]
               /\ UNCHANGED <<tracer, roll, chain, traceFault>>
WriteChain(t) == /\ Within(t, "write") /\ written' = [written EXCEPT !.events = chain]
                 /\ doing' = [doing EXCEPT ![t] = Outside]
                 /\ UNCHANGED <<tracer, roll, chain, overlapped, traceFault>>

Frames == UNION {[1..n -> Function \cup {Unnamed}] : n \in 0..MaxFrames}
TracersNext == \E t \in Tracing : \/ StartTrace(t) \/ NoBacktrace(t) \/ Dangles(t)
                                  \/ \E frames \in Frames : Backtrace(t, frames)
                                  \/ CopyRoll(t) \/ Search(t) \/ EndBlock(t)
                                  \/ EndTrace(t) \/ WriteChain(t)

-----------------------------------------------------------------------------
Names(functions, events) ==
  \A i \in DOMAIN events : \A k \in DOMAIN events[i].stack :
    /\ events[i].stack[k] + 1 \in DOMAIN functions
    /\ functions[events[i].stack[k] + 1] = events[i].names[k]

\* Safety, cursor.cpp:213-226 and 247-250: as long as no two threads were in the tracer at a time, each
\* place in a stack is that of the frame's function on the roll, in memory and in the file, and no
\* function is on the roll twice.  Threads that overlap do spoil it: nothing locks the roll.
PlacesNameFunctions ==
  ~overlapped => /\ Names(roll, chain) /\ Names(written.functions, written.events)
                 /\ \A i, j \in DOMAIN roll : roll[i] = roll[j] => i = j
====
