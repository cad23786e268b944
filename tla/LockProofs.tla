---- MODULE LockProofs ----
\* Proofs about the order of the mutexes and about the tracer, which takes none.
EXTENDS MCLocks, SequenceLemmas, FiniteSetTheorems

-----------------------------------------------------------------------------
\* The tracer: the roll of functions and the places in it.

Frame == Function \cup {Unnamed}
Block == [stack : Seq(Nat), names : Seq(Frame)]
Doing == [in : {"nothing", "block", "search", "write"}, of : Nat, frames : Seq(Frame),
          copy : Seq(Frame), stack : Seq(Nat), names : Seq(Frame)]

TracerTyped ==
  /\ tracer \in Nat /\ roll \in Seq(Frame) /\ chain \in Seq(Block)
  /\ written \in [functions : Seq(Frame), events : Seq(Block)]
  /\ doing \in [Tracing -> Doing] /\ overlapped \in BOOLEAN
  /\ \A t \in Tracing : doing[t].in = "search" => doing[t].frames # <<>>

Inside(t) == doing[t].in # "nothing"
\* A thread that goes on in the Tracer that there is, not in one that was deleted.
InTracer(t) == Inside(t) /\ doing[t].of = tracer
BlockOf(t) == [stack |-> doing[t].stack, names |-> doing[t].names]
NoneTwice(r) == \A i, j \in DOMAIN r : r[i] = r[j] => i = j

\* What a thread inside relies on, and a second one could spoil: its copy is the roll, the block that
\* it builds names functions on the roll, and the file that it writes has the roll.
Undisturbed(t) ==
  /\ doing[t].in \in {"block", "search"} => /\ Len(doing[t].stack) = Len(doing[t].names)
                                            /\ Names(roll, <<BlockOf(t)>>)
  /\ doing[t].in = "search" => doing[t].copy = roll
  /\ doing[t].in = "write" => written.functions = roll

TracerInv ==
  /\ TracerTyped
  /\ \A t \in Tracing : doing[t].of <= tracer
  /\ ~overlapped => /\ \A t, u \in Tracing : Inside(t) /\ Inside(u) => t = u
                    /\ Names(roll, chain) /\ Names(written.functions, written.events)
                    /\ NoneTwice(roll)
                    /\ \A t \in Tracing : InTracer(t) => Undisturbed(t)

\* Places stay right when the roll grows.
LEMMA NamesGrow ==
    ASSUME NEW r \in Seq(Frame), NEW events \in Seq(Block), NEW x \in Frame, Names(r, events)
    PROVE  Names(Append(r, x), events)
<1> DEFINE a == Append(r, x)
<1>1. /\ Len(r) \in Nat /\ DOMAIN r = 1..Len(r) /\ DOMAIN a = 1..Len(r) + 1
      /\ \A i \in 1..Len(r) : a[i] = r[i]
  OBVIOUS
<1> HIDE DEF a
<1>2. Names(a, events)
  BY <1>1 DEF Names
<1>3. QED
  BY <1>2 DEF a

\* The chain of blocks that name functions grows by a block that does.
LEMMA NamesMore ==
    ASSUME NEW r \in Seq(Frame), NEW events \in Seq(Block), NEW b \in Block,
           Names(r, events), Names(r, <<b>>)
    PROVE  Names(r, Append(events, b))
<1> DEFINE a == Append(events, b)
<1>1. /\ DOMAIN a = 1..Len(events) + 1 /\ Len(events) \in Nat /\ DOMAIN events = 1..Len(events)
      /\ \A i \in 1..Len(events) : a[i] = events[i]
      /\ a[Len(events) + 1] = b
      /\ DOMAIN <<b>> = {1} /\ <<b>>[1] = b
  OBVIOUS
<1> HIDE DEF a
<1>2. \A i \in DOMAIN a : i \in DOMAIN events \/ i = Len(events) + 1
  BY <1>1
<1>3. Names(r, a)
  BY <1>1, <1>2 DEF Names
<1>4. QED
  BY <1>3 DEF a

\* A stack that names functions grows by a place that does.
LEMMA StackMore ==
    ASSUME NEW r \in Seq(Frame), NEW stack \in Seq(Nat), NEW names \in Seq(Frame),
           Len(stack) = Len(names), NEW p \in Nat, NEW x \in Frame,
           p + 1 \in DOMAIN r, r[p + 1] = x,
           Names(r, <<[stack |-> stack, names |-> names]>>)
    PROVE  Names(r, <<[stack |-> Append(stack, p), names |-> Append(names, x)]>>)
<1> DEFINE s == Append(stack, p)
           n == Append(names, x)
           l == Len(stack)
<1>1. /\ l \in Nat /\ DOMAIN stack = 1..l /\ DOMAIN s = 1..l + 1
      /\ \A i \in 1..l : s[i] = stack[i] /\ n[i] = names[i]
      /\ s[l + 1] = p /\ n[l + 1] = x
  OBVIOUS
<1>2. \A k \in 1..l : stack[k] + 1 \in DOMAIN r /\ r[stack[k] + 1] = names[k]
  <2> DEFINE b == [stack |-> stack, names |-> names]
  <2>1. DOMAIN <<b>> = {1} /\ <<b>>[1] = b /\ b.stack = stack /\ b.names = names
    OBVIOUS
  <2> HIDE DEF b
  <2>2. Names(r, <<b>>)
    BY DEF b
  <2>3. \A k \in DOMAIN b.stack : b.stack[k] + 1 \in DOMAIN r /\ r[b.stack[k] + 1] = b.names[k]
    BY <2>1, <2>2 DEF Names
  <2>4. \A k \in DOMAIN stack : stack[k] + 1 \in DOMAIN r /\ r[stack[k] + 1] = names[k]
    BY <2>1, <2>3
  <2>5. QED
    BY <2>4, <1>1
<1> HIDE DEF s, n, l
<1>3. \A k \in 1..l + 1 : s[k] + 1 \in DOMAIN r /\ r[s[k] + 1] = n[k]
  <2> TAKE k \in 1..l + 1
  <2>1. k \in 1..l \/ k = l + 1
    BY <1>1
  <2>2. QED
    BY <2>1, <1>1, <1>2
<1> DEFINE c == [stack |-> s, names |-> n]
<1>4. DOMAIN <<c>> = {1} /\ <<c>>[1] = c /\ c.stack = s /\ c.names = n
  OBVIOUS
<1> HIDE DEF c
<1>5. Names(r, <<c>>)
  BY <1>1, <1>3, <1>4 DEF Names
<1>6. QED
  BY <1>5 DEF c, s, n

\* The place that Search() notes: that of the name in the copy, or the one behind its end.
LEMMA PlaceFound ==
    ASSUME NEW copy \in Seq(Frame), NEW name
    PROVE  /\ Place(copy, name) \in Nat
           /\ name \in ToSet(copy) => /\ Place(copy, name) + 1 \in DOMAIN copy
                                      /\ copy[Place(copy, name) + 1] = name
           /\ name \notin ToSet(copy) => Place(copy, name) = Len(copy)
<1>0. Len(copy) \in Nat /\ DOMAIN copy = 1..Len(copy)
  OBVIOUS
<1>1. CASE name \notin ToSet(copy)
  BY <1>0, <1>1 DEF Place
<1>2. CASE name \in ToSet(copy)
  <2> DEFINE I == {i \in 1..Len(copy) : copy[i] = name}
  <2>1. I # {} /\ I \subseteq Nat
    BY <1>0, <1>2 DEF ToSet
  <2>2. \E x \in I : \A y \in I : x <= y
    BY <2>1, LeastElement
  <2>3. Min(I) \in I
    BY <2>2 DEF Min
  <2>4. SelectInSeq(copy, LAMBDA n : n = name) = Min(I)
    BY <2>1 DEF SelectInSeq
  <2>5. Place(copy, name) = Min(I) - 1
    BY <2>4, <1>2 DEF Place
  <2>6. QED
    BY <2>3, <2>5, <1>0, <1>2
<1>3. QED
  BY <1>1, <1>2

\* The step of the tracer that MCLocks takes or does not.
TracerStep == TracersNext \/ UNCHANGED tracerVars

LEMMA TracerInvInit ==
    TracersInit => TracerInv
<1> SUFFICES ASSUME TracersInit PROVE TracerInv
  OBVIOUS
<1>1. /\ Outside \in Doing /\ Outside.in = "nothing" /\ Outside.of = 0
      /\ NoFile \in [functions : Seq(Frame), events : Seq(Block)] /\ NoFile.events = <<>>
  BY DEF Outside, Doing, NoFile
<1>2. /\ tracer = 0 /\ roll = <<>> /\ chain = <<>> /\ written = NoFile /\ overlapped = FALSE
      /\ doing \in [Tracing -> Doing] /\ \A t \in Tracing : doing[t] = Outside
  BY <1>1 DEF TracersInit
<1>3. TracerTyped
  <2>1. /\ tracer \in Nat /\ roll \in Seq(Frame) /\ chain \in Seq(Block)
        /\ written \in [functions : Seq(Frame), events : Seq(Block)]
    BY <1>1, <1>2
  <2>2. overlapped \in BOOLEAN
    BY <1>2, FALSE \in BOOLEAN
  <2>3. \A t \in Tracing : doing[t].in # "search"
    BY <1>1, <1>2
  <2>4. QED
    BY <1>2, <2>1, <2>2, <2>3 DEF TracerTyped
<1>4. \A t \in Tracing : ~Inside(t) /\ doing[t].of <= tracer
  BY <1>1, <1>2 DEF Inside
<1>5. Names(roll, chain) /\ Names(written.functions, written.events) /\ NoneTwice(roll)
  BY <1>1, <1>2 DEF Names, NoneTwice
<1>6. QED
  BY <1>3, <1>4, <1>5 DEF TracerInv, InTracer

\* A thread that leaves the tracer, or that comes to a deleted one, has nothing more to rely on.
LEMMA TracerInvStart ==
    ASSUME TracerInv, NEW t \in Tracing, StartTrace(t)
    PROVE  TracerInv'
<1>1. /\ tracer' = tracer + 1 /\ roll' = <<>> /\ chain' = <<>> /\ written' = NoFile
      /\ doing' = doing /\ overlapped' = overlapped
      /\ NoFile \in [functions : Seq(Frame), events : Seq(Block)] /\ NoFile.events = <<>>
  BY DEF StartTrace, NoFile
<1>2. TracerTyped /\ \A u \in Tracing : doing[u].of \in Nat /\ doing[u].of <= tracer /\ tracer \in Nat
  BY DEF TracerInv, TracerTyped, Doing
<1>3. TracerTyped'
  BY <1>1, <1>2 DEF TracerTyped
<1>4. \A u \in Tracing : doing'[u].of <= tracer' /\ doing'[u].of # tracer'
  BY <1>1, <1>2
<1>5. Names(roll, chain)' /\ Names(written.functions, written.events)' /\ NoneTwice(roll)'
  BY <1>1 DEF Names, NoneTwice
<1>6. ~overlapped => \A u, v \in Tracing : Inside(u)' /\ Inside(v)' => u = v
  BY <1>1 DEF TracerInv, Inside
<1>7. QED
  BY <1>1, <1>3, <1>4, <1>5, <1>6 DEF TracerInv, InTracer

\* What is left to show of a step of t in the tracer that leaves the tracer as it is: the others are
\* outside, unless two threads overlapped.
LEMMA TracerInvStep ==
    ASSUME TracerInv, NEW t \in Tracing, NEW d \in Doing,
           doing' = [doing EXCEPT ![t] = d], TracerTyped', tracer' = tracer, d.of <= tracer,
           ~overlapped' => /\ \A u \in Tracing : u # t => ~Inside(u)
                           /\ Names(roll, chain)' /\ Names(written.functions, written.events)'
                           /\ NoneTwice(roll)'
                           /\ InTracer(t)' => Undisturbed(t)'
    PROVE  TracerInv'
<1>1. doing \in [Tracing -> Doing] /\ doing'[t] = d /\ \A u \in Tracing : u # t => doing'[u] = doing[u]
  BY DEF TracerInv, TracerTyped
<1>2. \A u \in Tracing : doing'[u].of <= tracer'
  BY <1>1 DEF TracerInv
<1>3. ~overlapped' => \A u \in Tracing : u # t => ~Inside(u)'
  BY <1>1 DEF Inside
<1>4. ~overlapped' => /\ \A u, v \in Tracing : Inside(u)' /\ Inside(v)' => u = v
                      /\ \A u \in Tracing : InTracer(u)' => Undisturbed(u)'
  BY <1>3 DEF InTracer
<1>5. QED
  BY <1>2, <1>4 DEF TracerInv

\* What the steps below need of the thread that takes one.
LEMMA TracerHere ==
    ASSUME TracerInv, NEW t \in Tracing
    PROVE  /\ tracer \in Nat /\ roll \in Seq(Frame) /\ chain \in Seq(Block)
           /\ written \in [functions : Seq(Frame), events : Seq(Block)]
           /\ doing \in [Tracing -> Doing] /\ overlapped \in BOOLEAN
           /\ doing[t] \in Doing /\ doing[t].of <= tracer
           /\ doing[t].in = "search" => doing[t].frames # <<>>
           /\ ~overlapped => /\ Names(roll, chain) /\ Names(written.functions, written.events)
                             /\ NoneTwice(roll)
                             /\ Inside(t) => \A u \in Tracing : u # t => ~Inside(u)
                             /\ InTracer(t) => Undisturbed(t)
<1>1. TracerTyped
  BY DEF TracerInv
<1>2. QED
  BY <1>1 DEF TracerInv, TracerTyped

\* TracerTyped after a step that leaves d to t.
LEMMA TracerTypedStep ==
    ASSUME TracerInv, NEW t \in Tracing, NEW d \in Doing, doing' = [doing EXCEPT ![t] = d],
           d.in = "search" => d.frames # <<>>,
           tracer' \in Nat, roll' \in Seq(Frame), chain' \in Seq(Block), overlapped' \in BOOLEAN,
           written' \in [functions : Seq(Frame), events : Seq(Block)]
    PROVE  TracerTyped'
<1>1. /\ doing \in [Tracing -> Doing]
      /\ \A u \in Tracing : doing[u].in = "search" => doing[u].frames # <<>>
  BY DEF TracerInv, TracerTyped
<1>2. doing' \in [Tracing -> Doing]
  BY <1>1
<1>3. \A u \in Tracing : doing'[u].in = "search" => doing'[u].frames # <<>>
  BY <1>1
<1>4. QED
  BY <1>2, <1>3 DEF TracerTyped

LEMMA OutsideTyped ==
    Outside \in Doing /\ Outside.in = "nothing" /\ Outside.of = 0 /\ Outside.frames = <<>>
    /\ Outside.copy = <<>> /\ Outside.stack = <<>> /\ Outside.names = <<>>
BY DEF Outside, Doing

LEMMA TracerInvBacktrace ==
    ASSUME TracerInv, NEW t \in Tracing, NEW frames \in Seq(Frame), Backtrace(t, frames)
    PROVE  TracerInv'
<1> DEFINE d == [Outside EXCEPT !.in = "block", !.of = tracer, !.frames = frames]
<1>1. /\ doing' = [doing EXCEPT ![t] = d]
      /\ overlapped' = (overlapped \/ \E u \in Tracing : doing[u].in # "nothing")
      /\ tracer' = tracer /\ roll' = roll /\ chain' = chain /\ written' = written
  BY DEF Backtrace, Enters
<1>2. /\ d \in Doing /\ d.in = "block" /\ d.of = tracer /\ d.frames = frames
      /\ d.stack = <<>> /\ d.names = <<>>
  BY TracerHere, OutsideTyped DEF Outside, Doing
<1> HIDE DEF d
<1>3. doing \in [Tracing -> Doing] /\ doing'[t] = d
  BY <1>1, TracerHere
<1>4. overlapped' \in BOOLEAN
  BY <1>1
<1>5. TracerTyped'
  BY <1>1, <1>2, <1>4, TracerHere, TracerTypedStep
<1>6. ~overlapped' => ~overlapped /\ \A u \in Tracing : ~Inside(u)
  BY <1>1 DEF Inside
<1>7. Undisturbed(t)'
  <2> DEFINE b == BlockOf(t)'
  <2>1. b.stack = <<>> /\ DOMAIN <<b>> = {1} /\ <<b>>[1] = b
    BY <1>2, <1>3 DEF BlockOf
  <2> HIDE DEF b
  <2>2. Names(roll', <<b>>)
    BY <2>1 DEF Names
  <2>3. Len(doing'[t].stack) = Len(doing'[t].names)
    BY <1>2, <1>3
  <2>4. QED
    BY <1>2, <1>3, <2>2, <2>3 DEF Undisturbed, b
<1>8. ~overlapped' => /\ Names(roll, chain)' /\ Names(written.functions, written.events)'
                      /\ NoneTwice(roll)'
  <2>1. ~overlapped => Names(roll, chain) /\ Names(written.functions, written.events) /\ NoneTwice(roll)
    BY TracerHere
  <2>2. ~overlapped' => ~overlapped
    BY <1>6
  <2>3. /\ Names(roll', chain') <=> Names(roll, chain)
        /\ Names(written'.functions, written'.events) <=> Names(written.functions, written.events)
        /\ NoneTwice(roll') <=> NoneTwice(roll)
    BY <1>1
  <2>4. QED
    BY <2>1, <2>2, <2>3
<1>9. d.of <= tracer
  BY <1>2, TracerHere
<1>10. QED
  BY <1>1, <1>2, <1>5, <1>6, <1>7, <1>8, <1>9, TracerInvStep

LEMMA TracerInvCopy ==
    ASSUME TracerInv, NEW t \in Tracing, CopyRoll(t)
    PROVE  TracerInv'
<1> DEFINE unnamed == Head(doing[t].frames) = Unnamed
           d == [doing[t] EXCEPT !.copy = roll,
                                 !.in = IF unnamed THEN "block" ELSE "search",
                                 !.frames = IF unnamed THEN Tail(@) ELSE @]
<1>1. /\ doing[t].in = "block" /\ doing[t].of = tracer /\ doing[t].frames # <<>>
      /\ doing[t] \in Doing /\ doing \in [Tracing -> Doing]
      /\ tracer' = tracer /\ roll' = roll /\ chain' = chain /\ written' = written
      /\ overlapped' = overlapped
  BY TracerHere DEF CopyRoll, Within
<1>2. doing' = [doing EXCEPT ![t] = d]
  BY <1>1 DEF CopyRoll
<1>3. Tail(doing[t].frames) \in Seq(Frame)
  BY <1>1 DEF Doing
<1>4. /\ d.of = tracer /\ d.copy = roll /\ d.stack = doing[t].stack /\ d.names = doing[t].names
      /\ d.in \in {"block", "search"} /\ (d.in = "search" => d.frames = doing[t].frames)
      /\ d.frames \in Seq(Frame)
  BY <1>1, <1>3 DEF Doing
<1>5. d \in Doing
  BY <1>1, <1>3, TracerHere DEF Doing
<1> HIDE DEF d
<1>6. doing'[t] = d
  BY <1>1, <1>2
<1>7. TracerTyped'
  BY <1>1, <1>2, <1>4, <1>5, TracerHere, TracerTypedStep
<1>8. Inside(t) /\ InTracer(t)
  BY <1>1 DEF Inside, InTracer
<1>9. ~overlapped => Undisturbed(t)'
  <2> SUFFICES ASSUME ~overlapped PROVE Undisturbed(t)'
    OBVIOUS
  <2>1. Len(doing[t].stack) = Len(doing[t].names) /\ Names(roll, <<BlockOf(t)>>)
    BY <1>1, <1>8, TracerHere DEF Undisturbed
  <2>2. BlockOf(t)' = BlockOf(t)
    BY <1>4, <1>6 DEF BlockOf
  <2>3. QED
    BY <1>1, <1>4, <1>6, <2>1, <2>2 DEF Undisturbed, Names
<1>10. ~overlapped => /\ Names(roll, chain)' /\ Names(written.functions, written.events)'
                      /\ NoneTwice(roll)'
  BY <1>1, TracerHere DEF Names, NoneTwice
<1>11. d.of <= tracer
  BY <1>4, TracerHere
<1>12. ~overlapped => \A u \in Tracing : u # t => ~Inside(u)
  BY <1>8, TracerHere
<1>13. QED
  BY <1>1, <1>2, <1>5, <1>7, <1>9, <1>10, <1>11, <1>12, TracerInvStep

\* A name that is not in the roll comes to be in it once.
LEMMA NoneTwiceMore ==
    ASSUME NEW r \in Seq(Frame), NEW x \in Frame, NoneTwice(r), x \notin ToSet(r)
    PROVE  NoneTwice(Append(r, x))
<1> DEFINE a == Append(r, x)
<1>1. /\ Len(r) \in Nat /\ DOMAIN r = 1..Len(r) /\ DOMAIN a = 1..Len(r) + 1
      /\ \A i \in 1..Len(r) : a[i] = r[i]
      /\ a[Len(r) + 1] = x
  OBVIOUS
<1>2. \A i \in 1..Len(r) : r[i] # x
  BY <1>1 DEF ToSet
<1> HIDE DEF a
<1>3. NoneTwice(a)
  BY <1>1, <1>2 DEF NoneTwice
<1>4. QED
  BY <1>3 DEF a

LEMMA TracerInvSearch ==
    ASSUME TracerInv, NEW t \in Tracing, Search(t)
    PROVE  TracerInv'
<1> DEFINE name == Head(doing[t].frames)
           place == Place(doing[t].copy, name)
           stack == Append(doing[t].stack, place)
           names == Append(doing[t].names, name)
           d == [doing[t] EXCEPT !.in = "block", !.frames = Tail(@), !.stack = stack, !.names = names]
<1>1. /\ doing[t].in = "search" /\ doing[t].of = tracer /\ doing[t].frames # <<>>
      /\ doing[t] \in Doing /\ doing \in [Tracing -> Doing]
      /\ tracer' = tracer /\ chain' = chain /\ written' = written /\ overlapped' = overlapped
      /\ roll' = IF name \in ToSet(doing[t].copy) THEN roll ELSE Append(roll, name)
  BY TracerHere DEF Search, Within
<1>2. doing' = [doing EXCEPT ![t] = d]
  BY <1>1 DEF Search
<1>3. /\ Tail(doing[t].frames) \in Seq(Frame) /\ name \in Frame /\ doing[t].frames \in Seq(Frame)
      /\ doing[t].copy \in Seq(Frame) /\ doing[t].stack \in Seq(Nat) /\ doing[t].names \in Seq(Frame)
  BY <1>1 DEF Doing
<1> HIDE DEF name
<1>4. /\ place \in Nat
      /\ name \in ToSet(doing[t].copy) => /\ place + 1 \in DOMAIN doing[t].copy
                                          /\ doing[t].copy[place + 1] = name
      /\ name \notin ToSet(doing[t].copy) => place = Len(doing[t].copy)
  BY <1>3, PlaceFound
<1> HIDE DEF place
<1>5. stack \in Seq(Nat) /\ names \in Seq(Frame)
  BY <1>3, <1>4
<1>6. d \in Doing /\ d.of = tracer /\ d.in = "block" /\ d.stack = stack /\ d.names = names
  BY <1>1, <1>3, <1>5 DEF Doing
<1> HIDE DEF d
<1>7. doing'[t] = d
  BY <1>1, <1>2
<1>8. roll \in Seq(Frame) /\ roll' \in Seq(Frame)
  BY <1>1, <1>3, TracerHere
<1>9. TracerTyped'
  BY <1>1, <1>2, <1>6, <1>8, TracerHere, TracerTypedStep
<1>10. Inside(t) /\ InTracer(t)
  BY <1>1 DEF Inside, InTracer
<1>11. ~overlapped => Undisturbed(t)' /\ Names(roll', chain) /\ NoneTwice(roll')
  <2> SUFFICES ASSUME ~overlapped PROVE Undisturbed(t)' /\ Names(roll', chain) /\ NoneTwice(roll')
    OBVIOUS
  <2>1. /\ Len(doing[t].stack) = Len(doing[t].names) /\ Names(roll, <<BlockOf(t)>>)
        /\ doing[t].copy = roll /\ Names(roll, chain) /\ NoneTwice(roll) /\ chain \in Seq(Block)
    BY <1>1, <1>10, TracerHere DEF Undisturbed
  <2>2. BlockOf(t) \in Block
    BY <1>3 DEF BlockOf, Block
  <2>3. /\ Names(roll', <<BlockOf(t)>>) /\ Names(roll', chain) /\ NoneTwice(roll')
        /\ place + 1 \in DOMAIN roll' /\ roll'[place + 1] = name
    <3>1. CASE name \in ToSet(doing[t].copy)
      BY <1>1, <1>4, <2>1, <3>1
    <3>2. CASE name \notin ToSet(doing[t].copy)
      <4>1. roll' = Append(roll, name) /\ place = Len(roll)
        BY <1>1, <1>4, <2>1, <3>2
      <4>2. place + 1 \in DOMAIN roll' /\ roll'[place + 1] = name
        BY <1>3, <1>8, <4>1
      <4>3. <<BlockOf(t)>> \in Seq(Block)
        BY <2>2
      <4>4. Names(roll', <<BlockOf(t)>>) /\ Names(roll', chain)
        BY <1>3, <1>8, <2>1, <4>1, <4>3, NamesGrow
      <4>5. NoneTwice(roll')
        BY <1>3, <1>8, <2>1, <4>1, <3>2, NoneTwiceMore
      <4>6. QED
        BY <4>2, <4>4, <4>5
    <3>3. QED
      BY <3>1, <3>2
  <2>4. Names(roll', <<[stack |-> stack, names |-> names]>>)
    BY <1>3, <1>4, <1>8, <2>1, <2>3, StackMore DEF BlockOf
  <2>5. BlockOf(t)' = [stack |-> stack, names |-> names]
    BY <1>6, <1>7 DEF BlockOf
  <2>6. Len(stack) = Len(names)
    <3>1. Len(stack) = Len(doing[t].stack) + 1
      BY <1>3, <1>4
    <3>2. Len(names) = Len(doing[t].names) + 1
      BY <1>3
    <3>3. QED
      BY <2>1, <3>1, <3>2
  <2>7. Names(roll, <<BlockOf(t)>>)'
    BY <2>4, <2>5 DEF Names
  <2>8. Undisturbed(t)'
    BY <1>6, <1>7, <2>6, <2>7, Zenon DEF Undisturbed
  <2>9. QED
    BY <2>3, <2>8
<1>12. ~overlapped => Names(roll, chain)' /\ Names(written.functions, written.events)' /\ NoneTwice(roll)'
  BY <1>1, <1>11, TracerHere DEF Names, NoneTwice
<1>13. d.of <= tracer
  BY <1>6, TracerHere
<1>14. ~overlapped => \A u \in Tracing : u # t => ~Inside(u)
  BY <1>10, TracerHere
<1>15. QED
  BY <1>1, <1>2, <1>6, <1>9, <1>11, <1>12, <1>13, <1>14, TracerInvStep

LEMMA TracerInvEndBlock ==
    ASSUME TracerInv, NEW t \in Tracing, EndBlock(t)
    PROVE  TracerInv'
<1> DEFINE b == BlockOf(t)
<1>1. /\ doing[t].in = "block" /\ doing[t].of = tracer /\ doing[t] \in Doing
      /\ tracer' = tracer /\ roll' = roll /\ chain' = Append(chain, b) /\ written' = written
      /\ overlapped' = overlapped /\ doing' = [doing EXCEPT ![t] = Outside]
  BY TracerHere DEF EndBlock, Within, BlockOf
<1>2. b \in Block /\ roll \in Seq(Frame) /\ chain \in Seq(Block)
  BY <1>1, TracerHere DEF BlockOf, Block, Doing
<1>3. chain' \in Seq(Block)
  BY <1>1, <1>2
<1>4. TracerTyped'
  BY <1>1, <1>3, OutsideTyped, TracerHere, TracerTypedStep
<1>5. Inside(t) /\ InTracer(t) /\ ~Inside(t)'
  BY <1>1, TracerHere, OutsideTyped DEF Inside, InTracer
<1>6. ~overlapped => Names(roll, chain')
  <2> SUFFICES ASSUME ~overlapped PROVE Names(roll, chain')
    OBVIOUS
  <2>1. Names(roll, <<b>>) /\ Names(roll, chain)
    BY <1>1, <1>5, TracerHere DEF Undisturbed
  <2>2. QED
    BY <1>1, <1>2, <2>1, NamesMore
<1>7. ~overlapped => Names(roll, chain)' /\ Names(written.functions, written.events)' /\ NoneTwice(roll)'
  BY <1>1, <1>6, TracerHere DEF Names, NoneTwice
<1>8. ~overlapped => \A u \in Tracing : u # t => ~Inside(u)
  BY <1>5, TracerHere
<1>9. Outside.of <= tracer
  BY OutsideTyped, TracerHere
<1>10. QED
  BY <1>1, <1>4, <1>5, <1>7, <1>8, <1>9, OutsideTyped, TracerInvStep DEF InTracer

LEMMA TracerInvEndTrace ==
    ASSUME TracerInv, NEW t \in Tracing, EndTrace(t)
    PROVE  TracerInv'
<1> DEFINE d == [Outside EXCEPT !.in = "write", !.of = tracer]
           file == [functions |-> roll, events |-> <<>>]
<1>1. /\ doing' = [doing EXCEPT ![t] = d]
      /\ overlapped' = (overlapped \/ \E u \in Tracing : doing[u].in # "nothing")
      /\ tracer' = tracer /\ roll' = roll /\ chain' = chain /\ written' = file
  BY DEF EndTrace, Enters
<1>2. d \in Doing /\ d.in = "write" /\ d.of = tracer
  BY TracerHere, OutsideTyped DEF Outside, Doing
<1> HIDE DEF d
<1>3. doing \in [Tracing -> Doing] /\ doing'[t] = d
  BY <1>1, TracerHere
<1>4. overlapped' \in BOOLEAN
  BY <1>1
<1>5. /\ file \in [functions : Seq(Frame), events : Seq(Block)] /\ file.functions = roll
      /\ file.events = <<>>
  BY TracerHere
<1> HIDE DEF file
<1>6. TracerTyped'
  BY <1>1, <1>2, <1>4, <1>5, TracerHere, TracerTypedStep
<1>7. ~overlapped' => ~overlapped /\ \A u \in Tracing : ~Inside(u)
  BY <1>1 DEF Inside
<1>8. Undisturbed(t)'
  BY <1>1, <1>2, <1>3, <1>5 DEF Undisturbed
<1>9. ~overlapped' => /\ Names(roll, chain)' /\ Names(written.functions, written.events)'
                      /\ NoneTwice(roll)'
  BY <1>1, <1>5, <1>7, TracerHere DEF Names, NoneTwice
<1>10. d.of <= tracer
  BY <1>2, TracerHere
<1>11. QED
  BY <1>1, <1>2, <1>6, <1>7, <1>8, <1>9, <1>10, TracerInvStep

LEMMA TracerInvWrite ==
    ASSUME TracerInv, NEW t \in Tracing, WriteChain(t)
    PROVE  TracerInv'
<1>1. /\ doing[t].in = "write" /\ doing[t].of = tracer /\ doing[t] \in Doing
      /\ written \in [functions : Seq(Frame), events : Seq(Block)] /\ chain \in Seq(Block)
      /\ tracer' = tracer /\ roll' = roll /\ chain' = chain
      /\ written' = [written EXCEPT !.events = chain]
      /\ overlapped' = overlapped /\ doing' = [doing EXCEPT ![t] = Outside]
  BY TracerHere DEF WriteChain, Within
<1>2. /\ written' \in [functions : Seq(Frame), events : Seq(Block)]
      /\ written'.functions = written.functions /\ written'.events = chain
  BY <1>1
<1>3. TracerTyped'
  BY <1>1, <1>2, OutsideTyped, TracerHere, TracerTypedStep
<1>4. Inside(t) /\ InTracer(t) /\ ~Inside(t)'
  BY <1>1, TracerHere, OutsideTyped DEF Inside, InTracer
<1>5. ~overlapped => written.functions = roll
  BY <1>1, <1>4, TracerHere DEF Undisturbed
<1>6. ~overlapped => Names(roll, chain)' /\ Names(written.functions, written.events)' /\ NoneTwice(roll)'
  BY <1>1, <1>2, <1>5, TracerHere DEF Names, NoneTwice
<1>7. ~overlapped => \A u \in Tracing : u # t => ~Inside(u)
  BY <1>4, TracerHere
<1>8. Outside.of <= tracer
  BY OutsideTyped, TracerHere
<1>9. QED
  BY <1>1, <1>3, <1>4, <1>6, <1>7, <1>8, OutsideTyped, TracerInvStep DEF InTracer

LEMMA TracerInvSame ==
    ASSUME TracerInv, UNCHANGED <<tracer, roll, chain, doing, written, overlapped>>
    PROVE  TracerInv'
<1>1. /\ tracer' = tracer /\ roll' = roll /\ chain' = chain /\ doing' = doing
      /\ written' = written /\ overlapped' = overlapped
  OBVIOUS
<1>2. TracerTyped'
  BY <1>1 DEF TracerInv, TracerTyped
<1>3. \A t \in Tracing : (Inside(t)' <=> Inside(t)) /\ (InTracer(t)' <=> InTracer(t))
  BY <1>1 DEF Inside, InTracer
<1>4. \A t \in Tracing : Undisturbed(t)' <=> Undisturbed(t)
  BY <1>1 DEF Undisturbed, BlockOf, Names
<1>5. Names(roll, chain)' = Names(roll, chain) /\ NoneTwice(roll)' = NoneTwice(roll)
      /\ Names(written.functions, written.events)' = Names(written.functions, written.events)
  BY <1>1 DEF Names, NoneTwice
<1>6. QED
  BY <1>1, <1>2, <1>3, <1>4, <1>5 DEF TracerInv

LEMMA TracerInvNext ==
    TracerInv /\ TracerStep => TracerInv'
<1> SUFFICES ASSUME TracerInv, TracerStep PROVE TracerInv'
  OBVIOUS
<1>1. CASE UNCHANGED tracerVars
  BY <1>1, TracerInvSame DEF tracerVars
<1>2. CASE TracersNext
  <2> SUFFICES ASSUME NEW t \in Tracing,
                      \/ StartTrace(t) \/ NoBacktrace(t) \/ Dangles(t)
                      \/ \E frames \in Frames : Backtrace(t, frames)
                      \/ CopyRoll(t) \/ Search(t) \/ EndBlock(t)
                      \/ EndTrace(t) \/ WriteChain(t)
               PROVE  TracerInv'
    BY <1>2 DEF TracersNext
  <2>1. CASE StartTrace(t)
    BY <2>1, TracerInvStart
  <2>2. CASE NoBacktrace(t) \/ Dangles(t)
    BY <2>2, TracerInvSame DEF NoBacktrace, Dangles, tracerVars
  <2>3. ASSUME NEW frames \in Frames, Backtrace(t, frames) PROVE TracerInv'
    <3>1. PICK n \in 0..MaxFrames : frames \in [1..n -> Function \cup {Unnamed}]
      BY <2>3 DEF Frames
    <3>2. frames \in Seq(Frame)
      BY <3>1, TracersAssumption DEF Frame
    <3>3. QED
      BY <2>3, <3>2, TracerInvBacktrace
  <2>4. CASE CopyRoll(t)
    BY <2>4, TracerInvCopy
  <2>5. CASE Search(t)
    BY <2>5, TracerInvSearch
  <2>6. CASE EndBlock(t)
    BY <2>6, TracerInvEndBlock
  <2>7. CASE EndTrace(t)
    BY <2>7, TracerInvEndTrace
  <2>8. CASE WriteChain(t)
    BY <2>8, TracerInvWrite
  <2>9. QED
    BY <2>1, <2>2, <2>3, <2>4, <2>5, <2>6, <2>7, <2>8
<1>3. QED
  BY <1>1, <1>2 DEF TracerStep

\* cursor.cpp:213-226 and 247-250: whatever the functions, the frames and the threads, as long as no two
\* threads are in the tracer at a time every place in a stack is that of the frame's function.
THEOREM PlacesStayRight ==
    MCSpec => []PlacesNameFunctions
<1>1. MCInit => TracerInv
  BY TracerInvInit DEF MCInit
<1>2. TracerInv /\ [MCNext]_<<lockVars, tracerVars, focus>> => TracerInv'
  BY TracerInvNext DEF MCNext, TracerStep
<1>3. TracerInv => PlacesNameFunctions
  BY DEF TracerInv, PlacesNameFunctions, NoneTwice
<1>4. QED
  BY <1>1, <1>2, <1>3, PTL DEF MCSpec

-----------------------------------------------------------------------------
\* The mutexes: how often a sequence of steps takes and gives one.

Deed == {"take", "give", "touch", "return"}
Culprits == {"quit", "signalTermination", "handleSignal"}
StepOf == [does : Deed, what : Mutex \cup Installed, by : Culprits \cup {"other"}]

Places(s, does, m) == {i \in 1..Len(s) : s[i].what = m /\ s[i].does = does}
Count(s, does, m) == Cardinality(Places(s, does, m))
\* What is to be given back more often than to be taken is held.
Held(s, m) == Count(s, "give", m) > Count(s, "take", m)
From(s, i) == SubSeq(s, i, Len(s))

LEMMA PlacesFinite ==
    ASSUME NEW s \in Seq(StepOf), NEW does, NEW m
    PROVE  /\ IsFiniteSet(Places(s, does, m))
           /\ Count(s, does, m) \in Nat
<1>1. IsFiniteSet(1..Len(s))
  BY FS_Interval
<1>2. Places(s, does, m) \in SUBSET (1..Len(s))
  BY DEF Places
<1>3. QED
  BY <1>1, <1>2, FS_Subset, FS_CardinalityType DEF Count

LEMMA CountConcat ==
    ASSUME NEW s \in Seq(StepOf), NEW t \in Seq(StepOf), NEW does, NEW m
    PROVE  Count(s \o t, does, m) = Count(s, does, m) + Count(t, does, m)
<1> DEFINE A == Places(s, does, m)
           B == Places(t, does, m)
           C == {i \in Len(s) + 1 .. Len(s) + Len(t) : i - Len(s) \in B}
           shift == [i \in B |-> i + Len(s)]
<1>1. IsFiniteSet(A) /\ IsFiniteSet(B)
  BY PlacesFinite
<1>2. B \subseteq 1..Len(t) /\ A \subseteq 1..Len(s)
  BY DEF Places
<1>3. shift \in Bijection(B, C)
  <2>1. \A i \in B : shift[i] \in C
    BY <1>2
  <2>2. \A i, j \in B : shift[i] = shift[j] => i = j
    BY <1>2
  <2>3. \A k \in C : \E i \in B : shift[i] = k
    <3> TAKE k \in C
    <3> k - Len(s) \in B /\ shift[k - Len(s)] = k
      BY <1>2
    <3> QED OBVIOUS
  <2>4. shift \in [B -> C]
    BY <2>1
  <2> HIDE DEF B, C, shift
  <2>5. shift \in Injection(B, C)
    BY <2>2, <2>4 DEF Injection, IsInjective
  <2>6. shift \in Surjection(B, C)
    BY <2>3, <2>4 DEF Surjection
  <2>7. QED
    BY <2>5, <2>6 DEF Bijection
<1>4. IsFiniteSet(C) /\ Cardinality(C) = Cardinality(B)
  <2> HIDE DEF B, C, shift
  <2> QED
    BY <1>1, <1>3, FS_Bijection DEF ExistsBijection
<1>5. Places(s \o t, does, m) = A \cup C
  BY DEF Places
<1>6. A \cap C = {}
  BY <1>2
<1>7. Cardinality(A) \in Nat /\ Cardinality(C) \in Nat
  BY <1>1, <1>4, FS_CardinalityType
<1> HIDE DEF A, B, C
<1>8. Cardinality(A \cup C) = Cardinality(A) + Cardinality(C)
  <2>1. Cardinality(A \cup C) = Cardinality(A) + Cardinality(C) - Cardinality(A \cap C)
    BY <1>1, <1>4, FS_Union
  <2>2. Cardinality({}) = 0
    BY FS_EmptySet
  <2>3. Cardinality(A \cap C) = 0
    BY <1>6, <2>2, Zenon
  <2>4. QED
    BY <1>7, <2>1, <2>3
<1>9. QED
  BY <1>4, <1>5, <1>8 DEF Count, A, B

LEMMA CountOne ==
    ASSUME NEW x \in StepOf, NEW does, NEW m
    PROVE  Count(<<x>>, does, m) = IF x.what = m /\ x.does = does THEN 1 ELSE 0
<1>1. Places(<<x>>, does, m) = IF x.what = m /\ x.does = does THEN {1} ELSE {}
  BY DEF Places
<1>2. QED
  BY <1>1, FS_Singleton, FS_EmptySet DEF Count

LEMMA CountNone ==
    ASSUME NEW does, NEW m
    PROVE  Count(<<>>, does, m) = 0
<1>1. Places(<<>>, does, m) = {}
  BY DEF Places
<1>2. QED
  BY <1>1, FS_EmptySet DEF Count

-----------------------------------------------------------------------------
\* The order of the mutexes, and operations that keep it outside of the culprits.

Rank(m) == CASE m = "event" -> 0 [] m = "app" -> 1 [] m = "log" -> 2
             [] m = "thread" -> 3 [] m = "worker" -> 5 [] OTHER -> 4
\* The mutex m may be taken by a thread that holds h.
Fits(h, m) == Rank(h) < Rank(m) \/ (h = m /\ m \notin Plain)

Asks(step) == step.does \in {"take", "touch"} /\ step.by = "other"
Orderly(s) == \A i \in 1..Len(s) : Asks(s[i]) => \A h : Held(From(s, i), h) => Fits(h, s[i].what)
Opens(s) == s # <<>> => s[1].does \in {"take", "touch"}
Closed(s) == \A m : Count(s, "give", m) = Count(s, "take", m)
Whole(s) == s \in Seq(StepOf) /\ Opens(s) /\ Closed(s)
\* A whole operation in order, which asks for mutexes of M only.
Good(s, M) == Whole(s) /\ Orderly(s) /\ \A i \in 1..Len(s) : Asks(s[i]) => s[i].what \in M

LEMMA FromParts ==
    ASSUME NEW s \in Seq(StepOf), NEW i \in 1..Len(s)
    PROVE  /\ From(s, i) \in Seq(StepOf)
           /\ Len(From(s, i)) = Len(s) - i + 1
           /\ \A j \in 1..Len(s) - i + 1 : From(s, i)[j] = s[i + j - 1]
BY SubSeqProperties DEF From

LEMMA FromConcatLeft ==
    ASSUME NEW s \in Seq(StepOf), NEW t \in Seq(StepOf), NEW i \in 1..Len(s)
    PROVE  From(s \o t, i) = From(s, i) \o t
<1> DEFINE l == From(s \o t, i)
           r == From(s, i) \o t
<1>1. s \o t \in Seq(StepOf) /\ Len(s \o t) = Len(s) + Len(t) /\ i \in 1..Len(s \o t)
  OBVIOUS
<1>2. l \in Seq(StepOf) /\ Len(l) = Len(s) + Len(t) - i + 1
  <2>1. l \in Seq(StepOf) /\ Len(l) = Len(s \o t) - i + 1
    BY <1>1, FromParts
  <2>2. QED
    BY <1>1, <2>1
<1>3. r \in Seq(StepOf) /\ Len(r) = Len(s) + Len(t) - i + 1
  <2>1. From(s, i) \in Seq(StepOf) /\ Len(From(s, i)) = Len(s) - i + 1
    BY FromParts
  <2>2. r \in Seq(StepOf) /\ Len(r) = Len(From(s, i)) + Len(t)
    BY <2>1
  <2>3. QED
    BY <2>1, <2>2
<1>4. \A j \in 1..Len(l) : l[j] = r[j]
  <2> TAKE j \in 1..Len(l)
  <2>1. l[j] = (s \o t)[i + j - 1]
    BY <1>1, <1>2, FromParts
  <2>2. r[j] = IF j <= Len(s) - i + 1 THEN From(s, i)[j] ELSE t[j - (Len(s) - i + 1)]
    BY <1>2, FromParts
  <2>3. QED
    BY <1>2, <2>1, <2>2, FromParts
<1> HIDE DEF l, r
<1>5. l = r
  BY <1>2, <1>3, <1>4, SeqEqual
<1>6. QED
  BY <1>5 DEF l, r

LEMMA FromConcatRight ==
    ASSUME NEW s \in Seq(StepOf), NEW t \in Seq(StepOf), NEW i \in Len(s) + 1 .. Len(s) + Len(t)
    PROVE  From(s \o t, i) = From(t, i - Len(s))
<1> DEFINE l == From(s \o t, i)
           r == From(t, i - Len(s))
<1>1. s \o t \in Seq(StepOf) /\ Len(s \o t) = Len(s) + Len(t) /\ i \in 1..Len(s \o t)
  OBVIOUS
<1>2. l \in Seq(StepOf) /\ Len(l) = Len(s) + Len(t) - i + 1
  <2>1. l \in Seq(StepOf) /\ Len(l) = Len(s \o t) - i + 1
    BY <1>1, FromParts
  <2>2. QED
    BY <1>1, <2>1
<1>3. r \in Seq(StepOf) /\ Len(r) = Len(s) + Len(t) - i + 1
  <2>1. i - Len(s) \in 1..Len(t)
    OBVIOUS
  <2>2. r \in Seq(StepOf) /\ Len(r) = Len(t) - (i - Len(s)) + 1
    BY <2>1, FromParts
  <2>3. QED
    BY <2>2
<1>4. \A j \in 1..Len(l) : l[j] = r[j]
  <2> TAKE j \in 1..Len(l)
  <2>1. l[j] = (s \o t)[i + j - 1]
    BY <1>1, <1>2, FromParts
  <2>2. r[j] = t[i - Len(s) + j - 1]
    <3>1. i - Len(s) \in 1..Len(t) /\ j \in 1..Len(t) - (i - Len(s)) + 1
      BY <1>2
    <3>2. r[j] = t[(i - Len(s)) + j - 1]
      BY <3>1, FromParts
    <3>3. QED
      BY <3>2
  <2>3. QED
    BY <1>2, <2>1, <2>2
<1> HIDE DEF l, r
<1>5. l = r
  BY <1>2, <1>3, <1>4, SeqEqual
<1>6. QED
  BY <1>5 DEF l, r

LEMMA WholeConcat ==
    ASSUME NEW s, NEW t, Whole(s), Whole(t)
    PROVE  Whole(s \o t)
<1>1. s \o t \in Seq(StepOf)
  BY DEF Whole
<1>2. Opens(s \o t)
  BY DEF Whole, Opens
<1>3. Closed(s \o t)
  BY CountConcat DEF Whole, Closed
<1>4. QED
  BY <1>1, <1>2, <1>3 DEF Whole

\* What is behind t in s \o t does not change what t holds, when it is closed.
LEMMA GoodConcat ==
    ASSUME NEW s, NEW t, NEW M, Good(s, M), Good(t, M)
    PROVE  Good(s \o t, M)
<1>1. s \in Seq(StepOf) /\ t \in Seq(StepOf) /\ Len(s \o t) = Len(s) + Len(t)
  BY DEF Good, Whole
<1>2. Whole(s \o t)
  BY WholeConcat DEF Good
<1>3. ASSUME NEW i \in 1..Len(s \o t), Asks((s \o t)[i])
      PROVE  /\ (s \o t)[i].what \in M
             /\ \A h : Held(From(s \o t, i), h) => Fits(h, (s \o t)[i].what)
  <2>1. CASE i <= Len(s)
    <3>1. i \in 1..Len(s) /\ (s \o t)[i] = s[i] /\ From(s \o t, i) = From(s, i) \o t
      BY <1>1, <2>1, FromConcatLeft
    <3>2. ASSUME NEW h PROVE Held(From(s, i) \o t, h) => Held(From(s, i), h)
      <4>1. From(s, i) \in Seq(StepOf) /\ Count(t, "give", h) = Count(t, "take", h)
        BY <1>1, <3>1, FromParts DEF Good, Whole, Closed
      <4>2. /\ Count(From(s, i), "give", h) \in Nat /\ Count(From(s, i), "take", h) \in Nat
            /\ Count(t, "give", h) \in Nat
        BY <1>1, <4>1, PlacesFinite
      <4>3. QED
        BY <1>1, <4>1, <4>2, CountConcat DEF Held
    <3>3. QED
      BY <1>3, <3>1, <3>2 DEF Good, Orderly
  <2>2. CASE i > Len(s)
    <3>1. i - Len(s) \in 1..Len(t) /\ (s \o t)[i] = t[i - Len(s)]
      BY <1>1, <2>2
    <3>2. From(s \o t, i) = From(t, i - Len(s))
      BY <1>1, <2>2, FromConcatRight
    <3>3. QED
      BY <1>3, <3>1, <3>2 DEF Good, Orderly
  <2>3. QED
    BY <1>1, <2>1, <2>2
<1>4. QED
  BY <1>2, <1>3 DEF Good, Orderly

LEMMA StepFacts ==
    ASSUME NEW does \in Deed, NEW m \in Mutex \cup Installed
    PROVE  /\ Step(does, m) \in Seq(StepOf)
           /\ Len(Step(does, m)) = 1
           /\ Step(does, m)[1] = [does |-> does, what |-> m, by |-> "other"]
           /\ \A d, h : Count(Step(does, m), d, h) = IF h = m /\ d = does THEN 1 ELSE 0
<1> DEFINE x == [does |-> does, what |-> m, by |-> "other"]
<1>1. x \in StepOf
  BY DEF StepOf, Culprits
<1>2. Step(does, m) = <<x>>
  BY DEF Step
<1>3. \A d, h : Count(<<x>>, d, h) = IF h = m /\ d = does THEN 1 ELSE 0
  <2> TAKE d, h
  <2>1. Count(<<x>>, d, h) = IF x.what = h /\ x.does = d THEN 1 ELSE 0
    <3> HIDE DEF x
    <3> QED
      BY <1>1, CountOne
  <2>2. QED
    BY <2>1
<1>4. QED
  BY <1>1, <1>2, <1>3

LEMMA WholeBrief ==
    ASSUME NEW m \in Mutex
    PROVE  Whole(Brief(m))
<1>1. /\ Brief(m) \in Seq(StepOf) /\ Brief(m)[1].does = "touch"
      /\ \A d, h : Count(Brief(m), d, h) = IF h = m /\ d = "touch" THEN 1 ELSE 0
  <2>1. "touch" \in Deed /\ m \in Mutex \cup Installed
    BY DEF Deed
  <2>2. /\ Step("touch", m) \in Seq(StepOf)
        /\ Step("touch", m)[1] = [does |-> "touch", what |-> m, by |-> "other"]
        /\ \A d, h : Count(Step("touch", m), d, h) = IF h = m /\ d = "touch" THEN 1 ELSE 0
    BY <2>1, StepFacts
  <2>3. QED
    BY <2>2 DEF Brief
<1>2. QED
  BY <1>1 DEF Whole, Opens, Closed

LEMMA GoodBrief ==
    ASSUME NEW M, NEW m \in Mutex, m \in M
    PROVE  Good(Brief(m), M)
<1>1. Whole(Brief(m))
  BY WholeBrief
<1>2. /\ Brief(m) \in Seq(StepOf) /\ Len(Brief(m)) = 1
      /\ Brief(m)[1] = [does |-> "touch", what |-> m, by |-> "other"]
  BY StepFacts DEF Brief, Deed
<1>3. From(Brief(m), 1) = Brief(m)
  BY <1>2, SubSeqFull DEF From
<1>4. \A h : ~ Held(From(Brief(m), 1), h)
  BY <1>1, <1>2, <1>3, PlacesFinite DEF Held, Whole, Closed
<1>5. QED
  BY <1>1, <1>2, <1>4 DEF Good, Orderly

LEMMA HoldingInside ==
    ASSUME NEW m \in Mutex, NEW inner \in Seq(StepOf), NEW i \in 1..Len(inner)
    PROVE  /\ Holding(m, inner)[i + 1] = inner[i]
           /\ From(Holding(m, inner), i + 1) = From(inner, i) \o Step("give", m)
<1> DEFINE a == Step("take", m)
           b == Step("give", m)
           s == Holding(m, inner)
<1>1. /\ a \in Seq(StepOf) /\ b \in Seq(StepOf) /\ Len(a) = 1 /\ Len(b) = 1
      /\ a[1] = [does |-> "take", what |-> m, by |-> "other"]
      /\ b[1] = [does |-> "give", what |-> m, by |-> "other"]
      /\ \A d, h : Count(a, d, h) = IF h = m /\ d = "take" THEN 1 ELSE 0
      /\ \A d, h : Count(b, d, h) = IF h = m /\ d = "give" THEN 1 ELSE 0
  BY StepFacts DEF Deed
<1>2. s = (a \o inner) \o b
  BY DEF Holding
<1> HIDE DEF a, b, s
<1>3. a \o inner \in Seq(StepOf) /\ Len(a \o inner) = Len(inner) + 1
  <2>1. a \in Seq(StepOf) /\ inner \in Seq(StepOf) /\ Len(a) = 1
    BY <1>1
  <2>2. a \o inner \in Seq(StepOf) /\ Len(a \o inner) = Len(a) + Len(inner)
    BY <2>1, ConcatProperties
  <2>3. QED
    BY <2>1, <2>2
<1>4. s[i + 1] = inner[i]
  BY <1>1, <1>2, <1>3
<1>5. From(s, i + 1) = From(inner, i) \o b
  <2>1. From(s, i + 1) = From(a \o inner, i + 1) \o b
    BY <1>1, <1>2, <1>3, i + 1 \in 1..Len(a \o inner), FromConcatLeft
  <2>2. From(a \o inner, i + 1) = From(inner, i + 1 - Len(a))
    <3>1. i + 1 \in Len(a) + 1 .. Len(a) + Len(inner)
      BY <1>1
    <3>2. a \in Seq(StepOf)
      BY <1>1
    <3>3. QED
      BY <3>1, <3>2, FromConcatRight
  <2>3. i + 1 - Len(a) = i
    BY <1>1
  <2>4. QED
    BY <2>1, <2>2, <2>3
<1>6. QED
  BY <1>4, <1>5 DEF s, b

LEMMA HoldingParts ==
    ASSUME NEW m \in Mutex, NEW inner \in Seq(StepOf)
    PROVE  /\ Holding(m, inner) \in Seq(StepOf)
           /\ Len(Holding(m, inner)) = Len(inner) + 2
           /\ Holding(m, inner)[1].does = "take" /\ Holding(m, inner)[1].what = m
           /\ Holding(m, inner)[Len(inner) + 2].does = "give"
           /\ \A d, h : Count(Holding(m, inner), d, h) =
                Count(inner, d, h) + IF h = m /\ d \in {"take", "give"} THEN 1 ELSE 0
<1> DEFINE a == Step("take", m)
           b == Step("give", m)
           s == Holding(m, inner)
<1>1. /\ a \in Seq(StepOf) /\ b \in Seq(StepOf) /\ Len(a) = 1 /\ Len(b) = 1
      /\ a[1] = [does |-> "take", what |-> m, by |-> "other"]
      /\ b[1] = [does |-> "give", what |-> m, by |-> "other"]
      /\ \A d, h : Count(a, d, h) = IF h = m /\ d = "take" THEN 1 ELSE 0
      /\ \A d, h : Count(b, d, h) = IF h = m /\ d = "give" THEN 1 ELSE 0
  BY StepFacts DEF Deed
<1>2. s = (a \o inner) \o b
  BY DEF Holding
<1> HIDE DEF a, b, s
<1>3. a \o inner \in Seq(StepOf) /\ Len(a \o inner) = Len(inner) + 1
  <2>1. a \in Seq(StepOf) /\ inner \in Seq(StepOf) /\ Len(a) = 1
    BY <1>1
  <2>2. a \o inner \in Seq(StepOf) /\ Len(a \o inner) = Len(a) + Len(inner)
    BY <2>1, ConcatProperties
  <2>3. QED
    BY <2>1, <2>2
<1>4. s \in Seq(StepOf) /\ Len(s) = Len(inner) + 2
  BY <1>1, <1>2, <1>3
<1>5. s[1] = a[1] /\ s[Len(inner) + 2] = b[1]
  BY <1>1, <1>2, <1>3
<1>6. ASSUME NEW d, NEW h
      PROVE  Count(s, d, h) = Count(inner, d, h) + IF h = m /\ d \in {"take", "give"} THEN 1 ELSE 0
  <2>1. Count(s, d, h) = Count(a \o inner, d, h) + Count(b, d, h)
    <3>1. Count((a \o inner) \o b, d, h) = Count(a \o inner, d, h) + Count(b, d, h)
      <4> DEFINE l == a \o inner
      <4> HIDE DEF l
      <4>1. l \in Seq(StepOf)
        BY <1>3 DEF l
      <4>2. Count(l \o b, d, h) = Count(l, d, h) + Count(b, d, h)
        BY <1>1, <4>1, CountConcat
      <4>3. QED
        BY <4>2 DEF l
    <3>2. QED
      BY <1>2, <3>1
  <2>2. Count(a \o inner, d, h) = Count(a, d, h) + Count(inner, d, h)
    BY <1>1, CountConcat
  <2>3. Count(inner, d, h) \in Nat
    BY PlacesFinite
  <2>4. QED
    BY <1>1, <2>1, <2>2, <2>3
<1>7. QED
  BY <1>1, <1>4, <1>5, <1>6 DEF s, b

LEMMA WholeHolding ==
    ASSUME NEW m \in Mutex, NEW inner, Whole(inner)
    PROVE  Whole(Holding(m, inner))
<1>1. inner \in Seq(StepOf) /\ \A h : Count(inner, "give", h) = Count(inner, "take", h)
  BY DEF Whole, Closed
<1>2. /\ Holding(m, inner) \in Seq(StepOf) /\ Holding(m, inner)[1].does = "take"
      /\ \A d, h : Count(Holding(m, inner), d, h) =
                      Count(inner, d, h) + IF h = m /\ d \in {"take", "give"} THEN 1 ELSE 0
  BY <1>1, HoldingParts
<1>3. QED
  BY <1>1, <1>2 DEF Whole, Opens, Closed

LEMMA GoodHolding ==
    ASSUME NEW m \in Mutex, NEW inner, NEW M, NEW N,
           Good(inner, M), M \subseteq N, m \in N, \A n \in M : Fits(m, n)
    PROVE  Good(Holding(m, inner), N)
<1> DEFINE s == Holding(m, inner)
<1>1. inner \in Seq(StepOf)
  BY DEF Good, Whole
<1>2. Whole(s)
  BY WholeHolding DEF Good
<1>3. s \in Seq(StepOf) /\ Len(s) = Len(inner) + 2
  BY <1>1, HoldingParts
<1>4. ASSUME NEW i \in 1..Len(s), Asks(s[i])
      PROVE  s[i].what \in N /\ \A h : Held(From(s, i), h) => Fits(h, s[i].what)
  <2>1. CASE i = 1
    <3>1. From(s, 1) = s
      BY <1>3, SubSeqFull DEF From
    <3>2. \A h : ~ Held(s, h)
      BY <1>2, <1>3, PlacesFinite DEF Held, Whole, Closed
    <3>3. s[1].what = m
      BY <1>1, HoldingParts
    <3>4. QED
      BY <2>1, <3>1, <3>2, <3>3
  <2>2. CASE i \in 2..Len(inner) + 1
    <3>1. PICK j \in 1..Len(inner) : i = j + 1
      BY <2>2, <1>1
    <3>2. s[i] = inner[j] /\ From(s, i) = From(inner, j) \o Step("give", m)
      <4>1. s[j + 1] = inner[j] /\ From(s, j + 1) = From(inner, j) \o Step("give", m)
        BY <1>1, <3>1, HoldingInside
      <4> HIDE DEF s
      <4>2. QED
        BY <3>1, <4>1, Zenon
    <3>3. inner[j].what \in M /\ \A h : Held(From(inner, j), h) => Fits(h, inner[j].what)
      BY <1>4, <3>2 DEF Good, Orderly
    <3>4. ASSUME NEW h, Held(From(inner, j) \o Step("give", m), h)
          PROVE  h = m \/ Held(From(inner, j), h)
      <4>1. From(inner, j) \in Seq(StepOf) /\ Step("give", m) \in Seq(StepOf)
        BY <1>1, FromParts, StepFacts DEF Deed
      <4>2. \A d : Count(Step("give", m), d, h) = IF h = m /\ d = "give" THEN 1 ELSE 0
        BY StepFacts DEF Deed
      <4>3. /\ Count(From(inner, j), "give", h) \in Nat
            /\ Count(From(inner, j), "take", h) \in Nat
        BY <4>1, PlacesFinite
      <4>4. QED
        BY <3>4, <4>1, <4>2, <4>3, CountConcat DEF Held
    <3>5. QED
      BY <3>2, <3>3, <3>4
  <2>3. CASE i = Len(inner) + 2
    BY <1>1, <1>4, <2>3, HoldingParts DEF Asks
  <2>4. QED
    BY <1>1, <1>3, <2>1, <2>2, <2>3
<1>5. QED
  BY <1>2, <1>4 DEF Good, Orderly

LEMMA GoodIn ==
    ASSUME NEW by \in Culprits, NEW op, Whole(op), NEW M
    PROVE  Good(In(by, op), M)
<1> DEFINE s == In(by, op)
<1>1. op \in Seq(StepOf) /\ DOMAIN op = 1..Len(op)
  BY DEF Whole
<1>2. \A i \in 1..Len(op) : op[i] \in StepOf
  BY <1>1
<1>3. /\ s \in [1..Len(op) -> StepOf]
      /\ \A i \in 1..Len(op) : s[i].does = op[i].does /\ s[i].what = op[i].what /\ s[i].by # "other"
  BY <1>1, <1>2 DEF In, StepOf, Culprits
<1> HIDE DEF s
<1>4. s \in Seq(StepOf) /\ Len(s) = Len(op)
  BY <1>1, <1>3, LenProperties
<1>5. \A d, h : Places(s, d, h) = Places(op, d, h)
  BY <1>3, <1>4 DEF Places
<1>6. \A d, h : Count(s, d, h) = Count(op, d, h)
  BY <1>5 DEF Count
<1>7. Closed(s)
  BY <1>6 DEF Closed, Whole
<1>8. Opens(s)
  BY <1>1, <1>3, <1>4 DEF Opens, Whole
<1>9. \A i \in 1..Len(s) : ~ Asks(s[i])
  BY <1>3, <1>4 DEF Asks
<1>10. Good(s, M)
  BY <1>4, <1>7, <1>8, <1>9 DEF Good, Whole, Orderly
<1>11. QED
  BY <1>10 DEF s

LEMMA GoodNone ==
    ASSUME NEW M
    PROVE  Good(<<>>, M)
<1>1. <<>> \in Seq(StepOf) /\ Len(<<>>) = 0
  OBVIOUS
<1>2. Closed(<<>>)
  BY CountNone DEF Closed
<1>3. QED
  BY <1>1, <1>2 DEF Good, Whole, Opens, Orderly

-----------------------------------------------------------------------------
\* The operations of the library are good: event, app, log, thread, m_mutex, worker is their order.

Leaves == {"thread", "worker"} \cup Thread
WithLog == Leaves \cup {"log"}
WithApp == WithLog \cup {"app"}

LEMMA Ranks ==
    /\ Rank("event") = 0 /\ Rank("app") = 1 /\ Rank("log") = 2
    /\ Rank("thread") = 3 /\ Rank("worker") = 5
    /\ \A t \in Thread : Rank(t) = 4
<1>1. \A t \in Thread : t \notin {"app", "log", "thread", "worker", "event"}
  BY MutexAssumption DEF Global
<1>2. QED
  BY <1>1 DEF Rank

LEMMA Orders ==
    /\ \A n \in WithApp : Fits("event", n)
    /\ \A n \in WithApp : Fits("app", n)
    /\ \A n \in Leaves : Fits("log", n)
    /\ \A n \in Thread : Fits("thread", n)
    /\ \A t \in Thread : Fits(t, "worker")
    /\ Fits("worker", "worker")
BY Ranks DEF WithApp, WithLog, Leaves, Fits, Plain

LEMMA Kinds ==
    /\ Thread \subseteq Mutex
    /\ {"app", "log", "thread", "worker", "event"} \subseteq Mutex
    /\ Thread \subseteq Leaves /\ {"thread", "worker"} \subseteq Leaves
    /\ Leaves \subseteq WithLog /\ "log" \in WithLog
    /\ WithLog \subseteq WithApp /\ "app" \in WithApp
    /\ WithApp \subseteq Mutex
BY DEF Mutex, Global, Leaves, WithLog, WithApp

LEMMA GoodMore ==
    ASSUME NEW s, NEW M, NEW N, Good(s, M), M \subseteq N
    PROVE  Good(s, N)
BY DEF Good

LEMMA GoodLogLine == Good(LogLine, WithLog)
BY GoodBrief, Kinds DEF LogLine

LEMMA GoodGetters ==
    ASSUME NEW t \in Thread
    PROVE  /\ Good(Getter(t), Leaves) /\ Good(Getter(t), WithLog)
           /\ Good(GetTask, Leaves) /\ Good(GetWorkerType, Leaves) /\ Good(GetWorkerType, WithLog)
           /\ Good(StreamThread(t), Leaves) /\ Good(StreamThread(t), WithLog)
<1>1. Good(Getter(t), Leaves) /\ Good(GetTask, Leaves) /\ Good(GetWorkerType, Leaves)
  BY GoodBrief, Kinds DEF Getter, GetTask, GetWorkerType
<1>2. Good(StreamThread(t), Leaves)
  BY <1>1, GoodConcat DEF StreamThread
<1>3. QED
  BY <1>1, <1>2, GoodMore, Kinds

LEMMA GoodThreadType ==
    ASSUME NEW t \in Thread
    PROVE  Good(GetThreadType(t), WithApp)
<1>1. Good(GetWorkerType, {"worker"})
  BY GoodBrief, Kinds DEF GetWorkerType
<1>2. Good(GetThreadType(t), Leaves)
  BY <1>1, GoodHolding, Orders, Kinds DEF GetThreadType
<1>3. QED
  BY <1>2, GoodMore, Kinds

LEMMA GoodLogThread ==
    ASSUME NEW t \in Thread
    PROVE  Good(LogThread(t), WithLog)
BY GoodGetters, GoodHolding, Orders, Kinds DEF LogThread

LEMMA GoodStart ==
    ASSUME NEW t \in Thread
    PROVE  Good(Start(t), WithLog)
<1>1. Good(Brief(t), Thread)
  BY GoodBrief, Kinds
<1>2. Good(Start(t), Leaves)
  BY <1>1, GoodHolding, Orders, Kinds DEF Start
<1>3. QED
  BY <1>2, GoodMore, Kinds

LEMMA GoodTerminate ==
    ASSUME NEW t \in Thread
    PROVE  Good(Terminate(t), WithLog)
<1>1. Good(Brief(t), WithLog)
  BY GoodBrief, Kinds
<1>2. QED
  BY <1>1, GoodLogLine, GoodConcat DEF Terminate

LEMMA GoodPunt == Good(Punt, WithApp) /\ Good(PostToApp, WithApp) /\ Whole(Punt)
<1>1. Good(PostToApp, WithApp) /\ Good(LogLine, WithApp)
  BY GoodBrief, Kinds DEF PostToApp, LogLine
<1>2. Good(Punt, WithApp)
  BY <1>1, GoodConcat DEF Punt
<1>3. QED
  BY <1>1, <1>2 DEF Good

LEMMA GoodQuit ==
    ASSUME NEW t \in Thread, NEW M
    PROVE  Good(Quit(t), M)
BY GoodPunt, WholeHolding, Kinds, GoodIn DEF Quit, Culprits

LEMMA GoodTermination ==
    ASSUME NEW t \in Thread, NEW M
    PROVE  Good(SignalTermination(t), M) /\ Good(WorkerStop(t), M)
<1>1. Whole(GetWorkered(t)) /\ Whole(Terminate(t))
  BY GoodGetters, GoodTerminate DEF GetWorkered, Good
<1>2. Whole(GetWorkered(t) \o Terminate(t))
  BY <1>1, WholeConcat
<1>3. Whole(Holding("app", GetWorkered(t) \o Terminate(t)))
  BY <1>2, WholeHolding, Kinds
<1>4. Whole(Holding("worker", Holding("app", GetWorkered(t) \o Terminate(t))))
  BY <1>3, WholeHolding, Kinds
<1>5. \A N : Good(SignalTermination(t), N)
  BY <1>4, GoodIn DEF SignalTermination, Culprits
<1>6. Whole(Holding("worker", SignalTermination(t)))
  BY <1>5, WholeHolding, Kinds DEF Good
<1>7. QED
  BY <1>5, <1>6, GoodIn DEF WorkerStop, Culprits

\* Those that hold the Application's mutex or come inside of one.
LEMMA GoodForApp ==
    ASSUME NEW t \in Thread
    PROVE  /\ Good(PostToWorker(t), WithApp) /\ Good(StartThread(t), WithApp)
           /\ Good(AddThread(t), WithApp) /\ Good(RemoveThread(t), WithApp)
           /\ Good(RefuseToRemove(t), WithApp) /\ Good(StopSelects(t), WithApp)
           /\ Good(GetStatus(t), WithApp)
<1>1. \A inner : Good(inner, WithApp) => Good(Holding("app", inner), WithApp)
  BY GoodHolding, Orders, Kinds
<1>2. \A inner : Good(inner, WithLog) => Good(inner, WithApp)
  BY GoodMore, Kinds
<1>3. /\ Good(Getter(t), WithLog) /\ Good(GetWorkerType, WithLog) /\ Good(StreamThread(t), WithLog)
      /\ Good(LogThread(t), WithLog) /\ Good(LogLine, WithLog) /\ Good(Start(t), WithLog)
      /\ Good(Terminate(t), WithLog)
  BY GoodGetters, GoodLogThread, GoodLogLine, GoodStart, GoodTerminate
<1>4. Good(PostToWorker(t), WithApp)
  BY <1>1, <1>2, <1>3, GoodConcat DEF PostToWorker, GetWorkered, Send
<1>5. Good(StartThread(t), WithApp)
  BY <1>1, <1>2, <1>3, GoodConcat DEF StartThread
<1>6. Good(AddThread(t), WithApp)
  BY <1>1, <1>2, <1>3, GoodConcat DEF AddThread, MakeEvent
<1>7. Good(Holding("log", GetTask), WithLog)
  BY GoodGetters, GoodHolding, Orders, Kinds
<1>8. Good(RemoveThread(t), WithApp)
  <2>1. Good(Holding("log", GetTask) \o Getter(t) \o LogLine, WithApp)
    BY <1>2, <1>3, <1>7, GoodConcat
  <2>2. QED
    BY <1>1, <2>1, GoodPunt, GoodConcat DEF RemoveThread
<1>9. Good(RefuseToRemove(t), WithApp)
  BY <1>1, <1>2, <1>3, <1>7, GoodConcat DEF RefuseToRemove
<1>10. Good(StopSelects(t), WithApp)
  <2>1. Good(Getter(t) \o GetWorkerType \o LogLine \o Terminate(t), WithLog)
    BY <1>3, GoodConcat
  <2>2. QED
    BY <1>1, <1>2, <2>1 DEF StopSelects
<1>11. Good(GetStatus(t), WithApp)
  <2>1. Good(Brief("worker"), {"worker"})
    BY GoodBrief, Kinds
  <2>2. Good(WriteToObject, WithLog)
    BY <2>1, GoodHolding, Orders, Kinds DEF WriteToObject
  <2>3. QED
    BY <1>1, <1>2, <1>3, <2>2, GoodConcat DEF GetStatus
<1>12. QED
  BY <1>4, <1>5, <1>6, <1>8, <1>9, <1>10, <1>11

LEMMA GoodEvent ==
    ASSUME NEW t \in Thread, NEW handler, NEW ending, Good(handler, WithApp), Good(ending, WithApp)
    PROVE  Good(Event(t, handler, ending), Mutex)
<1>1. Good(Brief(t), WithApp) /\ Good(LogThread(t), WithApp)
  BY GoodBrief, GoodLogThread, GoodMore, Kinds
<1>2. Good(Brief(t) \o handler \o LogThread(t) \o ending, WithApp)
  BY <1>1, GoodConcat
<1>3. QED
  BY <1>2, GoodHolding, Orders, Kinds DEF Event

LEMMA GoodHandler ==
    ASSUME NEW t \in Thread, NEW h \in Handlers(t)
    PROVE  Good(h, WithApp)
<1>1. CASE h \in {<<>>, SignalTermination(t), WorkerStop(t)}
  BY <1>1, GoodNone, GoodTermination
<1>2. ASSUME NEW u \in Thread, h \in {PostToWorker(u), StartThread(u), GetStatus(u), GetThreadType(u)}
      PROVE  Good(h, WithApp)
  BY <1>2, GoodForApp, GoodThreadType
<1>3. QED
  BY <1>1, <1>2 DEF Handlers

LEMMA OperationsAreGood ==
    ASSUME NEW a \in Actor, NEW op \in Operations[a]
    PROVE  Good(op, Mutex)
<1>1. /\ Good(LogLine, Mutex) /\ Good(PostToApp, Mutex)
      /\ \A t \in Thread : /\ Good(LogThread(t), Mutex) /\ Good(Quit(t), Mutex) /\ Good(Getter(t), Mutex)
                           /\ \A s : Good(s, WithApp) => Good(s, Mutex)
  BY GoodLogLine, GoodPunt, GoodLogThread, GoodQuit, GoodGetters, GoodMore, Kinds
<1>2. CASE op \in {LogLine, PostToApp}
  BY <1>1, <1>2
<1>3. ASSUME NEW t \in Thread,
             op \in {AddThread(t), RemoveThread(t), RefuseToRemove(t), StopSelects(t), Getter(t), Quit(t),
                     GetStatus(t), PostToWorker(t), GetThreadType(t)}
      PROVE  Good(op, Mutex)
  BY <1>1, <1>3, GoodForApp, GoodThreadType
<1>4. ASSUME a \in Thread,
             op \in {LogThread(a), Quit(a), Getter(a), GetThreadType(a), Event(a, <<>>, Quit(a))}
                      \cup {Event(a, h, <<>>) : h \in Handlers(a)}
      PROVE  Good(op, Mutex)
  <2>1. \A h \in Handlers(a) : Good(Event(a, h, <<>>), Mutex)
    BY <1>4, GoodHandler, GoodEvent, GoodNone
  <2>2. Good(Event(a, <<>>, Quit(a)), Mutex)
    BY <1>4, GoodQuit, GoodNone, GoodEvent
  <2>3. Good(GetThreadType(a), Mutex)
    BY <1>1, <1>4, GoodThreadType
  <2>4. QED
    BY <1>1, <1>4, <2>1, <2>2, <2>3
<1>5. QED
  BY <1>2, <1>3, <1>4 DEF Operations, Actor

-----------------------------------------------------------------------------
\* What is left of an operation is in order too, whatever is dropped from its front or put there.

LEMMA FromFrom ==
    ASSUME NEW s \in Seq(StepOf), NEW i \in 1..Len(s), NEW j \in 1..Len(s) - i + 1
    PROVE  From(From(s, i), j) = From(s, i + j - 1)
<1> DEFINE r == From(s, i)
           k == i + j - 1
<1>1. r \in Seq(StepOf) /\ Len(r) = Len(s) - i + 1 /\ j \in 1..Len(r) /\ k \in 1..Len(s)
  BY FromParts
<1>2. \A n \in 1..Len(r) : r[n] = s[i + n - 1]
  BY FromParts
<1> HIDE DEF r
<1>3. /\ From(r, j) \in Seq(StepOf) /\ Len(From(r, j)) = Len(r) - j + 1
      /\ \A n \in 1..Len(r) - j + 1 : From(r, j)[n] = r[j + n - 1]
  BY <1>1, FromParts
<1>4. /\ From(s, k) \in Seq(StepOf) /\ Len(From(s, k)) = Len(s) - k + 1
      /\ \A n \in 1..Len(s) - k + 1 : From(s, k)[n] = s[k + n - 1]
  BY <1>1, FromParts
<1>5. Len(From(r, j)) = Len(From(s, k))
  BY <1>1, <1>3, <1>4
<1>6. \A n \in 1..Len(From(r, j)) : From(r, j)[n] = From(s, k)[n]
  <2> TAKE n \in 1..Len(From(r, j))
  <2>1. From(r, j)[n] = r[j + n - 1] /\ j + n - 1 \in 1..Len(r)
    BY <1>1, <1>3
  <2>2. r[j + n - 1] = s[i + (j + n - 1) - 1]
    BY <1>2, <2>1
  <2>3. From(s, k)[n] = s[k + n - 1]
    BY <1>4, <1>5
  <2>4. QED
    BY <2>1, <2>2, <2>3
<1>7. From(r, j) = From(s, k)
  BY <1>3, <1>4, <1>5, <1>6, SeqEqual
<1>8. QED
  BY <1>7 DEF r

LEMMA OrderlyFrom ==
    ASSUME NEW s \in Seq(StepOf), NEW i \in 1..Len(s), Orderly(s)
    PROVE  Orderly(From(s, i))
<1>1. ASSUME NEW j \in 1..Len(From(s, i)), Asks(From(s, i)[j]), NEW h, Held(From(From(s, i), j), h)
      PROVE  Fits(h, From(s, i)[j].what)
  <2>1. j \in 1..Len(s) - i + 1 /\ From(s, i)[j] = s[i + j - 1] /\ i + j - 1 \in 1..Len(s)
    BY FromParts
  <2>2. From(From(s, i), j) = From(s, i + j - 1)
    BY <2>1, FromFrom
  <2>3. QED
    BY <1>1, <2>1, <2>2 DEF Orderly
<1>2. QED
  BY <1>1 DEF Orderly

LEMMA OrderlyBehind ==
    ASSUME NEW s \in Seq(StepOf), NEW t \in Seq(StepOf), Orderly(t),
           \A i \in 1..Len(s) : ~ Asks(s[i])
    PROVE  Orderly(s \o t)
<1>1. s \o t \in Seq(StepOf) /\ Len(s \o t) = Len(s) + Len(t)
  BY ConcatProperties
<1>2. ASSUME NEW i \in 1..Len(s \o t), Asks((s \o t)[i]), NEW h, Held(From(s \o t, i), h)
      PROVE  Fits(h, (s \o t)[i].what)
  <2>1. i > Len(s)
    BY <1>1, <1>2
  <2>2. i - Len(s) \in 1..Len(t) /\ (s \o t)[i] = t[i - Len(s)]
    BY <1>1, <2>1
  <2>3. From(s \o t, i) = From(t, i - Len(s))
    BY <1>1, <2>1, FromConcatRight
  <2>4. QED
    BY <1>2, <2>2, <2>3 DEF Orderly
<1>3. QED
  BY <1>2 DEF Orderly

\* One step and those behind it.
LEMMA HeadAndTail ==
    ASSUME NEW s \in Seq(StepOf), s # <<>>
    PROVE  /\ Tail(s) \in Seq(StepOf) /\ Head(s) \in StepOf /\ Head(s) = s[1]
           /\ \A d, h : Count(s, d, h) =
                Count(Tail(s), d, h) + IF Head(s).what = h /\ Head(s).does = d THEN 1 ELSE 0
           /\ Orderly(s) => Orderly(Tail(s))
<1>1. Tail(s) \in Seq(StepOf) /\ Head(s) \in StepOf /\ Head(s) = s[1] /\ Len(s) > 0
  BY HeadTailProperties
<1>2. s = <<Head(s)>> \o Tail(s)
  <2> DEFINE r == <<Head(s)>> \o Tail(s)
  <2>1. <<Head(s)>> \in Seq(StepOf) /\ Len(<<Head(s)>>) = 1
    BY <1>1
  <2>2. /\ r \in Seq(StepOf) /\ Len(r) = 1 + Len(Tail(s))
        /\ \A i \in 1..1 + Len(Tail(s)) : r[i] = IF i <= 1 THEN <<Head(s)>>[i] ELSE Tail(s)[i - 1]
    BY <1>1, <2>1, ConcatProperties
  <2>3. Len(Tail(s)) = Len(s) - 1 /\ \A i \in 1..Len(s) - 1 : Tail(s)[i] = s[i + 1]
    BY <1>1
  <2> HIDE DEF r
  <2>4. \A i \in 1..Len(s) : s[i] = r[i]
    BY <1>1, <2>2, <2>3
  <2>5. s = r
    BY <1>1, <2>2, <2>3, <2>4, SeqEqual
  <2>6. QED
    BY <2>5 DEF r
<1>3. ASSUME NEW d, NEW h
      PROVE  Count(s, d, h) = Count(Tail(s), d, h) + IF Head(s).what = h /\ Head(s).does = d THEN 1 ELSE 0
  <2>1. <<Head(s)>> \in Seq(StepOf)
    BY <1>1
  <2>2. Count(<<Head(s)>> \o Tail(s), d, h) = Count(<<Head(s)>>, d, h) + Count(Tail(s), d, h)
    <3> DEFINE x == <<Head(s)>>
               t == Tail(s)
    <3>1. x \in Seq(StepOf) /\ t \in Seq(StepOf)
      BY <1>1, <2>1
    <3> HIDE DEF x, t
    <3>2. Count(x \o t, d, h) = Count(x, d, h) + Count(t, d, h)
      BY <3>1, CountConcat
    <3>3. QED
      BY <3>2 DEF x, t
  <2>3. Count(<<Head(s)>>, d, h) = IF Head(s).what = h /\ Head(s).does = d THEN 1 ELSE 0
    BY <1>1, CountOne
  <2>4. Count(Tail(s), d, h) \in Nat
    BY <1>1, PlacesFinite
  <2>5. Count(s, d, h) = Count(<<Head(s)>> \o Tail(s), d, h)
    BY <1>2, Zenon
  <2>6. QED
    BY <2>2, <2>3, <2>4, <2>5
<1>4. ASSUME Orderly(s) PROVE Orderly(Tail(s))
  <2> DEFINE n == Len(s)
             t == Tail(s)
  <2>1. n \in Nat \ {0} /\ Len(t) = n - 1
    BY <1>1
  <2>2. n > 1 => t = From(s, 2)
    BY <1>1 DEF From
  <2>3. n > 1 => Orderly(From(s, 2))
    BY <1>4, <2>1, OrderlyFrom
  <2> HIDE DEF n, t
  <2>4. n = 1 => Orderly(t)
    BY <2>1 DEF Orderly
  <2>5. Orderly(t)
    BY <2>1, <2>2, <2>3, <2>4
  <2>6. QED
    BY <2>5 DEF t
<1>5. QED
  BY <1>1, <1>3, <1>4

\* Giving back takes nothing.
LEMMA SettledFacts ==
    ASSUME NEW op \in Seq(StepOf), Orderly(op)
    PROVE  /\ Settled(op) \in Seq(StepOf) /\ Orderly(Settled(op)) /\ Opens(Settled(op))
           /\ \A h : Held(Settled(op), h) => Held(op, h)
<1> DEFINE waits == {i \in DOMAIN op : op[i].does \in {"take", "touch"}}
           k == Min(waits)
<1>1. CASE waits = {}
  <2>1. Settled(op) = <<>>
    BY <1>1 DEF Settled
  <2>2. <<>> \in Seq(StepOf) /\ Orderly(<<>>) /\ Opens(<<>>) /\ \A h : ~ Held(<<>>, h)
    BY CountNone DEF Orderly, Opens, Held
  <2>3. QED
    BY <2>1, <2>2
<1>2. CASE waits # {}
  <2>1. waits \subseteq Nat /\ DOMAIN op = 1..Len(op)
    OBVIOUS
  <2>2. k \in waits /\ \A i \in waits : k <= i
    <3> HIDE DEF waits
    <3>1. \E x \in waits : \A y \in waits : x <= y
      BY <1>2, <2>1, LeastElement
    <3>2. QED
      BY <3>1 DEF Min
  <2>3. Settled(op) = From(op, k)
    BY <1>2 DEF Settled, From
  <2>4. k \in 1..Len(op) /\ op[k].does \in {"take", "touch"}
    BY <2>1, <2>2
  <2>5. \A i \in 1..k - 1 : op[i].does \notin {"take", "touch"}
    <3> SUFFICES ASSUME NEW i \in 1..k - 1, op[i].does \in {"take", "touch"} PROVE FALSE
      OBVIOUS
    <3>1. i \in waits
      BY <2>1, <2>4
    <3>2. k <= i
      BY <2>2, <3>1
    <3> HIDE DEF waits, k
    <3>3. QED
      BY <2>4, <3>2
  <2> HIDE DEF waits, k
  <2> DEFINE past == SubSeq(op, 1, k - 1)
             rest == From(op, k)
  <2>6. past \in Seq(StepOf) /\ Len(past) = k - 1 /\ \A i \in 1..k - 1 : past[i] = op[i]
    BY <2>4, SubSeqProperties
  <2>7. rest \in Seq(StepOf) /\ Len(rest) = Len(op) - k + 1 /\ rest[1] = op[k]
    <3>1. /\ rest \in Seq(StepOf) /\ Len(rest) = Len(op) - k + 1
          /\ \A j \in 1..Len(op) - k + 1 : rest[j] = op[k + j - 1]
      BY <2>4, FromParts
    <3>2. 1 \in 1..Len(op) - k + 1 /\ k + 1 - 1 = k
      BY <2>4
    <3> HIDE DEF rest
    <3>3. QED
      BY <3>1, <3>2
  <2> HIDE DEF past, rest
  <2>8. op = past \o rest
    <3>1. Len(past \o rest) = Len(op) /\ past \o rest \in Seq(StepOf)
      BY <2>4, <2>6, <2>7
    <3>2. \A i \in 1..Len(op) : (past \o rest)[i] = op[i]
      <4> TAKE i \in 1..Len(op)
      <4>1. CASE i <= k - 1
        <5>1. i \in 1..Len(past) /\ i \in 1..k - 1
          BY <2>4, <2>6, <4>1
        <5>2. (past \o rest)[i] = past[i]
          BY <2>6, <2>7, <5>1, ConcatProperties
        <5>3. QED
          BY <2>6, <5>1, <5>2
      <4>2. CASE i > k - 1
        <5>1. i - (k - 1) \in 1..Len(op) - k + 1
          BY <2>4, <4>2
        <5>2. rest[i - (k - 1)] = op[k + (i - (k - 1)) - 1]
          BY <2>4, <5>1, FromParts DEF rest
        <5>3. (past \o rest)[i] = rest[i - (k - 1)]
          <6>1. i \in 1..Len(past) + Len(rest) /\ ~(i <= Len(past)) /\ Len(past) = k - 1
            BY <2>4, <2>6, <2>7, <4>2
          <6>2. (past \o rest)[i] = IF i <= Len(past) THEN past[i] ELSE rest[i - Len(past)]
            BY <2>6, <2>7, <6>1, ConcatProperties
          <6>3. QED
            BY <6>1, <6>2
        <5>4. k + (i - (k - 1)) - 1 = i
          BY <2>4
        <5>5. QED
          BY <5>2, <5>3, <5>4
      <4>3. i <= k - 1 \/ i > k - 1
        BY <2>4
      <4>4. QED
        BY <4>1, <4>2, <4>3
    <3>3. QED
      BY <3>1, <3>2, SeqEqual
  <2>9. ASSUME NEW h, Held(rest, h) PROVE Held(op, h)
    <3>1. Places(past, "take", h) = {}
      BY <2>5, <2>6 DEF Places
    <3>2. Count(past, "take", h) = 0
      BY <3>1, FS_EmptySet DEF Count
    <3>3. \A d : Count(op, d, h) = Count(past, d, h) + Count(rest, d, h)
      <4> TAKE d
      <4>1. Count(past \o rest, d, h) = Count(past, d, h) + Count(rest, d, h)
        BY <2>6, <2>7, CountConcat
      <4>2. QED
        BY <2>8, <4>1, Zenon
    <3>4. /\ Count(past, "give", h) \in Nat /\ Count(rest, "give", h) \in Nat
          /\ Count(rest, "take", h) \in Nat
      BY <2>6, <2>7, PlacesFinite
    <3>5. QED
      BY <2>9, <3>2, <3>3, <3>4 DEF Held
  <2>10. Orderly(rest)
    BY <2>4, OrderlyFrom DEF rest
  <2>11. Opens(rest)
    BY <2>4, <2>7 DEF Opens
  <2>12. QED
    BY <2>3, <2>7, <2>9, <2>10, <2>11 DEF rest
<1>3. QED
  BY <1>1, <1>2

LEMMA HandlerFacts ==
    ASSUME NEW sig \in Installed
    PROVE  LET s == HandleSignal(sig)
           IN  /\ s \in Seq(StepOf) /\ s # <<>> /\ Opens(s) /\ Closed(s)
               /\ \A i \in 1..Len(s) : ~ Asks(s[i])
<1> DEFINE p == In("handleSignal", Punt)
           r == Step("return", sig)
<1>1. Good(p, {})
  BY GoodPunt, GoodIn DEF Culprits
<1>2. p \in Seq(StepOf) /\ Opens(p) /\ Closed(p) /\ \A i \in 1..Len(p) : ~ Asks(p[i])
  BY <1>1 DEF Good, Whole
<1>3. p # <<>>
  <2>1. Punt \in Seq(StepOf) /\ Punt[1].does = "touch" /\ Len(Punt) = 2
    <3>1. /\ LogLine \in Seq(StepOf) /\ PostToApp \in Seq(StepOf)
          /\ Len(LogLine) = 1 /\ Len(PostToApp) = 1 /\ LogLine[1].does = "touch"
      <4>1. "touch" \in Deed /\ "log" \in Mutex \cup Installed /\ "app" \in Mutex \cup Installed
        BY Kinds DEF Deed
      <4>2. /\ Step("touch", "log") \in Seq(StepOf) /\ Len(Step("touch", "log")) = 1
            /\ Step("touch", "log")[1] = [does |-> "touch", what |-> "log", by |-> "other"]
        BY <4>1, StepFacts
      <4>3. Step("touch", "app") \in Seq(StepOf) /\ Len(Step("touch", "app")) = 1
        BY <4>1, StepFacts
      <4>4. QED
        BY <4>2, <4>3 DEF LogLine, PostToApp, Brief
    <3>2. /\ Len(LogLine \o PostToApp) = 2 /\ LogLine \o PostToApp \in Seq(StepOf)
          /\ (LogLine \o PostToApp)[1] = LogLine[1]
      <4>1. 1 \in 1..Len(LogLine) + Len(PostToApp) /\ 1 <= Len(LogLine)
        BY <3>1
      <4>2. /\ Len(LogLine \o PostToApp) = Len(LogLine) + Len(PostToApp)
            /\ LogLine \o PostToApp \in Seq(StepOf)
        BY <3>1, ConcatProperties
      <4>3. (LogLine \o PostToApp)[1] =
              IF 1 <= Len(LogLine) THEN LogLine[1] ELSE PostToApp[1 - Len(LogLine)]
        BY <3>1, <4>1, ConcatProperties
      <4>4. QED
        BY <3>1, <4>1, <4>2, <4>3
    <3>3. QED
      BY <3>1, <3>2 DEF Punt
  <2>2. DOMAIN p = 1..2
    BY <2>1 DEF In
  <2>3. QED
    BY <2>2
<1>4. /\ r \in Seq(StepOf) /\ Len(r) = 1 /\ r[1].does = "return"
      /\ \A d, h : Count(r, d, h) = IF h = sig /\ d = "return" THEN 1 ELSE 0
  <2>1. "return" \in Deed /\ sig \in Mutex \cup Installed
    BY DEF Deed
  <2>2. /\ r \in Seq(StepOf) /\ Len(r) = 1 /\ r[1] = [does |-> "return", what |-> sig, by |-> "other"]
        /\ \A d, h : Count(r, d, h) = IF h = sig /\ d = "return" THEN 1 ELSE 0
    BY <2>1, StepFacts
  <2>3. QED
    BY <2>2
<1> HIDE DEF p, r
<1>5. /\ p \o r \in Seq(StepOf) /\ Len(p \o r) = Len(p) + 1 /\ Len(p) > 0
      /\ \A i \in 1..Len(p) : (p \o r)[i] = p[i]
      /\ (p \o r)[Len(p) + 1] = r[1]
  <2>1. Len(p) \in Nat /\ Len(p) > 0
    BY <1>2, <1>3, EmptySeq
  <2>2. /\ p \o r \in Seq(StepOf) /\ Len(p \o r) = Len(p) + Len(r)
        /\ \A i \in 1..Len(p) + Len(r) : (p \o r)[i] = IF i <= Len(p) THEN p[i] ELSE r[i - Len(p)]
    BY <1>2, <1>4, ConcatProperties
  <2>3. \A i \in 1..Len(p) : (p \o r)[i] = p[i]
    BY <1>4, <2>1, <2>2
  <2>4. (p \o r)[Len(p) + 1] = r[1]
    <3>1. Len(p) + 1 \in 1..Len(p) + Len(r) /\ ~ (Len(p) + 1 <= Len(p)) /\ Len(p) + 1 - Len(p) = 1
      BY <1>4, <2>1
    <3>2. QED
      BY <2>2, <3>1
  <2>5. QED
    BY <1>4, <2>1, <2>2, <2>3, <2>4
<1>6. Opens(p \o r)
  BY <1>2, <1>3, <1>5 DEF Opens
<1>7. Closed(p \o r)
  <2>1. \A d, h : Count(p \o r, d, h) = Count(p, d, h) + Count(r, d, h)
    BY <1>2, <1>4, CountConcat
  <2>2. QED
    BY <1>2, <1>4, <2>1 DEF Closed
<1>8. \A i \in 1..Len(p \o r) : ~ Asks((p \o r)[i])
  BY <1>2, <1>4, <1>5 DEF Asks
<1>9. HandleSignal(sig) = p \o r
  BY DEF HandleSignal, p, r
<1>10. p \o r # <<>>
  BY <1>5
<1>11. QED
  BY <1>5, <1>6, <1>7, <1>8, <1>9, <1>10

-----------------------------------------------------------------------------
\* The inductive invariant: what each thread has to do is in order, and a mutex has one owner.

LockInv ==
  /\ todo \in [Actor -> Seq(StepOf)]
  /\ \A a \in Actor : Orderly(todo[a]) /\ Opens(todo[a])
  /\ \A m : \A a, b \in Actor : Held(todo[a], m) /\ Held(todo[b], m) => a = b

LEMMA HoldsIsHeld ==
    ASSUME LockInv, NEW a \in Actor, NEW m
    PROVE  Holds(a, m) <=> Held(todo[a], m)
<1>1. todo[a] \in Seq(StepOf) /\ DOMAIN todo[a] = 1..Len(todo[a])
  BY DEF LockInv
<1>2. \A d : Steps(a, d, m) = Places(todo[a], d, m)
  BY <1>1 DEF Steps, Places
<1>3. QED
  BY <1>2 DEF Holds, Held, Count

\* A thread's sequence may become s, if what it newly holds was nobody else's.
LEMMA LockInvChange ==
    ASSUME LockInv, NEW a \in Actor, NEW s \in Seq(StepOf), Orderly(s), Opens(s),
           todo' = [todo EXCEPT ![a] = s],
           \A m : Held(s, m) => Held(todo[a], m) \/ Owners(m) \subseteq {a}
    PROVE  LockInv'
<1>1. /\ todo' \in [Actor -> Seq(StepOf)]
      /\ \A b \in Actor : todo'[b] = IF b = a THEN s ELSE todo[b]
  BY DEF LockInv
<1>2. \A b \in Actor : Orderly(todo'[b]) /\ Opens(todo'[b])
  BY <1>1 DEF LockInv
<1>3. ASSUME NEW b \in Actor, NEW m, Held(s, m), Held(todo[b], m) PROVE b = a
  <2>1. CASE Held(todo[a], m)
    BY <1>3, <2>1 DEF LockInv
  <2>2. CASE Owners(m) \subseteq {a}
    <3>1. b \in Owners(m)
      BY <1>3, HoldsIsHeld DEF Owners
    <3>2. QED
      BY <2>2, <3>1
  <2>3. QED
    BY <1>3, <2>1, <2>2
<1>4. \A m : \A b, c \in Actor : Held(todo'[b], m) /\ Held(todo'[c], m) => b = c
  <2> SUFFICES ASSUME NEW m, NEW b \in Actor, NEW c \in Actor, Held(todo'[b], m), Held(todo'[c], m)
               PROVE  b = c
    OBVIOUS
  <2>1. CASE b = a /\ c # a
    BY <1>1, <1>3, <2>1
  <2>2. CASE b # a /\ c = a
    BY <1>1, <1>3, <2>2
  <2>3. CASE b # a /\ c # a
    BY <1>1, <2>3 DEF LockInv
  <2>4. QED
    BY <2>1, <2>2, <2>3
<1>5. QED
  BY <1>1, <1>2, <1>4 DEF LockInv

LEMMA LockInvInit == LocksInit => LockInv
<1> SUFFICES ASSUME LocksInit PROVE LockInv
  OBVIOUS
<1>1. \A a \in Actor : todo[a] = <<>>
  BY DEF LocksInit
<1>2. <<>> \in Seq(StepOf) /\ Orderly(<<>>) /\ Opens(<<>>) /\ \A m : ~ Held(<<>>, m)
  BY CountNone DEF Orderly, Opens, Held
<1>3. todo \in [Actor -> Seq(StepOf)]
  BY <1>2 DEF LocksInit
<1>4. QED
  BY <1>1, <1>2, <1>3 DEF LockInv

LEMMA LockInvBegin ==
    ASSUME LockInv, NEW a \in Actor, NEW op \in Operations[a], Begin(a, op)
    PROVE  LockInv'
<1>1. Good(op, Mutex)
  BY OperationsAreGood
<1>2. op \in Seq(StepOf) /\ Orderly(op) /\ Opens(op) /\ Closed(op)
  BY <1>1 DEF Good, Whole
<1>3. \A m : ~ Held(op, m)
  BY <1>2, PlacesFinite DEF Closed, Held
<1>4. QED
  BY <1>2, <1>3, LockInvChange DEF Begin

LEMMA LockInvAdvance ==
    ASSUME LockInv, NEW a \in Actor, Advance(a)
    PROVE  LockInv'
<1> DEFINE r == Tail(todo[a])
<1>1. todo[a] \in Seq(StepOf) /\ todo[a] # <<>> /\ Orderly(todo[a])
  BY DEF LockInv, Advance, Free, Busy
<1>2. /\ r \in Seq(StepOf) /\ Orderly(r)
      /\ \A d, m : Count(todo[a], d, m) =
                     Count(r, d, m) + IF Now(a).what = m /\ Now(a).does = d THEN 1 ELSE 0
  BY <1>1, HeadAndTail DEF Now
<1>3. Owners(Now(a).what) \subseteq {a}
  BY DEF Advance, Free, Takable
<1>4. todo' = [todo EXCEPT ![a] = Settled(r)]
  BY DEF Advance
<1> HIDE DEF r
<1>5. ASSUME NEW m, Held(r, m) PROVE Held(todo[a], m) \/ Owners(m) \subseteq {a}
  <2>1. CASE Now(a).what = m
    BY <1>3, <2>1
  <2>2. CASE Now(a).what # m
    <3>1. /\ Count(todo[a], "give", m) = Count(r, "give", m) + 0
          /\ Count(todo[a], "take", m) = Count(r, "take", m) + 0
      BY <1>2, <2>2
    <3>2. Count(r, "give", m) \in Nat /\ Count(r, "take", m) \in Nat
      BY <1>2, PlacesFinite
    <3>3. QED
      BY <1>5, <3>1, <3>2 DEF Held
  <2>3. QED
    BY <2>1, <2>2
<1>6. /\ Settled(r) \in Seq(StepOf) /\ Orderly(Settled(r)) /\ Opens(Settled(r))
      /\ \A m : Held(Settled(r), m) => Held(r, m)
  BY <1>2, SettledFacts
<1>7. QED
  BY <1>4, <1>5, <1>6, LockInvChange

\* A handler in front of rest: it holds nothing, and all its steps are in "handleSignal".
LEMMA LockInvInterrupts ==
    ASSUME LockInv, NEW a \in Actor, NEW sig, NEW rest \in Seq(StepOf), Orderly(rest),
           Interrupts(a, sig, rest),
           \A m : Held(rest, m) => Held(todo[a], m) \/ Owners(m) \subseteq {a}
    PROVE  LockInv'
<1> DEFINE s == HandleSignal(sig)
<1>1. sig \in Installed /\ todo' = [todo EXCEPT ![a] = s \o rest]
  BY DEF Interrupts
<1>2. /\ s \in Seq(StepOf) /\ s # <<>> /\ Opens(s) /\ Closed(s)
      /\ \A i \in 1..Len(s) : ~ Asks(s[i])
  BY <1>1, HandlerFacts
<1> HIDE DEF s
<1>3. s \o rest \in Seq(StepOf) /\ (s \o rest)[1] = s[1]
  BY <1>2, EmptySeq
<1>4. Orderly(s \o rest) /\ Opens(s \o rest)
  BY <1>2, <1>3, OrderlyBehind DEF Opens
<1>5. ASSUME NEW m, Held(s \o rest, m) PROVE Held(rest, m)
  <2>1. \A d : Count(s \o rest, d, m) = Count(s, d, m) + Count(rest, d, m)
    BY <1>2, CountConcat
  <2>2. \A d : Count(s, d, m) \in Nat /\ Count(rest, d, m) \in Nat
    BY <1>2, PlacesFinite
  <2>3. Count(s, "give", m) = Count(s, "take", m)
    BY <1>2 DEF Closed
  <2>4. QED
    BY <1>5, <2>1, <2>2, <2>3 DEF Held
<1>6. QED
  BY <1>1, <1>3, <1>4, <1>5, LockInvChange

LEMMA LockInvSignal ==
    ASSUME LockInv, NEW a \in Actor, NEW sig, Signal(a, sig)
    PROVE  LockInv'
<1>1. todo[a] \in Seq(StepOf) /\ Orderly(todo[a])
  BY DEF LockInv
<1>2. QED
  BY <1>1, LockInvInterrupts DEF Signal

LEMMA LockInvSignalInside ==
    ASSUME LockInv, NEW a \in Actor, NEW sig, SignalInside(a, sig)
    PROVE  LockInv'
<1> DEFINE r == Tail(todo[a])
           w == Now(a).what
           g == Step("give", w)
<1>1. todo[a] \in Seq(StepOf) /\ todo[a] # <<>> /\ Orderly(todo[a])
  BY DEF LockInv, SignalInside, Free, Busy
<1>2. /\ r \in Seq(StepOf) /\ Orderly(r) /\ Now(a) \in StepOf
      /\ \A d, m : Count(todo[a], d, m) =
                     Count(r, d, m) + IF Now(a).what = m /\ Now(a).does = d THEN 1 ELSE 0
  BY <1>1, HeadAndTail DEF Now
<1>3. Owners(w) \subseteq {a}
  BY DEF SignalInside, Free, Takable
<1>4. Interrupts(a, sig, g \o r) /\ Now(a).does = "touch"
  BY DEF SignalInside
<1>5. /\ g \in Seq(StepOf) /\ Len(g) = 1 /\ g[1].does = "give"
      /\ \A d, m : Count(g, d, m) = IF m = w /\ d = "give" THEN 1 ELSE 0
  <2>1. "give" \in Deed /\ w \in Mutex \cup Installed
    BY <1>2 DEF Deed, StepOf
  <2>2. /\ g \in Seq(StepOf) /\ Len(g) = 1 /\ g[1] = [does |-> "give", what |-> w, by |-> "other"]
        /\ \A d, m : Count(g, d, m) = IF m = w /\ d = "give" THEN 1 ELSE 0
    BY <2>1, StepFacts
  <2>3. QED
    BY <2>2
<1> HIDE DEF r, g
<1>6. g \o r \in Seq(StepOf) /\ Orderly(g \o r)
  BY <1>2, <1>5, OrderlyBehind, ConcatProperties DEF Asks
<1>7. ASSUME NEW m, Held(g \o r, m) PROVE Held(todo[a], m) \/ Owners(m) \subseteq {a}
  <2>1. CASE w = m
    BY <1>3, <2>1
  <2>2. CASE w # m
    <3>1. /\ Count(todo[a], "give", m) = Count(r, "give", m) + 0
          /\ Count(todo[a], "take", m) = Count(r, "take", m) + 0
      BY <1>2, <2>2
    <3>2. Count(r, "give", m) \in Nat /\ Count(r, "take", m) \in Nat
      BY <1>2, PlacesFinite
    <3>3. /\ Count(g \o r, "give", m) = 0 + Count(r, "give", m)
          /\ Count(g \o r, "take", m) = 0 + Count(r, "take", m)
      BY <1>2, <1>5, <2>2, CountConcat
    <3>4. QED
      BY <1>7, <3>1, <3>2, <3>3 DEF Held
  <2>3. QED
    BY <2>1, <2>2
<1>8. QED
  BY <1>4, <1>6, <1>7, LockInvInterrupts

LEMMA LockInvNext ==
    ASSUME LockInv, LocksNext \/ UNCHANGED lockVars
    PROVE  LockInv'
<1>1. CASE UNCHANGED lockVars
  BY <1>1 DEF lockVars, LockInv
<1>2. ASSUME NEW a \in Actor, NEW op \in Operations[a], Begin(a, op) PROVE LockInv'
  BY <1>2, LockInvBegin
<1>3. ASSUME NEW a \in Actor, Advance(a) PROVE LockInv'
  BY <1>3, LockInvAdvance
<1>4. ASSUME NEW a \in Actor, NEW sig \in Installed, Signal(a, sig) \/ SignalInside(a, sig) PROVE LockInv'
  BY <1>4, LockInvSignal, LockInvSignalInside
<1>5. QED
  BY <1>1, <1>2, <1>3, <1>4 DEF LocksNext

\* Outside of the culprits a thread waits for a mutex of higher rank than those it holds: the one of S
\* that waits for the highest would have to find its owner in S waiting for a higher one.
LEMMA CulpritsFollow == LockInv => DeadlocksHaveCulprits
<1> SUFFICES ASSUME LockInv, NEW S \in (SUBSET {a \in Actor : Waits(a)}) \ {{}}, Deadlocked(S),
                    ~ \E a \in S : Now(a).by \in {"quit", "signalTermination", "handleSignal"}
             PROVE  FALSE
  BY Zenon DEF DeadlocksHaveCulprits
<1>0. S # {} /\ \A a \in S : a \in Actor /\ Waits(a) /\ Now(a).by \notin Culprits
  <2>1. S # {} /\ \A a \in S : a \in Actor /\ Waits(a)
    OBVIOUS
  <2>2. QED
    BY <2>1 DEF Culprits
<1>1. ASSUME NEW a \in S
      PROVE  /\ a \in Actor /\ Waits(a) /\ todo[a] \in Seq(StepOf) /\ Len(todo[a]) > 0
             /\ Now(a) = todo[a][1] /\ Now(a) \in StepOf /\ Asks(Now(a))
             /\ From(todo[a], 1) = todo[a]
  <2>1. a \in Actor /\ Waits(a) /\ todo[a] \in Seq(StepOf) /\ todo[a] # <<>> /\ Opens(todo[a])
    BY <1>0 DEF LockInv, Waits, Busy
  <2>2. Len(todo[a]) > 0 /\ Now(a) = todo[a][1] /\ Now(a) \in StepOf
    BY <2>1, HeadAndTail, EmptySeq DEF Now
  <2>3. Asks(Now(a))
    BY <1>0, <2>1, <2>2 DEF Asks, Opens, StepOf
  <2>4. From(todo[a], 1) = todo[a]
    BY <2>1, SubSeqFull DEF From
  <2>5. QED
    BY <2>1, <2>2, <2>3, <2>4
<1> DEFINE R == {5 - Rank(Now(a).what) : a \in S}
<1>2. \A m : Rank(m) \in 0..5
  BY DEF Rank
<1>3. R \subseteq Nat /\ R # {}
  BY <1>0, <1>2
<1>4. PICK least \in R : \A y \in R : least <= y
  <2> HIDE DEF R
  <2> QED
    BY <1>3, LeastElement
<1>5. PICK a \in S : \A b \in S : Rank(Now(b).what) <= Rank(Now(a).what)
  BY <1>2, <1>4
<1> DEFINE m == Now(a).what
<1>6. PICK b \in S : b \in Actor /\ Held(todo[b], m)
  <2>1. PICK b \in Owners(m) \cap S : TRUE
    BY <1>0 DEF Deadlocked
  <2>2. QED
    BY <2>1, HoldsIsHeld DEF Owners
<1>7. Fits(m, Now(b).what)
  <2>1. /\ todo[b] \in Seq(StepOf) /\ 1 \in 1..Len(todo[b]) /\ Asks(todo[b][1])
        /\ Held(From(todo[b], 1), m) /\ Now(b) = todo[b][1]
    BY <1>1, <1>6
  <2>2. Orderly(todo[b])
    BY <1>6 DEF LockInv
  <2>3. QED
    BY <2>1, <2>2 DEF Orderly
<1>8. m = Now(b).what /\ m \notin Plain
  BY <1>2, <1>5, <1>7 DEF Fits
<1>9. ~ (Owners(m) \subseteq {b})
  BY <1>0, <1>6, <1>8 DEF Waits, Takable
<1>10. PICK c \in Actor : Held(todo[c], m) /\ c # b
  BY <1>9, HoldsIsHeld DEF Owners
<1>11. QED
  BY <1>6, <1>10 DEF LockInv

\* event.cpp:110, thread_worker.cpp:41, thread.cpp:236 and signalhandler.cpp:177: for any number of threads
\* and signals, every deadlock has a thread inside of quit(), of signalTermination() or of a signal's
\* handler that waits in it.
THEOREM OthersAgreeOnTheOrder ==
    MCSpec => []DeadlocksHaveCulprits
<1>1. MCInit => LockInv
  BY LockInvInit DEF MCInit
<1>2. LockInv /\ [MCNext]_<<lockVars, tracerVars, focus>> => LockInv'
  <2> SUFFICES ASSUME LockInv, [MCNext]_<<lockVars, tracerVars, focus>> PROVE LockInv'
    OBVIOUS
  <2>1. LocksNext \/ UNCHANGED lockVars
    BY DEF MCNext
  <2>2. QED
    BY <2>1, LockInvNext
<1>3. QED
  BY <1>1, <1>2, CulpritsFollow, PTL DEF MCSpec

\* drumlin.h:32-36 and 68, signalhandler.cpp:177: no mutex has two owners, wherever the handler of a signal
\* interrupts a thread and although a recursive mutex is taken by its owner again.
THEOREM MutexesHaveOneOwner ==
    MCSpec => [](\A m : \A a, b \in Actor : Holds(a, m) /\ Holds(b, m) => a = b)
<1> DEFINE OneOwner == \A m : \A a, b \in Actor : Holds(a, m) /\ Holds(b, m) => a = b
<1>1. MCInit => LockInv
  BY LockInvInit DEF MCInit
<1>2. LockInv /\ [MCNext]_<<lockVars, tracerVars, focus>> => LockInv'
  <2> SUFFICES ASSUME LockInv, [MCNext]_<<lockVars, tracerVars, focus>> PROVE LockInv'
    OBVIOUS
  <2>1. LocksNext \/ UNCHANGED lockVars
    BY DEF MCNext
  <2>2. QED
    BY <2>1, LockInvNext
<1>3. LockInv => OneOwner
  <2> SUFFICES ASSUME LockInv, NEW m, NEW a \in Actor, NEW b \in Actor, Holds(a, m), Holds(b, m)
               PROVE  a = b
    OBVIOUS
  <2>1. Held(todo[a], m) /\ Held(todo[b], m)
    BY HoldsIsHeld
  <2>2. QED
    BY <2>1 DEF LockInv
<1>4. QED
  BY <1>1, <1>2, <1>3, PTL DEF MCSpec

\* application.cpp, thread.cpp, event.cpp: every operation gives back each mutex as often as it takes it,
\* and asks, outside of quit(), signalTermination() and a signal's handler, only for mutexes that its order
\* allows it beside those it holds: there a thread never waits for itself.
THEOREM OperationsKeepTheOrder ==
    ASSUME NEW a \in Actor, NEW op \in Operations[a]
    PROVE  Closed(op) /\ Opens(op) /\ Orderly(op)
<1>1. Good(op, Mutex)
  BY OperationsAreGood
<1>2. QED
  BY <1>1 DEF Good, Whole
====
