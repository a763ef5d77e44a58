----------------------------- MODULE WakeProofs ------------------------------
(***************************************************************************)
(* Proofs about Wake, for any actors, rows and bounds: the types, what the *)
(* poll accounts for, what the ledger says of a running daemon, that a     *)
(* daemon acts once per wake, and that broadcasts were committed.          *)
(***************************************************************************)
EXTENDS Wake, TLAPS, FiniteSetTheorems, SequenceTheorems

-----------------------------------------------------------------------------
(* Base: the types with what they need of the poll and of the loops. *)

\* What the poll has listed is due, and a due row has a period left.
PollOK ==
    /\ \A r \in Rows : rows[r] = "due" => stored[r] < MaxPeriods
    /\ \A r \in poll.list : rows[r] = "due"
    /\ poll.row # {} => \E r \in poll.list : poll.row = {r}
    /\ poll.phase = "down" => poll.list = {}

\* A loop that acts has a proposal left.
LoopsOK ==
    \A e \in Embedded, c \in {"own", "org"} :
        /\ thread[<<e, c>>].phase \in {"off", "loop", "act", "broadcast"}
        /\ thread[<<e, c>>].phase \in {"act", "broadcast"} => thread[<<e, c>>].left >= 1

\* The Service emits wakes.
EmitsWakes == \A signal \in emitting : signal.kind = "wake"

Base == TypeOK /\ PollOK /\ LoopsOK /\ EmitsWakes

ConnType == [Actors -> [{"own", "org"} -> Connection]]

LEMMA Published ==
    ASSUME TypeOK, NEW signal \in WakeSignal, Publish(signal)
    PROVE  /\ signals' \in Seq(WakeSignal) /\ conn' \in ConnType
           /\ Len(signals) \in Nat /\ Len(signals') = Len(signals) + 1
           /\ signals'[Len(signals) + 1] = signal
           /\ \A i \in 1..Len(signals) : signals'[i] = signals[i]
<1>1. /\ signals' \in Seq(WakeSignal) /\ Len(signals) \in Nat /\ Len(signals') = Len(signals) + 1
      /\ signals'[Len(signals) + 1] = signal
      /\ \A i \in 1..Len(signals) : signals'[i] = signals[i]
  BY AppendProperties, LenProperties DEF Publish, TypeOK
<1>2. ASSUME NEW a \in Actors, NEW c \in {"own", "org"}
      PROVE  [conn[a][c] EXCEPT !.queue = Append(@, Len(signals) + 1)] \in Connection
  <2>1. conn[a][c] \in Connection
    BY DEF TypeOK
  <2>2. Append(conn[a][c].queue, Len(signals) + 1) \in Seq(Nat)
    BY <1>1, <2>1, AppendProperties DEF Connection
  <2> QED
    BY <2>1, <2>2 DEF Connection
<1>3. conn' \in ConnType
  BY <1>2 DEF Publish, Delivered, ConnType, TypeOK
<1> QED
  BY <1>1, <1>3

LEMMA Recorded ==
    ASSUME Base, NEW x \in Action, actions' = Append(actions, x)
    PROVE  /\ actions' \in Seq(Action)
           /\ Len(actions) \in Nat /\ Len(actions') = Len(actions) + 1
           /\ DOMAIN actions = 1..Len(actions) /\ DOMAIN actions' = 1..Len(actions) + 1
           /\ actions'[Len(actions) + 1] = x
           /\ \A i \in 1..Len(actions) : actions'[i] = actions[i]
  BY AppendProperties, LenProperties DEF Base, TypeOK

LEMMA NewWake == \A agents \in SUBSET Actors : WakeFor(agents) \in WakeSignal
  BY DEF WakeFor, WakeSignal

LEMMA NewBroadcast ==
    ASSUME TypeOK, NEW t \in Threads, NEW long \in BOOLEAN
    PROVE  Broadcast(t, long) \in WakeSignal
<1>1. t[1] \in Actors
  BY DEF Threads, Actors
<1>2. thread[t].signal \in Nat
  BY DEF TypeOK, Thread
<1> QED
  BY <1>1, <1>2 DEF Broadcast, WakeSignal

LEMMA ThreadKinds ==
    /\ \A d \in Daemons : <<d, "both">> \in Threads /\ d \in Actors
    /\ \A e \in Embedded, c \in {"own", "org"} : <<e, c>> \in Threads /\ e \in Actors
    /\ \A t \in Threads : \/ t[1] \in Daemons /\ t = <<t[1], "both">>
                          \/ t[1] \in Embedded /\ t[2] \in {"own", "org"} /\ t = <<t[1], t[2]>>
    /\ \A e \in Embedded : e \notin Daemons
  BY WakeAssumption DEF Threads, Actors

LEMMA Resting == Off \in Thread /\ Looping \in Thread
  BY DEF Off, Looping, Thread, Phases

\* The threads keep their types, and the loops theirs, when one goes on.
LEMMA Gone ==
    ASSUME TypeOK, LoopsOK, NEW t \in Threads, NEW next \in Thread, Goes(t, next),
           t[1] \in Embedded =>
             /\ next.phase \in {"off", "loop", "act", "broadcast"}
             /\ next.phase \in {"act", "broadcast"} => next.left >= 1
    PROVE  thread' \in [Threads -> Thread] /\ LoopsOK'
           /\ \A u \in Threads : thread'[u] = IF u = t THEN next ELSE thread[u]
<1>1. \A u \in Threads : thread'[u] = IF u = t THEN next ELSE thread[u]
  BY DEF Goes, TypeOK
<1>2. thread' \in [Threads -> Thread]
  BY DEF Goes, TypeOK
<1>3. LoopsOK'
  <2> SUFFICES ASSUME NEW e \in Embedded, NEW c \in {"own", "org"}
               PROVE  /\ thread'[<<e, c>>].phase \in {"off", "loop", "act", "broadcast"}
                      /\ thread'[<<e, c>>].phase \in {"act", "broadcast"} => thread'[<<e, c>>].left >= 1
    BY DEF LoopsOK
  <2>1. <<e, c>> \in Threads
    BY ThreadKinds
  <2>2. CASE t = <<e, c>>
    BY <1>1, <2>1, <2>2
  <2>3. CASE t # <<e, c>>
    BY <1>1, <2>1, <2>3 DEF LoopsOK
  <2> QED
    BY <2>2, <2>3
<1> QED
  BY <1>1, <1>2, <1>3

LEMMA GoneTo ==
    ASSUME TypeOK, NEW t \in Threads, NEW phase, GoesTo(t, phase)
    PROVE  Goes(t, [thread[t] EXCEPT !.phase = phase])
  BY DEF GoesTo, Goes

\* Another end of a connection.
LEMMA Connected ==
    ASSUME TypeOK, NEW a \in Actors, NEW f \in [{"own", "org"} -> Connection],
           conn' = [conn EXCEPT ![a] = f]
    PROVE  conn' \in ConnType /\ \A b \in Actors : conn'[b] = IF b = a THEN f ELSE conn[b]
  BY DEF TypeOK, ConnType

LEMMA NoConnection == Closed \in Connection /\ [open |-> TRUE, queue |-> << >>] \in Connection
  BY EmptySeq DEF Closed, Connection

-----------------------------------------------------------------------------
(* What is heard, acted upon and broadcast. *)

Increasing(q) == \A j, k \in DOMAIN q : j < k => q[j] < q[k]

\* A queue has signals of its channel and for its actor, in their order.
Heard ==
    \A a \in Actors, c \in {"own", "org"} :
        /\ Increasing(conn[a][c].queue)
        /\ \A k \in DOMAIN conn[a][c].queue :
             LET i == conn[a][c].queue[k]
             IN i \in 1..Len(signals) /\ signals[i].channel = c /\ a \in signals[i].to

\* A wake for d that was taken out of its queues.
TakenBy(d, i) == signals[i].kind = "wake" /\ d \in signals[i].to /\ ~Queued(d, i)

Acting ==
    \A t \in Threads :
        /\ thread[t].phase \in {"act", "broadcast"} => thread[t].signal \in 1..Len(signals)
        /\ (t[1] \in Daemons /\ thread[t].phase = "act") =>
             /\ TakenBy(t[1], thread[t].signal)
             /\ \A j \in 1..Len(actions) :
                  ~(actions[j].actor = t[1] /\ actions[j].cause = thread[t].signal)

Acted ==
    \A j \in 1..Len(actions) :
        /\ actions[j].cause \in 1..Len(signals)
        /\ actions[j].actor \in Daemons =>
             /\ TakenBy(actions[j].actor, actions[j].cause)
             /\ \A k \in 1..Len(actions) :
                  (k # j /\ actions[k].actor = actions[j].actor) => actions[k].cause # actions[j].cause

BroadcastsOf(a, cause) ==
    {i \in DOMAIN signals :
        signals[i].kind = "broadcast" /\ signals[i].by = {a} /\ signals[i].cause = cause}

EntriesOf(a, cause) == {j \in DOMAIN actions : actions[j] = Entry(a, cause, TRUE)}

\* The threads of an actor that are about to broadcast.
OwedBy(a, cause) ==
    {t \in Threads : t[1] = a /\ thread[t].phase = "broadcast" /\ thread[t].signal = cause}

\* Every broadcast made or owed has its entry.
Committed ==
    \A a \in Actors \ unlogged : \A cause \in Nat :
        Cardinality(BroadcastsOf(a, cause)) + Cardinality(OwedBy(a, cause))
            <= Cardinality(EntriesOf(a, cause))

IInv ==
    /\ Base
    /\ Heard
    /\ Acting
    /\ Acted
    /\ Committed
    /\ RunningIsOnLedger
    /\ PeriodsAccounted

-----------------------------------------------------------------------------
(* Connections *)

\* Queues only lose signals.
Shrinks ==
    \A a \in Actors, c \in {"own", "org"} :
        /\ Increasing(conn[a][c].queue) => Increasing(conn'[a][c].queue)
        /\ \A k \in DOMAIN conn'[a][c].queue : \E j \in DOMAIN conn[a][c].queue :
             conn'[a][c].queue[k] = conn[a][c].queue[j]

\* Signals are added, and what was not queued is not queued again.
Grows ==
    /\ Len(signals) \in Nat /\ Len(signals') \in Nat /\ Len(signals) <= Len(signals')
    /\ \A i \in 1..Len(signals) : signals'[i] = signals[i]
    /\ \A a \in Actors : \A i \in 1..Len(signals) : Queued(a, i)' => Queued(a, i)

LEMMA ShrinksKeeps ==
    ASSUME Base, Heard, Shrinks, UNCHANGED signals
    PROVE  Heard' /\ Grows
<1>1. Heard'
  BY DEF Heard, Shrinks
<1>2. \A a \in Actors : \A i \in 1..Len(signals) : Queued(a, i)' => Queued(a, i)
  BY DEF Shrinks, Queued
<1>3. Len(signals) \in Nat
  BY LenProperties DEF Base, TypeOK
<1>4. Grows
  BY <1>2, <1>3 DEF Grows
<1> QED
  BY <1>1, <1>4

LEMMA SameShrinks ==
    ASSUME Base, Heard, UNCHANGED <<conn, signals>>
    PROVE  conn' \in ConnType /\ Heard' /\ Grows
<1>1. Shrinks
  BY DEF Shrinks
<1> QED
  BY <1>1, ShrinksKeeps DEF Base, TypeOK, ConnType

LEMMA EmptyShrinks ==
    ASSUME Base, Heard, UNCHANGED signals, NEW a \in Actors, NEW f \in [{"own", "org"} -> Connection],
           conn' = [conn EXCEPT ![a] = f],
           \A c \in {"own", "org"} : f[c] = conn[a][c] \/ f[c].queue = << >>
    PROVE  conn' \in ConnType /\ Heard' /\ Grows
<1>1. conn' \in ConnType /\ \A b \in Actors : conn'[b] = IF b = a THEN f ELSE conn[b]
  BY Connected DEF Base
<1>2. Shrinks
  <2> SUFFICES ASSUME NEW b \in Actors, NEW c \in {"own", "org"}
               PROVE  /\ Increasing(conn[b][c].queue) => Increasing(conn'[b][c].queue)
                      /\ \A k \in DOMAIN conn'[b][c].queue : \E j \in DOMAIN conn[b][c].queue :
                           conn'[b][c].queue[k] = conn[b][c].queue[j]
    BY DEF Shrinks
  <2>1. CASE conn'[b][c] = conn[b][c]
    BY <2>1
  <2>2. CASE conn'[b][c].queue = << >>
    <3>1. DOMAIN conn'[b][c].queue = {}
      BY <2>2, EmptySeq
    <3> QED
      BY <3>1 DEF Increasing
  <2> QED
    BY <1>1, <2>1, <2>2
<1> QED
  BY <1>1, <1>2, ShrinksKeeps

LEMMA TailShrinks ==
    ASSUME Base, Heard, UNCHANGED signals, NEW a \in Actors, NEW c \in {"own", "org"},
           conn[a][c].queue # << >>, conn' = [conn EXCEPT ![a][c].queue = Tail(@)]
    PROVE  /\ conn' \in ConnType /\ Heard' /\ Grows
           /\ Head(conn[a][c].queue) \in 1..Len(signals)
           /\ a \in signals[Head(conn[a][c].queue)].to
           /\ \A i : i = Head(conn[a][c].queue) => ~Queued(a, i)'
<1> PICK q : q = conn[a][c].queue
  OBVIOUS
<1> PICK r : r = Tail(q)
  OBVIOUS
<1>1. q \in Seq(Nat) /\ q # << >> /\ conn[a][c] \in Connection
  BY DEF Base, TypeOK, Connection
<1>2. /\ r \in Seq(Nat) /\ Len(q) \in Nat /\ Len(q) >= 1
      /\ DOMAIN q = 1..Len(q) /\ DOMAIN r = 1..(Len(q) - 1)
      /\ \A k \in 1..(Len(q) - 1) : r[k] = q[k + 1]
      /\ Head(q) = q[1]
  BY <1>1, HeadTailProperties, LenProperties, EmptySeq
<1> PICK f : f = [conn[a] EXCEPT ![c] = [conn[a][c] EXCEPT !.queue = r]]
  OBVIOUS
<1>3. f \in [{"own", "org"} -> Connection] /\ conn' = [conn EXCEPT ![a] = f]
  BY <1>1, <1>2 DEF Base, TypeOK, Connection
<1>a. f[c].queue = r /\ \A x \in {"own", "org"} : x # c => f[x] = conn[a][x]
  BY <1>1, <1>2 DEF Base, TypeOK, Connection
<1>b. conn' \in ConnType /\ \A b \in Actors : conn'[b] = IF b = a THEN f ELSE conn[b]
  <2>1. conn \in ConnType
    BY DEF Base, TypeOK, ConnType
  <2> QED
    BY <1>3, <2>1 DEF ConnType
<1>4. /\ conn' \in ConnType
      /\ \A b \in Actors, x \in {"own", "org"} :
           conn'[b][x].queue = IF b = a /\ x = c THEN r ELSE conn[b][x].queue
  <2> SUFFICES ASSUME NEW b \in Actors, NEW x \in {"own", "org"}
               PROVE  conn'[b][x].queue = IF b = a /\ x = c THEN r ELSE conn[b][x].queue
    BY <1>b
  <2>1. CASE b = a /\ x = c
    BY <1>a, <1>b, <2>1
  <2>2. CASE b = a /\ x # c
    BY <1>a, <1>b, <2>2
  <2>3. CASE b # a
    BY <1>b, <2>3
  <2> QED
    BY <2>1, <2>2, <2>3
<1>5. Increasing(q) /\ \A k \in DOMAIN q : q[k] \in 1..Len(signals) /\ signals[q[k]].channel = c
                                           /\ a \in signals[q[k]].to
  BY DEF Heard
<1>6. Increasing(r) /\ \A k \in DOMAIN r : \E j \in DOMAIN q : r[k] = q[j]
  <2>1. \A k \in DOMAIN r : k + 1 \in DOMAIN q /\ r[k] = q[k + 1]
    BY <1>2
  <2>2. \A j, k \in DOMAIN r : j < k => j + 1 < k + 1
    BY <1>2
  <2> QED
    BY <1>5, <2>1, <2>2 DEF Increasing
<1>7. Shrinks
  BY <1>4, <1>6 DEF Shrinks
<1>8. ASSUME NEW x \in {"own", "org"}, NEW k \in DOMAIN conn'[a][x].queue, conn'[a][x].queue[k] = Head(q)
      PROVE  FALSE
  <2>1. CASE x = c
    <3>1. k \in DOMAIN r /\ r[k] = q[1] /\ k + 1 \in DOMAIN q /\ r[k] = q[k + 1] /\ 1 < k + 1 /\ 1 \in DOMAIN q
      <4>1. conn'[a][x].queue = r
        BY <1>4, <2>1
      <4>2. k \in DOMAIN r /\ r[k] = Head(q)
        BY <1>8, <4>1
      <4> QED
        BY <1>2, <4>2
    <3>2. q[1] < q[k + 1]
      BY <1>5, <3>1 DEF Increasing
    <3>3. q[1] \in Nat
      BY <1>1, <1>2, ElementOfSeq
    <3> QED
      BY <3>1, <3>2, <3>3
  <2>2. CASE x # c
    <3>1. conn[a][x].queue[k] = q[1] /\ k \in DOMAIN conn[a][x].queue /\ 1 \in DOMAIN q
      BY <1>2, <1>4, <1>8, <2>2
    <3>2. signals[conn[a][x].queue[k]].channel = x
      BY <3>1 DEF Heard
    <3>3. signals[q[1]].channel = c
      BY <1>5, <3>1
    <3> QED
      BY <2>2, <3>1, <3>2, <3>3
  <2> QED
    BY <2>1, <2>2
<1>9. \A i : i = Head(conn[a][c].queue) => ~Queued(a, i)'
  BY <1>8 DEF Queued
<1>10. Head(q) \in 1..Len(signals) /\ a \in signals[Head(q)].to
  <2>1. 1 \in DOMAIN q
    BY <1>2
  <2> QED
    BY <1>2, <1>5, <2>1
<1>11. Heard' /\ Grows
  BY <1>7, ShrinksKeeps
<1> QED
  BY <1>4, <1>9, <1>10, <1>11

\* A queue with at most the new signal n more.
Follows(q, r, n) ==
    /\ Increasing(r)
    /\ \A k \in DOMAIN r : r[k] # n => \E j \in DOMAIN q : q[j] = r[k]

LEMMA Appended ==
    ASSUME NEW q \in Seq(Nat), NEW n \in Nat, Increasing(q), \A k \in DOMAIN q : q[k] < n
    PROVE  Follows(q, Append(q, n), n)
<1> PICK r : r = Append(q, n)
  OBVIOUS
<1>1. /\ Len(q) \in Nat /\ DOMAIN q = 1..Len(q) /\ DOMAIN r = 1..Len(q) + 1 /\ r[Len(q) + 1] = n
      /\ \A k \in 1..Len(q) : r[k] = q[k]
  BY AppendProperties, LenProperties
<1>2. ASSUME NEW j \in DOMAIN r, NEW k \in DOMAIN r, j < k PROVE r[j] < r[k]
  <2>1. j \in DOMAIN q
    BY <1>1, <1>2
  <2>2. CASE k \in DOMAIN q
    BY <1>1, <1>2, <2>1, <2>2 DEF Increasing
  <2>3. CASE k = Len(q) + 1
    BY <1>1, <2>1, <2>3
  <2> QED
    BY <1>1, <2>2, <2>3
<1>3. \A k \in DOMAIN r : r[k] # n => k \in DOMAIN q
  BY <1>1
<1> QED
  BY <1>1, <1>2, <1>3 DEF Follows, Increasing

LEMMA PublishKeeps ==
    ASSUME Base, Heard, NEW signal \in WakeSignal, Publish(signal)
    PROVE  /\ signals' \in Seq(WakeSignal) /\ conn' \in ConnType /\ Heard' /\ Grows
           /\ Len(signals') = Len(signals) + 1 /\ signals'[Len(signals) + 1] = signal
<1> PICK n : n = Len(signals) + 1
  OBVIOUS
<1>1. /\ signals' \in Seq(WakeSignal) /\ conn' \in ConnType
      /\ Len(signals) \in Nat /\ Len(signals') = n
      /\ signals'[n] = signal /\ n \in Nat
      /\ \A i \in 1..Len(signals) : signals'[i] = signals[i]
  BY Published DEF Base
<1>2. ASSUME NEW a \in Actors, NEW c \in {"own", "org"}
      PROVE  /\ Follows(conn[a][c].queue, conn'[a][c].queue, n)
             /\ \A k \in DOMAIN conn'[a][c].queue :
                  conn'[a][c].queue[k] = n => c = signal.channel /\ a \in signal.to
  <2> PICK q : q = conn[a][c].queue
    OBVIOUS
  <2> PICK r : r = conn'[a][c].queue
    OBVIOUS
  <2>1. conn[a][c] \in Connection /\ q \in Seq(Nat)
    BY DEF Base, TypeOK, Connection
  <2>2. conn'[a][c] = IF c = signal.channel /\ a \in signal.to /\ conn[a][c].open
                      THEN [conn[a][c] EXCEPT !.queue = Append(@, n)]
                      ELSE conn[a][c]
    BY DEF Publish, Delivered
  <2>3. Increasing(q) /\ \A k \in DOMAIN q : q[k] \in 1..Len(signals)
    BY DEF Heard
  <2>4. \A k \in DOMAIN q : q[k] < n /\ q[k] # n
    BY <1>1, <2>3
  <2>5. CASE c = signal.channel /\ a \in signal.to /\ conn[a][c].open
    <3>1. r = Append(q, n)
      BY <2>1, <2>2, <2>5 DEF Connection
    <3>2. Follows(q, r, n)
      BY <1>1, <2>1, <2>3, <2>4, <3>1, Appended
    <3> QED
      BY <2>5, <3>2
  <2>6. CASE ~(c = signal.channel /\ a \in signal.to /\ conn[a][c].open)
    <3>1. r = q
      BY <2>2, <2>6
    <3> QED
      BY <2>3, <2>4, <3>1 DEF Follows
  <2> QED
    BY <2>5, <2>6
<1>3. Heard'
  <2> SUFFICES ASSUME NEW a \in Actors, NEW c \in {"own", "org"}
               PROVE  /\ Increasing(conn'[a][c].queue)
                      /\ \A k \in DOMAIN conn'[a][c].queue :
                           /\ conn'[a][c].queue[k] \in 1..Len(signals')
                           /\ signals'[conn'[a][c].queue[k]].channel = c
                           /\ a \in signals'[conn'[a][c].queue[k]].to
    BY DEF Heard
  <2>1. Increasing(conn'[a][c].queue)
    BY <1>2 DEF Follows
  <2>2. ASSUME NEW k \in DOMAIN conn'[a][c].queue, NEW i, i = conn'[a][c].queue[k]
        PROVE  i \in 1..n /\ signals'[i].channel = c /\ a \in signals'[i].to
    <3>1. CASE i = n
      <4>1. c = signal.channel /\ a \in signal.to
        BY <1>2, <2>2, <3>1
      <4>2. n \in 1..n
        BY <1>1
      <4> QED
        BY <1>1, <3>1, <4>1, <4>2
    <3>2. CASE i # n
      <4>1. PICK j \in DOMAIN conn[a][c].queue : conn[a][c].queue[j] = i
        BY <1>2, <2>2, <3>2 DEF Follows
      <4>2. i \in 1..Len(signals) /\ signals[i].channel = c /\ a \in signals[i].to
        BY <4>1 DEF Heard
      <4> QED
        BY <1>1, <4>2
    <3> QED
      BY <3>1, <3>2
  <2> QED
    BY <1>1, <2>1, <2>2
<1>4. ASSUME NEW a \in Actors, NEW i \in 1..Len(signals), Queued(a, i)'
      PROVE  Queued(a, i)
  <2>1. PICK c \in {"own", "org"} : \E k \in DOMAIN conn'[a][c].queue : conn'[a][c].queue[k] = i
    BY <1>4 DEF Queued
  <2>2. i # n
    BY <1>1
  <2>3. \E j \in DOMAIN conn[a][c].queue : conn[a][c].queue[j] = i
    BY <1>2, <2>1, <2>2 DEF Follows
  <2> QED
    BY <2>3 DEF Queued
<1>5. Grows
  BY <1>1, <1>4 DEF Grows
<1> QED
  BY <1>1, <1>3, <1>5

-----------------------------------------------------------------------------
(* Actions *)

\* What a thread does is still about the same signal, or over.
GoesOn(t) ==
    thread'[t].phase \in {"act", "broadcast"} =>
        /\ thread[t].phase \in {"act", "broadcast"}
        /\ thread'[t].signal = thread[t].signal
        /\ (t[1] \in Daemons /\ thread'[t].phase = "act") => thread[t].phase = "act"

LEMMA TakenStays ==
    ASSUME Base, Grows, NEW d \in Daemons, NEW i \in 1..Len(signals), TakenBy(d, i)
    PROVE  TakenBy(d, i)'
  BY ThreadKinds DEF TakenBy, Grows

\* A thread t that acts does so on i, which no entry of a daemon has.
ActsOn(t, i) ==
    /\ i \in 1..Len(signals)
    /\ (t[1] \in Daemons /\ thread[t].phase = "act") =>
         /\ TakenBy(t[1], i)
         /\ \A j \in 1..Len(actions) : ~(actions[j].actor = t[1] /\ actions[j].cause = i)

LEMMA ActingIs == Acting <=> \A t \in Threads : \A i :
    (thread[t].phase \in {"act", "broadcast"} /\ thread[t].signal = i) => ActsOn(t, i)
  BY DEF Acting, ActsOn

\* The entry of a and i is about a signal; that of a daemon is its only one.
WasActedOn(a, i) == i \in 1..Len(signals) /\ (a \in Daemons => TakenBy(a, i))

LEMMA ActedIs == Acted <=>
    /\ \A j \in 1..Len(actions) : \A a, i :
         (a = actions[j].actor /\ i = actions[j].cause) => WasActedOn(a, i)
    /\ \A j, k \in 1..Len(actions) :
         (k # j /\ actions[j].actor \in Daemons /\ actions[k].actor = actions[j].actor)
            => actions[k].cause # actions[j].cause
  BY DEF Acted, WasActedOn

LEMMA WasStays ==
    ASSUME Base, Grows, NEW a, NEW i, WasActedOn(a, i)
    PROVE  WasActedOn(a, i)'
  BY TakenStays DEF WasActedOn, Grows

LEMMA EntriesStay ==
    ASSUME Base, Acted, Grows, UNCHANGED actions
    PROVE  Acted'
<1>1. \A j \in 1..Len(actions') : \A a, i :
        (a = actions'[j].actor /\ i = actions'[j].cause) => WasActedOn(a, i)'
  BY ActedIs, WasStays
<1>2. \A j, k \in 1..Len(actions') :
        (k # j /\ actions'[j].actor \in Daemons /\ actions'[k].actor = actions'[j].actor)
            => actions'[k].cause # actions'[j].cause
  BY ActedIs
<1> QED
  BY <1>1, <1>2 DEF Acted, WasActedOn

LEMMA ActsKeep ==
    ASSUME Base, Acting, Acted, Grows, UNCHANGED actions, \A t \in Threads : GoesOn(t)
    PROVE  Acting' /\ Acted'
<1>1. Acted'
  BY EntriesStay
<1>2. \A t \in Threads : \A i :
        (thread'[t].phase \in {"act", "broadcast"} /\ thread'[t].signal = i) => ActsOn(t, i)'
  <2> SUFFICES ASSUME NEW t \in Threads, NEW i, thread'[t].phase \in {"act", "broadcast"},
                      thread'[t].signal = i
               PROVE  ActsOn(t, i)'
    OBVIOUS
  <2>1. /\ thread[t].phase \in {"act", "broadcast"} /\ thread[t].signal = i
        /\ (t[1] \in Daemons /\ thread'[t].phase = "act") => thread[t].phase = "act"
    BY DEF GoesOn
  <2>2. ActsOn(t, i)
    BY <2>1, ActingIs
  <2>3. i \in 1..Len(signals')
    BY <2>2 DEF ActsOn, Grows
  <2> QED
    BY <2>1, <2>2, <2>3, TakenStays DEF ActsOn
<1>3. Acting'
  BY <1>2 DEF Acting, ActsOn
<1> QED
  BY <1>1, <1>3

-----------------------------------------------------------------------------
(* Counting *)

LEMMA ThreeAreFinite ==
    ASSUME NEW x, NEW y, NEW z
    PROVE  IsFiniteSet({x, y, z})
<1>1. IsFiniteSet({x}) /\ IsFiniteSet({y}) /\ IsFiniteSet({z})
  BY FS_Singleton
<1>2. IsFiniteSet({x} \cup {y})
  BY <1>1, FS_Union
<1>3. IsFiniteSet(({x} \cup {y}) \cup {z})
  BY <1>1, <1>2, FS_Union
<1>4. ({x} \cup {y}) \cup {z} = {x, y, z}
  OBVIOUS
<1> QED
  BY <1>3, <1>4

LEMMA AllFinite ==
    ASSUME Base, NEW a, NEW cause
    PROVE  /\ IsFiniteSet(BroadcastsOf(a, cause))
           /\ IsFiniteSet(OwedBy(a, cause))
           /\ IsFiniteSet(EntriesOf(a, cause))
<1>1. /\ Len(signals) \in Nat /\ DOMAIN signals = 1..Len(signals)
      /\ Len(actions) \in Nat /\ DOMAIN actions = 1..Len(actions)
  BY LenProperties DEF Base, TypeOK
<1>2. IsFiniteSet(1..Len(signals)) /\ IsFiniteSet(1..Len(actions))
  BY <1>1, FS_Interval
<1>3. IsFiniteSet(BroadcastsOf(a, cause)) /\ IsFiniteSet(EntriesOf(a, cause))
  BY <1>1, <1>2, FS_Subset DEF BroadcastsOf, EntriesOf
<1>4. IsFiniteSet({<<a, "own">>, <<a, "org">>, <<a, "both">>})
  <2>1. \A x, y, z : IsFiniteSet({x, y, z})
    BY ThreeAreFinite
  <2> QED
    BY <2>1
<1>5. OwedBy(a, cause) \subseteq {<<a, "own">>, <<a, "org">>, <<a, "both">>}
  BY ThreadKinds DEF OwedBy
<1> QED
  BY <1>3, <1>4, <1>5, FS_Subset

LEMMA EntriesFinite ==
    ASSUME Base', NEW a, NEW cause
    PROVE  IsFiniteSet(EntriesOf(a, cause)')
<1>1. Len(actions') \in Nat /\ DOMAIN actions' = 1..Len(actions')
  BY LenProperties DEF Base, TypeOK
<1>2. IsFiniteSet(1..Len(actions'))
  BY <1>1, FS_Interval
<1> QED
  BY <1>1, <1>2, FS_Subset DEF EntriesOf

\* What is broadcast and owed and what there are entries of, in numbers.
LEMMA Fewer ==
    ASSUME NEW B, NEW O, NEW E, NEW B2, NEW O2, NEW E2,
           IsFiniteSet(B), IsFiniteSet(O), IsFiniteSet(E2),
           B2 \subseteq B, O2 \subseteq O, E \subseteq E2,
           Cardinality(B) + Cardinality(O) <= Cardinality(E)
    PROVE  Cardinality(B2) + Cardinality(O2) <= Cardinality(E2)
<1>1. Cardinality(B2) <= Cardinality(B) /\ Cardinality(O2) <= Cardinality(O)
  BY FS_Subset
<1>2. Cardinality(E) <= Cardinality(E2)
  BY FS_Subset
<1>3. /\ Cardinality(B) \in Nat /\ Cardinality(O) \in Nat /\ Cardinality(E) \in Nat
      /\ Cardinality(B2) \in Nat /\ Cardinality(O2) \in Nat /\ Cardinality(E2) \in Nat
  BY FS_Subset, FS_CardinalityType
<1> QED
  BY <1>1, <1>2, <1>3

LEMMA Paid ==
    ASSUME NEW B, NEW O, NEW E, NEW B2, NEW O2, NEW n, NEW t,
           IsFiniteSet(B), IsFiniteSet(O), IsFiniteSet(E),
           B2 \subseteq B \cup {n}, O2 \subseteq O \ {t}, t \in O,
           Cardinality(B) + Cardinality(O) <= Cardinality(E)
    PROVE  Cardinality(B2) + Cardinality(O2) <= Cardinality(E)
<1>1. /\ IsFiniteSet(B \cup {n}) /\ Cardinality(B \cup {n}) <= Cardinality(B) + 1
      /\ IsFiniteSet(O \ {t}) /\ Cardinality(O \ {t}) = Cardinality(O) - 1
  BY FS_AddElement, FS_RemoveElement, FS_CardinalityType
<1>2. Cardinality(B2) <= Cardinality(B \cup {n}) /\ Cardinality(O2) <= Cardinality(O \ {t})
  BY <1>1, FS_Subset
<1>3. /\ Cardinality(B) \in Nat /\ Cardinality(O) \in Nat /\ Cardinality(E) \in Nat
      /\ Cardinality(B2) \in Nat /\ Cardinality(O2) \in Nat
      /\ Cardinality(B \cup {n}) \in Nat /\ Cardinality(O \ {t}) \in Nat
  BY <1>1, FS_Subset, FS_CardinalityType
<1> QED
  BY <1>1, <1>2, <1>3

LEMMA Earned ==
    ASSUME NEW B, NEW O, NEW E, NEW O2, NEW E2, NEW m, NEW t,
           IsFiniteSet(B), IsFiniteSet(O), IsFiniteSet(E),
           O2 \subseteq O \cup {t}, E2 = E \cup {m}, m \notin E,
           Cardinality(B) + Cardinality(O) <= Cardinality(E)
    PROVE  Cardinality(B) + Cardinality(O2) <= Cardinality(E2)
<1>1. /\ IsFiniteSet(O \cup {t}) /\ Cardinality(O \cup {t}) <= Cardinality(O) + 1
      /\ Cardinality(E2) = Cardinality(E) + 1
  <2>1. Cardinality(O) \in Nat
    BY FS_CardinalityType
  <2>2. IsFiniteSet(O \cup {t}) /\ Cardinality(O \cup {t}) <= Cardinality(O) + 1
    <3>1. /\ IsFiniteSet(O \cup {t})
          /\ Cardinality(O \cup {t}) = IF t \in O THEN Cardinality(O) ELSE Cardinality(O) + 1
      BY FS_AddElement
    <3> QED
      BY <2>1, <3>1
  <2>3. Cardinality(E2) = Cardinality(E) + 1
    BY FS_AddElement
  <2> QED
    BY <2>2, <2>3
<1>2. Cardinality(O2) <= Cardinality(O \cup {t})
  BY <1>1, FS_Subset
<1>3. /\ Cardinality(B) \in Nat /\ Cardinality(O) \in Nat /\ Cardinality(E) \in Nat
      /\ Cardinality(O2) \in Nat /\ Cardinality(O \cup {t}) \in Nat
  BY <1>1, FS_Subset, FS_CardinalityType
<1> QED
  BY <1>1, <1>2, <1>3

Owes(t, cause) == thread[t].phase = "broadcast" /\ thread[t].signal = cause

\* No thread owes more, but for a daemon whose entry was refused, and no signal
\* but this one is published.
LEMMA CommittedKeeps ==
    ASSUME Base, Base', Committed, unlogged \subseteq unlogged',
           \A t \in Threads : \A cause :
              (t[1] \notin unlogged' /\ Owes(t, cause)') => Owes(t, cause),
           \A a, cause : BroadcastsOf(a, cause)' \subseteq BroadcastsOf(a, cause),
           \A a, cause : EntriesOf(a, cause) \subseteq EntriesOf(a, cause)'
    PROVE  Committed'
<1> SUFFICES ASSUME NEW a \in Actors, a \notin unlogged', NEW cause \in Nat
             PROVE  (Cardinality(BroadcastsOf(a, cause)) + Cardinality(OwedBy(a, cause))
                       <= Cardinality(EntriesOf(a, cause)))'
  BY DEF Committed
<1>1. Cardinality(BroadcastsOf(a, cause)) + Cardinality(OwedBy(a, cause)) <= Cardinality(EntriesOf(a, cause))
  BY DEF Committed
<1>2. OwedBy(a, cause)' \subseteq OwedBy(a, cause)
  BY DEF OwedBy, Owes
<1>3. IsFiniteSet(EntriesOf(a, cause)')
  BY EntriesFinite
<1> QED
  BY <1>1, <1>2, <1>3, AllFinite, Fewer

\* A thread publishes what it owes.
LEMMA PaidKeeps ==
    ASSUME Base, Base', Committed, UNCHANGED <<unlogged, actions>>, NEW t \in Threads,
           NEW long \in BOOLEAN, Publish(Broadcast(t, long)), thread[t].phase = "broadcast",
           \A u \in Threads : \A cause : Owes(u, cause)' => Owes(u, cause) /\ u # t
    PROVE  Committed'
<1> PICK n : n = Len(signals) + 1
  OBVIOUS
<1>1. /\ Len(signals) \in Nat /\ n \in Nat
      /\ DOMAIN signals = 1..Len(signals) /\ DOMAIN signals' = 1..n
      /\ signals'[n] = Broadcast(t, long)
      /\ \A i \in 1..Len(signals) : signals'[i] = signals[i]
  BY NewBroadcast, Published, LenProperties DEF Base, TypeOK
<1> SUFFICES ASSUME NEW a \in Actors, a \notin unlogged, NEW cause \in Nat
             PROVE  (Cardinality(BroadcastsOf(a, cause)) + Cardinality(OwedBy(a, cause))
                       <= Cardinality(EntriesOf(a, cause)))'
  BY DEF Committed
<1>2. Cardinality(BroadcastsOf(a, cause)) + Cardinality(OwedBy(a, cause)) <= Cardinality(EntriesOf(a, cause))
  BY DEF Committed
<1>3. BroadcastsOf(a, cause)' \subseteq BroadcastsOf(a, cause) \cup {n}
  BY <1>1 DEF BroadcastsOf
<1>4. EntriesOf(a, cause)' = EntriesOf(a, cause)
  BY DEF EntriesOf
<1>5. OwedBy(a, cause)' \subseteq OwedBy(a, cause) \ {t}
  BY DEF OwedBy, Owes
<1>6. CASE t \in OwedBy(a, cause)
  BY <1>2, <1>3, <1>4, <1>5, <1>6, AllFinite, Paid
<1>7. CASE t \notin OwedBy(a, cause)
  <2>1. t[1] # a \/ thread[t].signal # cause
    BY <1>7 DEF OwedBy
  <2>2. Broadcast(t, long).by # {a} \/ Broadcast(t, long).cause # cause
    BY <2>1 DEF Broadcast
  <2>3. BroadcastsOf(a, cause)' \subseteq BroadcastsOf(a, cause)
    BY <1>1, <2>2 DEF BroadcastsOf
  <2> QED
    BY <1>2, <1>4, <1>5, <2>3, AllFinite, Fewer
<1> QED
  BY <1>6, <1>7

\* A thread has its action accepted and will broadcast it.
LEMMA EarnedKeeps ==
    ASSUME Base, Base', Committed, UNCHANGED <<unlogged, signals>>, NEW t \in Threads,
           actions' = Append(actions, Entry(t[1], thread[t].signal, TRUE)),
           \A u \in Threads : \A cause : Owes(u, cause)' =>
              Owes(u, cause) \/ (u = t /\ cause = thread[t].signal)
    PROVE  Committed'
<1> PICK x : x = Entry(t[1], thread[t].signal, TRUE)
  OBVIOUS
<1>a. x \in Action
  BY ThreadKinds DEF Entry, Action, Base, TypeOK, Thread, Actors
<1>b. actions' = Append(actions, x)
  OBVIOUS
<1>1. /\ Len(actions) \in Nat
      /\ DOMAIN actions = 1..Len(actions) /\ DOMAIN actions' = 1..Len(actions) + 1
      /\ actions'[Len(actions) + 1] = x
      /\ \A i \in 1..Len(actions) : actions'[i] = actions[i]
  BY <1>a, <1>b, Recorded
<1> SUFFICES ASSUME NEW a \in Actors, a \notin unlogged, NEW cause \in Nat
             PROVE  (Cardinality(BroadcastsOf(a, cause)) + Cardinality(OwedBy(a, cause))
                       <= Cardinality(EntriesOf(a, cause)))'
  BY DEF Committed
<1>2. Cardinality(BroadcastsOf(a, cause)) + Cardinality(OwedBy(a, cause)) <= Cardinality(EntriesOf(a, cause))
  BY DEF Committed
<1>3. BroadcastsOf(a, cause)' = BroadcastsOf(a, cause)
  BY DEF BroadcastsOf
<1>4. Len(actions) + 1 \notin EntriesOf(a, cause)
  <2>1. Len(actions) + 1 \notin 1..Len(actions)
    BY <1>1
  <2> QED
    BY <1>1, <2>1 DEF EntriesOf
<1>5. CASE a = t[1] /\ cause = thread[t].signal
  <2>1. EntriesOf(a, cause)' = EntriesOf(a, cause) \cup {Len(actions) + 1}
    BY <1>1, <1>5 DEF EntriesOf, Entry
  <2>2. OwedBy(a, cause)' \subseteq OwedBy(a, cause) \cup {t}
    BY DEF OwedBy, Owes
  <2> QED
    BY <1>2, <1>3, <1>4, <2>1, <2>2, AllFinite, Earned
<1>6. CASE ~(a = t[1] /\ cause = thread[t].signal)
  <2>1. EntriesOf(a, cause) \subseteq EntriesOf(a, cause)'
    BY <1>1 DEF EntriesOf, Entry
  <2>2. OwedBy(a, cause)' \subseteq OwedBy(a, cause)
    BY <1>6 DEF OwedBy, Owes
  <2>3. IsFiniteSet(EntriesOf(a, cause)')
    BY EntriesFinite
  <2> QED
    BY <1>2, <1>3, <2>1, <2>2, <2>3, AllFinite, Fewer
<1> QED
  BY <1>5, <1>6

-----------------------------------------------------------------------------
(* The invariant in parts that steps keep. *)

ScheduleOK ==
    /\ rows \in [Rows -> {"due", "later", "NULL"}]
    /\ poll \in [phase : {"down", "ready"}, list : SUBSET Rows, row : SUBSET Rows]
    /\ fired \in [Rows -> Nat]
    /\ lost \in [Rows -> Nat]
    /\ stored \in [Rows -> 0..MaxPeriods]
    /\ repeated \in [Rows -> Nat]
    /\ PollOK
    /\ PeriodsAccounted

SidesOK ==
    /\ emitting \subseteq WakeSignal
    /\ interrupted \subseteq Daemons
    /\ spawns \in [Actors -> 0..(MaxSpawns + 1)]
    /\ lifecycle \in [Daemons -> {"none", "start", "signal", "stop"}]
    /\ faults \in 0..MaxFaults
    /\ unlogged \subseteq Daemons
    /\ EmitsWakes

LEMMA Parts ==
    ASSUME IInv
    PROVE  /\ ScheduleOK /\ SidesOK /\ Base /\ TypeOK /\ LoopsOK /\ Heard /\ Acting /\ Acted
           /\ Committed /\ RunningIsOnLedger
  BY DEF IInv, Base, TypeOK, ScheduleOK, SidesOK

LEMMA BaseAgain ==
    ASSUME ScheduleOK', SidesOK', signals' \in Seq(WakeSignal), conn' \in ConnType,
           thread' \in [Threads -> Thread], actions' \in Seq(Action), LoopsOK'
    PROVE  Base'
  BY DEF Base, TypeOK, ScheduleOK, SidesOK, ConnType

LEMMA ScheduleStays ==
    ASSUME ScheduleOK, UNCHANGED schedule
    PROVE  ScheduleOK'
  BY DEF ScheduleOK, schedule, PollOK, PeriodsAccounted

LEMMA Bounds ==
    MaxFaults \in Nat /\ MaxSpawns \in Nat /\ MaxPeriods \in Nat /\ MaxProposals \in Nat
  BY WakeAssumption

LEMMA Faults ==
    ASSUME SidesOK, Fault \/ UNCHANGED faults
    PROVE  faults' \in 0..MaxFaults
<1>1. CASE Fault
  BY <1>1, Bounds DEF Fault, SidesOK
<1>2. CASE UNCHANGED faults
  BY <1>2 DEF SidesOK
<1> QED
  BY <1>1, <1>2

\* A step of no thread.
LEMMA ThreadsRest ==
    ASSUME IInv, UNCHANGED <<thread, actions, unlogged, lifecycle>>, ScheduleOK', SidesOK',
           signals' \in Seq(WakeSignal), conn' \in ConnType, Heard', Grows,
           \A a, cause : BroadcastsOf(a, cause)' \subseteq BroadcastsOf(a, cause)
    PROVE  IInv'
<1>1. Base'
  <2>1. thread' \in [Threads -> Thread] /\ actions' \in Seq(Action)
    BY Parts DEF TypeOK
  <2>2. LoopsOK'
    BY Parts DEF LoopsOK
  <2> QED
    BY <2>1, <2>2, BaseAgain
<1>2. Acting' /\ Acted'
  BY Parts, ActsKeep DEF GoesOn
<1>3. Committed'
  <2>1. \A t \in Threads : \A cause : Owes(t, cause)' => Owes(t, cause)
    BY DEF Owes
  <2>2. \A a, cause : EntriesOf(a, cause) \subseteq EntriesOf(a, cause)'
    BY DEF EntriesOf
  <2> QED
    BY <1>1, <2>1, <2>2, Parts, CommittedKeeps
<1>4. RunningIsOnLedger'
  BY Parts DEF RunningIsOnLedger
<1> QED
  BY <1>1, <1>2, <1>3, <1>4 DEF IInv, ScheduleOK

\* A step of thread t that begins nothing.
LEMMA ThreadGoesOn ==
    ASSUME IInv, UNCHANGED <<schedule, signals, actions>>, SidesOK', unlogged \subseteq unlogged',
           conn' \in ConnType, Heard', Grows,
           NEW t \in Threads, NEW next \in Thread, Goes(t, next), next.phase # "broadcast",
           next.phase = "act" =>
             /\ thread[t].phase \in {"act", "broadcast"} /\ next.signal = thread[t].signal
             /\ t[1] \in Embedded /\ next.left >= 1,
           t[1] \in Embedded => next.phase \in {"off", "loop", "act"},
           RunningIsOnLedger'
    PROVE  IInv'
<1>1. /\ thread' \in [Threads -> Thread] /\ LoopsOK'
      /\ \A u \in Threads : thread'[u] = IF u = t THEN next ELSE thread[u]
  BY Parts, Gone
<1>2. ScheduleOK'
  BY Parts, ScheduleStays
<1>3. Base'
  <2>1. signals' \in Seq(WakeSignal) /\ actions' \in Seq(Action)
    BY Parts DEF TypeOK
  <2> QED
    BY <1>1, <1>2, <2>1, BaseAgain
<1>4. \A u \in Threads : GoesOn(u)
  BY <1>1, ThreadKinds DEF GoesOn
<1>5. Acting' /\ Acted'
  BY <1>4, Parts, ActsKeep
<1>6. Committed'
  <2>1. \A u \in Threads : \A cause : Owes(u, cause)' => Owes(u, cause)
    BY <1>1 DEF Owes
  <2>2. /\ \A a, cause : EntriesOf(a, cause) \subseteq EntriesOf(a, cause)'
        /\ \A a, cause : BroadcastsOf(a, cause)' \subseteq BroadcastsOf(a, cause)
    BY DEF EntriesOf, BroadcastsOf
  <2> QED
    BY <1>3, <2>1, <2>2, Parts, CommittedKeeps
<1> QED
  BY <1>2, <1>3, <1>5, <1>6 DEF IInv, ScheduleOK

\* What the ledger says of a daemon, if the step does not begin its loop.
LEMMA RunningStays ==
    ASSUME IInv, NEW t \in Threads, NEW next, Goes(t, next), UNCHANGED lifecycle,
           (t[1] \in Daemons /\ next.phase \notin {"off", "start", "stop"})
             => thread[t].phase \notin {"off", "start", "stop"}
    PROVE  RunningIsOnLedger'
<1>1. \A u \in Threads : thread'[u] = IF u = t THEN next ELSE thread[u]
  BY Parts DEF Goes, TypeOK
<1>2. RunningIsOnLedger
  BY Parts
<1> QED
  BY <1>1, <1>2, ThreadKinds DEF RunningIsOnLedger

-----------------------------------------------------------------------------
(* Steps of no thread *)

\* None of them hears or publishes anything.
LEMMA SilentKeeps ==
    ASSUME IInv, UNCHANGED <<thread, actions, unlogged, lifecycle, signals, conn>>,
           ScheduleOK', SidesOK'
    PROVE  IInv'
<1>1. signals' \in Seq(WakeSignal) /\ conn' \in ConnType /\ Heard' /\ Grows
  BY Parts, SameShrinks DEF TypeOK
<1>2. \A a, cause : BroadcastsOf(a, cause)' \subseteq BroadcastsOf(a, cause)
  BY DEF BroadcastsOf
<1> QED
  BY <1>1, <1>2, ThreadsRest

LEMMA RestartKeeps == ASSUME IInv, RedisRestarts PROVE IInv'
<1>1. ScheduleOK'
  BY Parts, ScheduleStays DEF RedisRestarts
<1>2. SidesOK'
  BY Parts, Faults DEF RedisRestarts, SidesOK, ledger, EmitsWakes
<1>3. PICK kept \in [Actors -> [{"own", "org"} -> 0..Len(signals)]] :
        /\ \A a \in Actors, c \in {"own", "org"} : kept[a][c] <= Len(conn[a][c].queue)
        /\ conn' = [a \in Actors |-> [c \in {"own", "org"} |->
                        [open |-> FALSE, queue |-> SubSeq(conn[a][c].queue, 1, kept[a][c])]]]
  BY DEF RedisRestarts
<1>4. Len(signals) \in Nat
  BY Parts, LenProperties DEF TypeOK
<1>5. ASSUME NEW a \in Actors, NEW c \in {"own", "org"}
      PROVE  /\ conn'[a][c] \in Connection
             /\ Increasing(conn[a][c].queue) => Increasing(conn'[a][c].queue)
             /\ \A k \in DOMAIN conn'[a][c].queue : \E j \in DOMAIN conn[a][c].queue :
                  conn'[a][c].queue[k] = conn[a][c].queue[j]
  <2> PICK q : q = conn[a][c].queue
    OBVIOUS
  <2> PICK n : n = kept[a][c]
    OBVIOUS
  <2> PICK r : r = SubSeq(q, 1, n)
    OBVIOUS
  <2>1. q \in Seq(Nat)
    BY Parts DEF TypeOK, Connection
  <2>2. n \in 0..Len(signals) /\ n <= Len(q)
    BY <1>3
  <2>3. Len(q) \in Nat /\ n \in Nat /\ 1 \in 1..(Len(q) + 1) /\ n \in 0..Len(q)
    BY <1>4, <2>1, <2>2, LenProperties
  <2>4. r \in Seq(Nat) /\ DOMAIN r = 1..n /\ \A k \in 1..n : r[k] = q[k]
    <3>1. \A k \in 1..n : k \in 1..Len(q)
      BY <2>3
    <3>2. \A k \in 1..n : q[k] \in Nat
      BY <2>1, <3>1, ElementOfSeq
    <3> QED
      BY <2>1, <2>3, <3>2
  <2>5. \A k \in DOMAIN r : k \in DOMAIN q /\ r[k] = q[k]
    <3>1. DOMAIN q = 1..Len(q)
      BY <2>1, LenProperties
    <3>2. \A k \in 1..n : k \in 1..Len(q)
      BY <2>3
    <3> QED
      BY <2>4, <3>1, <3>2
  <2>6. conn'[a][c] = [open |-> FALSE, queue |-> r]
    BY <1>3
  <2> QED
    BY <2>4, <2>5, <2>6 DEF Connection, Increasing
<1>6. conn' \in ConnType
  BY <1>3, <1>5 DEF ConnType
<1>7. Heard' /\ Grows
  <2>1. Shrinks
    BY <1>5 DEF Shrinks
  <2> QED
    BY <2>1, Parts, ShrinksKeeps DEF RedisRestarts
<1>8. signals' \in Seq(WakeSignal) /\ \A a, cause : BroadcastsOf(a, cause)' \subseteq BroadcastsOf(a, cause)
  BY Parts DEF TypeOK, RedisRestarts, BroadcastsOf
<1>9. UNCHANGED <<thread, actions, unlogged, lifecycle>>
  BY DEF RedisRestarts, ledger
<1> QED
  BY <1>1, <1>2, <1>6, <1>7, <1>8, <1>9, ThreadsRest

LEMMA AppendKeeps == ASSUME IInv, NEW a \in Actors, AppendSignal(a) PROVE IInv'
<1>1. ScheduleOK'
  BY Parts, ScheduleStays DEF AppendSignal
<1>2. SidesOK'
  <2>1. WakeFor({a}) \in WakeSignal
    BY NewWake
  <2> QED
    BY <2>1, Parts DEF AppendSignal, SidesOK, ledger, EmitsWakes, WakeFor
<1> QED
  BY <1>1, <1>2, SilentKeeps DEF AppendSignal, ledger

LEMMA WakePublished ==
    ASSUME IInv, UNCHANGED <<thread, actions, unlogged, lifecycle>>, ScheduleOK', SidesOK',
           NEW signal \in WakeSignal, signal.kind = "wake", Publish(signal)
    PROVE  IInv'
<1>1. signals' \in Seq(WakeSignal) /\ conn' \in ConnType /\ Heard' /\ Grows
  BY Parts, PublishKeeps
<1>2. /\ Len(signals) \in Nat /\ Len(signals') = Len(signals) + 1
      /\ signals'[Len(signals) + 1].kind = "wake"
      /\ \A i \in 1..Len(signals) : signals'[i] = signals[i]
  BY Parts, Published
<1>3. DOMAIN signals = 1..Len(signals) /\ DOMAIN signals' = 1..Len(signals) + 1
  BY <1>1, <1>2, Parts, LenProperties DEF TypeOK
<1>4. \A a, cause : BroadcastsOf(a, cause)' \subseteq BroadcastsOf(a, cause)
  BY <1>2, <1>3 DEF BroadcastsOf
<1> QED
  BY <1>1, <1>4, ThreadsRest

LEMMA PublishLoggedKeeps == ASSUME IInv, PublishLogged PROVE IInv'
<1> PICK signal \in emitting :
        /\ emitting' = {}
        /\ \/ Publish(signal) /\ UNCHANGED faults
           \/ Fault /\ UNCHANGED <<signals, conn>>
        /\ UNCHANGED <<schedule, thread, interrupted, spawns, ledger, unlogged>>
  BY DEF PublishLogged
<1>1. ScheduleOK'
  BY Parts, ScheduleStays
<1>2. SidesOK'
  <2>1. faults' \in 0..MaxFaults
    BY Parts, Faults
  <2> QED
    BY <2>1, Parts DEF SidesOK, ledger, EmitsWakes
<1>3. signal \in WakeSignal /\ signal.kind = "wake"
  BY Parts DEF SidesOK, EmitsWakes
<1>4. UNCHANGED <<thread, actions, unlogged, lifecycle>>
  BY DEF ledger
<1>5. CASE Publish(signal)
  BY <1>1, <1>2, <1>3, <1>4, <1>5, WakePublished
<1>6. CASE UNCHANGED <<signals, conn>>
  BY <1>1, <1>2, <1>4, <1>6, SilentKeeps
<1> QED
  BY <1>5, <1>6

\* The poll's own steps; faults apart, they touch the schedule alone.
LEMMA ScheduleSteps ==
    ASSUME IInv, ScheduleOK', Fault \/ UNCHANGED faults,
           UNCHANGED <<emitting, thread, interrupted, spawns, ledger, unlogged>>
    PROVE  SidesOK' /\ UNCHANGED <<thread, actions, unlogged, lifecycle>>
<1>1. faults' \in 0..MaxFaults
  BY Parts, Faults
<1> QED
  BY <1>1, Parts DEF SidesOK, ledger, EmitsWakes

LEMMA DueKeeps == ASSUME IInv, NEW r \in Rows, BecomesDue(r) PROVE IInv'
<1>1. ScheduleOK'
  BY Parts, Bounds DEF ScheduleOK, BecomesDue, PollOK, PeriodsAccounted
<1>2. SidesOK' /\ UNCHANGED <<thread, actions, unlogged, lifecycle>>
  BY <1>1, ScheduleSteps DEF BecomesDue
<1> QED
  BY <1>1, <1>2, SilentKeeps DEF BecomesDue

LEMMA StartsKeeps == ASSUME IInv, PollerStarts PROVE IInv'
<1>1. ScheduleOK'
  <2>1. poll' = [phase |-> "ready", list |-> {}, row |-> {}]
    BY DEF PollerStarts, NotPolling
  <2>2. PeriodsAccounted'
    <3>1. poll.row = {}
      BY Parts DEF PollerStarts, ScheduleOK, PollOK
    <3>2. poll'.row = {} /\ UNCHANGED <<fired, lost, stored, repeated>>
      BY <2>1 DEF PollerStarts
    <3> QED
      BY <3>1, <3>2, Parts DEF ScheduleOK, PeriodsAccounted
  <2> QED
    BY <2>1, <2>2, Parts DEF ScheduleOK, PollerStarts, PollOK
<1>2. SidesOK' /\ UNCHANGED <<thread, actions, unlogged, lifecycle>>
  BY <1>1, ScheduleSteps DEF PollerStarts
<1> QED
  BY <1>1, <1>2, SilentKeeps DEF PollerStarts

LEMMA ListKeeps == ASSUME IInv, ListDueAgencySchedules PROVE IInv'
<1>1. PICK list \in SUBSET Rows :
        /\ \A r \in list : rows[r] = "due"
        /\ poll' = [phase |-> "ready", list |-> list, row |-> {}]
  BY DEF ListDueAgencySchedules
<1>2. ScheduleOK'
  <2>1. PeriodsAccounted'
    <3>1. poll.row = {} /\ poll'.row = {}
      BY <1>1 DEF ListDueAgencySchedules, NotPolling
    <3> QED
      BY <3>1, Parts DEF ScheduleOK, PeriodsAccounted, ListDueAgencySchedules
  <2> QED
    BY <1>1, <2>1, Parts DEF ScheduleOK, ListDueAgencySchedules, PollOK
<1>3. SidesOK' /\ UNCHANGED <<thread, actions, unlogged, lifecycle>>
  BY <1>2, ScheduleSteps DEF ListDueAgencySchedules
<1> QED
  BY <1>2, <1>3, SilentKeeps DEF ListDueAgencySchedules

LEMMA PollPublishesKeeps == ASSUME IInv, NEW r \in Rows, PollPublishes(r) PROVE IInv'
<1>1. poll' = [poll EXCEPT !.row = {r}] /\ poll.row = {} /\ r \in poll.list
  BY DEF PollPublishes
<1>2. /\ UNCHANGED <<rows, stored, repeated>>
      /\ \/ fired' = [fired EXCEPT ![r] = @ + 1] /\ UNCHANGED lost
         \/ lost' = [lost EXCEPT ![r] = @ + 1] /\ UNCHANGED fired
  BY DEF PollPublishes
<1>3. PollOK'
  BY <1>1, <1>2, Parts DEF ScheduleOK, PollOK
<1>4. ASSUME NEW x \in Rows
      PROVE  fired'[x] + lost'[x] = stored'[x] + repeated'[x] + (IF x \in poll'.row THEN 1 ELSE 0)
  <2>1. /\ fired[x] \in Nat /\ lost[x] \in Nat /\ stored[x] \in Nat /\ repeated[x] \in Nat
        /\ fired[x] + lost[x] = stored[x] + repeated[x] + (IF x \in poll.row THEN 1 ELSE 0)
    BY Parts, Bounds DEF ScheduleOK, PeriodsAccounted
  <2>2. x \in poll'.row <=> x = r
    BY <1>1, Parts DEF ScheduleOK
  <2>3. x \notin poll.row
    BY <1>1
  <2>4. CASE x = r
    BY <1>2, <2>1, <2>2, <2>3, <2>4, Parts DEF ScheduleOK
  <2>5. CASE x # r
    BY <1>2, <2>1, <2>2, <2>3, <2>5, Parts DEF ScheduleOK
  <2> QED
    BY <2>4, <2>5
<1>5. ScheduleOK'
  BY <1>1, <1>2, <1>3, <1>4, Parts DEF ScheduleOK, PeriodsAccounted
<1>6. SidesOK' /\ UNCHANGED <<thread, actions, unlogged, lifecycle>>
  BY <1>5, ScheduleSteps DEF PollPublishes
<1>7. CASE Publish(WakeFor(AgentOf[r]))
  <2>1. WakeFor(AgentOf[r]) \in WakeSignal /\ WakeFor(AgentOf[r]).kind = "wake"
    BY NewWake, WakeAssumption DEF WakeFor
  <2> QED
    BY <1>5, <1>6, <1>7, <2>1, WakePublished
<1>8. CASE UNCHANGED <<signals, conn>>
  BY <1>5, <1>6, <1>8, SilentKeeps
<1> QED
  BY <1>7, <1>8 DEF PollPublishes

LEMMA PollStoresKeeps == ASSUME IInv, NEW r \in Rows, PollStores(r) PROVE IInv'
<1>1. poll' = [poll EXCEPT !.list = @ \ {r}, !.row = {}] /\ poll.row = {r}
  BY DEF PollStores, NextRow
<1>2. r \in poll.list /\ rows[r] = "due" /\ stored[r] < MaxPeriods
  BY <1>1, Parts DEF ScheduleOK, PollOK
<1>3. /\ UNCHANGED <<fired, lost>>
      /\ \/ /\ \E next \in {"later", "NULL"} : rows' = [rows EXCEPT ![r] = next]
            /\ stored' = [stored EXCEPT ![r] = @ + 1] /\ UNCHANGED repeated
         \/ repeated' = [repeated EXCEPT ![r] = @ + 1] /\ UNCHANGED <<rows, stored>>
  BY DEF PollStores
<1>4. rows' \in [Rows -> {"due", "later", "NULL"}] /\ stored' \in [Rows -> 0..MaxPeriods]
      /\ repeated' \in [Rows -> Nat]
  BY <1>2, <1>3, Parts, Bounds DEF ScheduleOK
<1>5. PollOK'
  <2>1. poll'.row = {} /\ \A x \in poll'.list : x \in poll.list /\ x # r
    BY <1>1, Parts DEF ScheduleOK
  <2>2. \A x \in Rows : rows'[x] = "due" => rows[x] = "due"
    BY <1>3, Parts DEF ScheduleOK
  <2>3. \A x \in Rows : x # r => rows'[x] = rows[x] /\ stored'[x] = stored[x]
    BY <1>3, Parts DEF ScheduleOK
  <2>4. rows'[r] = "due" => stored'[r] = stored[r]
    BY <1>3, Parts DEF ScheduleOK
  <2>5. poll.list \subseteq Rows
    BY Parts DEF ScheduleOK
  <2>6. poll'.phase # "down"
    BY <1>1, <1>2, Parts DEF ScheduleOK, PollOK
  <2> QED
    BY <2>1, <2>2, <2>3, <2>4, <2>5, <2>6, Parts DEF ScheduleOK, PollOK
<1>6. ASSUME NEW x \in Rows
      PROVE  fired'[x] + lost'[x] = stored'[x] + repeated'[x] + (IF x \in poll'.row THEN 1 ELSE 0)
  <2>1. /\ fired[x] \in Nat /\ lost[x] \in Nat /\ stored[x] \in Nat /\ repeated[x] \in Nat
        /\ fired[x] + lost[x] = stored[x] + repeated[x] + (IF x \in poll.row THEN 1 ELSE 0)
    BY Parts, Bounds DEF ScheduleOK, PeriodsAccounted
  <2>2. x \in poll.row <=> x = r
    BY <1>1
  <2>3. x \notin poll'.row
    BY <1>1, Parts DEF ScheduleOK
  <2>4. CASE x = r
    BY <1>3, <2>1, <2>2, <2>3, <2>4, Parts DEF ScheduleOK
  <2>5. CASE x # r
    BY <1>3, <2>1, <2>2, <2>3, <2>5, Parts DEF ScheduleOK
  <2> QED
    BY <2>4, <2>5
<1>7. ScheduleOK'
  BY <1>1, <1>3, <1>4, <1>5, <1>6, Parts DEF ScheduleOK, PeriodsAccounted
<1>8. SidesOK' /\ UNCHANGED <<thread, actions, unlogged, lifecycle>>
  BY <1>7, ScheduleSteps DEF PollStores
<1> QED
  BY <1>7, <1>8, SilentKeeps DEF PollStores

LEMMA PollerDiesKeeps == ASSUME IInv, PollerDies PROVE IInv'
<1>1. poll' = [phase |-> "down", list |-> {}, row |-> {}]
  BY DEF PollerDies, NotPolling
<1>2. ASSUME NEW x \in Rows
      PROVE  /\ repeated'[x] \in Nat
             /\ fired'[x] + lost'[x] = stored'[x] + repeated'[x] + (IF x \in poll'.row THEN 1 ELSE 0)
  <2>1. /\ fired[x] \in Nat /\ lost[x] \in Nat /\ stored[x] \in Nat /\ repeated[x] \in Nat
        /\ fired[x] + lost[x] = stored[x] + repeated[x] + (IF x \in poll.row THEN 1 ELSE 0)
    BY Parts, Bounds DEF ScheduleOK, PeriodsAccounted
  <2>2. x \notin poll'.row
    BY <1>1
  <2>3. repeated'[x] = repeated[x] + IF x \in poll.row THEN 1 ELSE 0
    BY DEF PollerDies
  <2>4. UNCHANGED <<fired, lost, stored>>
    BY DEF PollerDies
  <2> QED
    BY <2>1, <2>2, <2>3, <2>4
<1>3. repeated' \in [Rows -> Nat]
  <2>1. repeated' = [x \in Rows |-> repeated'[x]]
    BY DEF PollerDies
  <2> QED
    BY <1>2, <2>1
<1>4. ScheduleOK'
  <2>1. UNCHANGED <<rows, fired, lost, stored>>
    BY DEF PollerDies
  <2> QED
    BY <1>1, <1>2, <1>3, <2>1, Parts DEF ScheduleOK, PeriodsAccounted, PollOK
<1>5. SidesOK' /\ UNCHANGED <<thread, actions, unlogged, lifecycle>>
  BY <1>4, ScheduleSteps DEF PollerDies
<1> QED
  BY <1>4, <1>5, SilentKeeps DEF PollerDies

LEMMA InterruptKeeps == ASSUME IInv, NEW d \in Daemons, Interrupt(d) PROVE IInv'
<1>1. ScheduleOK'
  BY Parts, ScheduleStays DEF Interrupt
<1>2. SidesOK'
  BY Parts DEF Interrupt, SidesOK, ledger, EmitsWakes
<1> QED
  BY <1>1, <1>2, SilentKeeps DEF Interrupt, ledger

-----------------------------------------------------------------------------
(* Steps of a daemon that begin no action *)

\* Another phase of a thread.
LEMMA Rephased ==
    ASSUME IInv, NEW t \in Threads, NEW phase \in Phases, GoesTo(t, phase)
    PROVE  \E next \in Thread :
             /\ Goes(t, next) /\ next.phase = phase
             /\ next.signal = thread[t].signal /\ next.left = thread[t].left
<1> PICK next : next = [thread[t] EXCEPT !.phase = phase]
  OBVIOUS
<1>1. thread[t] \in Thread
  BY Parts DEF TypeOK
<1>2. next \in Thread /\ next.phase = phase /\ next.signal = thread[t].signal /\ next.left = thread[t].left
  BY <1>1 DEF Thread
<1>3. Goes(t, next)
  BY Parts, GoneTo
<1> QED
  BY <1>2, <1>3

LEMMA SpawnKeeps == ASSUME IInv, NEW d \in Daemons, Spawn(d) PROVE IInv'
<1> PICK t \in Threads : t = <<d, "both">>
  BY ThreadKinds
<1>1. PICK next \in Thread : Goes(t, next) /\ next.phase = "start"
  BY Rephased DEF Spawn, Phases
<1>2. SidesOK'
  <2>1. spawns[d] \in 0..(MaxSpawns + 1) /\ spawns[d] < MaxSpawns
    BY Parts, ThreadKinds DEF SidesOK, Spawn
  <2>2. spawns[d] + 1 \in 0..(MaxSpawns + 1)
    BY <2>1, Bounds
  <2>3. spawns' \in [Actors -> 0..(MaxSpawns + 1)]
    BY <2>2, Parts DEF SidesOK, Spawn
  <2> QED
    BY <2>3, Parts DEF SidesOK, Spawn, ledger, EmitsWakes
<1>3. conn' \in ConnType /\ Heard' /\ Grows
  BY Parts, SameShrinks DEF Spawn
<1>4. RunningIsOnLedger'
  BY <1>1, RunningStays DEF Spawn, ledger
<1> QED
  BY <1>1, <1>2, <1>3, <1>4, ThreadKinds, ThreadGoesOn DEF Spawn, ledger

\* A daemon ends, and its connections with it.
LEMMA Ended ==
    ASSUME IInv, NEW d \in Daemons, Ends(d), UNCHANGED signals
    PROVE  Goes(<<d, "both">>, Off) /\ Off.phase = "off" /\ conn' \in ConnType /\ Heard' /\ Grows
<1>1. [c \in {"own", "org"} |-> Closed] \in [{"own", "org"} -> Connection]
  BY NoConnection
<1>2. \A c \in {"own", "org"} : [x \in {"own", "org"} |-> Closed][c].queue = << >>
  BY DEF Closed
<1>3. d \in Actors
  BY ThreadKinds
<1>4. conn' \in ConnType /\ Heard' /\ Grows
  BY <1>1, <1>2, <1>3, Parts, EmptyShrinks DEF Ends
<1> QED
  BY <1>4 DEF Ends, Off

\* What is left to show of a daemon's step that begins no action.
LEMMA DaemonGoesOn ==
    ASSUME IInv, NEW d \in Daemons, NEW next \in Thread, Goes(<<d, "both">>, next),
           next.phase \notin {"act", "broadcast"},
           UNCHANGED <<schedule, emitting, signals, interrupted, spawns, actions, unlogged>>,
           Fault \/ UNCHANGED faults,
           \/ UNCHANGED lifecycle
           \/ \E x \in {"start", "signal", "stop"} : lifecycle' = [lifecycle EXCEPT ![d] = x],
           conn' \in ConnType, Heard', Grows, RunningIsOnLedger'
    PROVE  IInv'
<1>1. faults' \in 0..MaxFaults
  BY Parts, Faults
<1>2. lifecycle' \in [Daemons -> {"none", "start", "signal", "stop"}]
  BY Parts DEF SidesOK
<1>3. SidesOK'
  BY <1>1, <1>2, Parts DEF SidesOK, EmitsWakes
<1> PICK t \in Threads : t = <<d, "both">>
  BY ThreadKinds
<1>4. t[1] \notin Embedded
  BY ThreadKinds
<1> QED
  BY <1>3, <1>4, ThreadGoesOn

LEMMA StartEntryKeeps == ASSUME IInv, NEW d \in Daemons, StartEntry(d) PROVE IInv'
<1> PICK t \in Threads : t = <<d, "both">>
  BY ThreadKinds
<1>0. UNCHANGED <<schedule, emitting, signals, interrupted, spawns, actions, unlogged>>
  BY DEF StartEntry
<1>1. CASE /\ lifecycle' = [lifecycle EXCEPT ![d] = "start"]
           /\ GoesTo(<<d, "both">>, "own")
           /\ UNCHANGED <<conn, faults>>
  <2>1. PICK next \in Thread : Goes(t, next) /\ next.phase = "own"
    BY <1>1, Rephased DEF Phases
  <2>2. conn' \in ConnType /\ Heard' /\ Grows
    BY <1>0, <1>1, Parts, SameShrinks
  <2>3. RunningIsOnLedger'
    <3>1. \A u \in Threads : thread'[u] = IF u = t THEN next ELSE thread[u]
      BY <2>1, Parts DEF Goes, TypeOK
    <3>2. \A x \in Daemons : lifecycle'[x] = IF x = d THEN "start" ELSE lifecycle[x]
      BY <1>1, Parts DEF SidesOK
    <3> QED
      BY <3>1, <3>2, Parts, ThreadKinds DEF RunningIsOnLedger
  <2> QED
    BY <1>0, <1>1, <2>1, <2>2, <2>3, DaemonGoesOn
<1>2. CASE Fault /\ Ends(d) /\ UNCHANGED lifecycle
  <2>1. Goes(t, Off) /\ Off.phase = "off" /\ conn' \in ConnType /\ Heard' /\ Grows
    BY <1>0, <1>2, Ended
  <2>2. RunningIsOnLedger'
    BY <1>2, <2>1, RunningStays
  <2> QED
    BY <1>0, <1>2, <2>1, <2>2, Resting, DaemonGoesOn
<1> QED
  BY <1>1, <1>2 DEF StartEntry

LEMMA KillKeeps == ASSUME IInv, NEW d \in Daemons, Kill(d) PROVE IInv'
<1> PICK t \in Threads : t = <<d, "both">>
  BY ThreadKinds
<1>1. Goes(t, Off) /\ Off.phase = "off" /\ conn' \in ConnType /\ Heard' /\ Grows
  BY Ended DEF Kill
<1>2. RunningIsOnLedger'
  BY <1>1, RunningStays DEF Kill, ledger
<1> QED
  BY <1>1, <1>2, Resting, DaemonGoesOn DEF Kill, ledger

LEMMA StopEntryKeeps == ASSUME IInv, NEW d \in Daemons, StopEntry(d) PROVE IInv'
<1> PICK t \in Threads : t = <<d, "both">>
  BY ThreadKinds
<1>0. UNCHANGED <<schedule, emitting, signals, interrupted, spawns, actions, unlogged>>
  BY DEF StopEntry
<1>1. Goes(t, Off) /\ Off.phase = "off" /\ conn' \in ConnType /\ Heard' /\ Grows
  BY Ended DEF StopEntry
<1>2. CASE lifecycle' = [lifecycle EXCEPT ![d] = "stop"] /\ UNCHANGED faults
  <2>1. RunningIsOnLedger'
    <3>1. \A u \in Threads : thread'[u] = IF u = t THEN Off ELSE thread[u]
      BY <1>1, Parts DEF Goes, TypeOK
    <3>2. \A x \in Daemons : x # d => lifecycle'[x] = lifecycle[x]
      BY <1>2, Parts DEF SidesOK
    <3> QED
      BY <1>1, <3>1, <3>2, Parts, ThreadKinds DEF RunningIsOnLedger
  <2> QED
    BY <1>0, <1>1, <1>2, <2>1, Resting, DaemonGoesOn
<1>3. CASE Fault /\ UNCHANGED lifecycle
  <2>1. RunningIsOnLedger'
    BY <1>1, <1>3, RunningStays
  <2> QED
    BY <1>0, <1>1, <1>3, <2>1, Resting, DaemonGoesOn
<1> QED
  BY <1>2, <1>3 DEF StopEntry

LEMMA SubscribeKeeps == ASSUME IInv, NEW d \in Daemons, Subscribe(d) PROVE IInv'
<1> PICK t \in Threads : t = <<d, "both">>
  BY ThreadKinds
<1>1. PICK c \in {"own", "org"} :
        /\ thread[t].phase = c
        /\ \/ /\ conn' = [conn EXCEPT ![d][c] = [open |-> TRUE, queue |-> << >>]]
              /\ GoesTo(t, IF c = "own" THEN "org" ELSE "loop")
              /\ UNCHANGED faults
           \/ /\ Fault \/ UNCHANGED faults
              /\ GoesTo(t, "stop")
              /\ UNCHANGED conn
        /\ UNCHANGED <<schedule, emitting, signals, interrupted, spawns, ledger, unlogged>>
  BY DEF Subscribe
<1>2. UNCHANGED <<schedule, emitting, signals, interrupted, spawns, actions, unlogged, lifecycle>>
  BY <1>1 DEF ledger
<1>3. Fault \/ UNCHANGED faults
  BY <1>1
<1>4. \E phase \in {"org", "loop", "stop"} : GoesTo(t, phase)
  BY <1>1
<1>5. PICK next \in Thread : Goes(t, next) /\ next.phase \in {"org", "loop", "stop"}
  BY <1>4, Rephased DEF Phases
<1>6. RunningIsOnLedger'
  BY <1>1, <1>2, <1>5, RunningStays
<1>7. conn' \in ConnType /\ Heard' /\ Grows
  <2>1. CASE conn' = [conn EXCEPT ![d][c] = [open |-> TRUE, queue |-> << >>]]
    <3> PICK f : f = [conn[d] EXCEPT ![c] = [open |-> TRUE, queue |-> << >>]]
      OBVIOUS
    <3>1. d \in Actors
      BY ThreadKinds
    <3>2. conn[d] \in [{"own", "org"} -> Connection]
      BY <3>1, Parts DEF TypeOK
    <3>3. f \in [{"own", "org"} -> Connection]
      BY <3>2, NoConnection
    <3>4. conn' = [conn EXCEPT ![d] = f]
      BY <2>1
    <3>5. \A x \in {"own", "org"} : f[x] = conn[d][x] \/ f[x].queue = << >>
      BY <3>2
    <3> QED
      BY <1>2, <3>1, <3>3, <3>4, <3>5, Parts, EmptyShrinks
  <2>2. CASE UNCHANGED conn
    BY <1>2, <2>2, Parts, SameShrinks
  <2> QED
    BY <1>1, <2>1, <2>2
<1> QED
  BY <1>2, <1>3, <1>5, <1>6, <1>7, DaemonGoesOn

LEMMA SeesInterruptKeeps == ASSUME IInv, NEW d \in Daemons, SeesInterrupt(d) PROVE IInv'
<1> PICK t \in Threads : t = <<d, "both">>
  BY ThreadKinds
<1>1. PICK next \in Thread : Goes(t, next) /\ next.phase = "stop"
  BY Rephased DEF SeesInterrupt, Phases
<1>2. RunningIsOnLedger'
  BY <1>1, RunningStays DEF SeesInterrupt, ledger
<1>3. conn' \in ConnType /\ Heard' /\ Grows
  BY Parts, SameShrinks DEF SeesInterrupt
<1> QED
  BY <1>1, <1>2, <1>3, DaemonGoesOn DEF SeesInterrupt, ledger

LEMMA NoteEntryKeeps == ASSUME IInv, NEW d \in Daemons, NoteEntry(d) PROVE IInv'
<1> PICK t \in Threads : t = <<d, "both">>
  BY ThreadKinds
<1>0. UNCHANGED <<schedule, emitting, signals, interrupted, spawns, actions, unlogged>>
  BY DEF NoteEntry
<1>1. thread[t].phase = "note"
  BY DEF NoteEntry
<1>2. conn' \in ConnType /\ Heard' /\ Grows
  BY Parts, SameShrinks DEF NoteEntry
<1>3. CASE /\ lifecycle' = [lifecycle EXCEPT ![d] = "signal"]
           /\ Goes(<<d, "both">>, Looping)
           /\ UNCHANGED faults
  <2>1. Looping.phase = "loop"
    BY DEF Looping, Off
  <2>2. RunningIsOnLedger'
    <3>1. \A u \in Threads : thread'[u] = IF u = t THEN Looping ELSE thread[u]
      BY <1>3, Parts DEF Goes, TypeOK
    <3>2. \A x \in Daemons : lifecycle'[x] = IF x = d THEN "signal" ELSE lifecycle[x]
      BY <1>3, Parts DEF SidesOK
    <3> QED
      BY <3>1, <3>2, Parts, ThreadKinds DEF RunningIsOnLedger
  <2> QED
    BY <1>0, <1>2, <1>3, <2>1, <2>2, Resting, DaemonGoesOn
<1>4. CASE /\ Fault
           /\ Goes(<<d, "both">>, [Off EXCEPT !.phase = "stop"])
           /\ UNCHANGED lifecycle
  <2>1. [Off EXCEPT !.phase = "stop"] \in Thread /\ [Off EXCEPT !.phase = "stop"].phase = "stop"
    BY DEF Off, Thread, Phases
  <2>2. RunningIsOnLedger'
    BY <1>4, <2>1, RunningStays
  <2> QED
    BY <1>0, <1>2, <1>4, <2>1, <2>2, DaemonGoesOn
<1> QED
  BY <1>3, <1>4 DEF NoteEntry

\* The channel of a thread ends: a daemon stops, a loop returns.
LEMMA SeesClosedChannelKeeps == ASSUME IInv, NEW t \in Threads, SeesClosedChannel(t) PROVE IInv'
<1> PICK a \in Actors : a = t[1]
  BY ThreadKinds
<1>0. UNCHANGED <<schedule, emitting, signals, interrupted, spawns, actions, unlogged, lifecycle, faults>>
  BY DEF SeesClosedChannel, ledger
<1>1. PICK c \in {"own", "org"} : conn' = [conn EXCEPT ![a][c] = Closed]
  <2>1. Hears(t) \subseteq {"own", "org"}
    BY ThreadKinds DEF Hears
  <2>2. PICK c \in Hears(t) : conn' = [conn EXCEPT ![a][c] = Closed]
    BY DEF SeesClosedChannel
  <2> QED
    BY <2>1, <2>2
<1>2. conn' \in ConnType /\ Heard' /\ Grows
  <2> PICK f : f = [conn[a] EXCEPT ![c] = Closed]
    OBVIOUS
  <2>1. conn[a] \in [{"own", "org"} -> Connection]
    BY Parts DEF TypeOK
  <2>2. f \in [{"own", "org"} -> Connection]
    BY <2>1, NoConnection
  <2>3. conn' = [conn EXCEPT ![a] = f]
    BY <1>1
  <2>4. \A x \in {"own", "org"} : f[x] = conn[a][x] \/ f[x].queue = << >>
    BY <2>1 DEF Closed
  <2> QED
    BY <1>0, <2>2, <2>3, <2>4, Parts, EmptyShrinks
<1>3. PICK next \in Thread : Goes(t, next) /\ next.phase = IF t[2] = "both" THEN "stop" ELSE "off"
  <2>1. CASE t[2] = "both"
    <3>1. GoesTo(t, "stop")
      BY <2>1 DEF SeesClosedChannel
    <3> QED
      BY <2>1, <3>1, Rephased DEF Phases
  <2>2. CASE t[2] # "both"
    <3>1. Goes(t, Off) /\ Off.phase = "off"
      BY <2>2 DEF SeesClosedChannel, Off
    <3> QED
      BY <2>2, <3>1, Resting
  <2> QED
    BY <2>1, <2>2
<1>4. t[1] \in Embedded => next.phase = "off"
  BY <1>3, ThreadKinds
<1>5. next.phase \in {"off", "stop"}
  BY <1>3
<1>6. RunningIsOnLedger'
  BY <1>0, <1>3, <1>5, RunningStays
<1>7. SidesOK'
  BY <1>0, Parts DEF SidesOK, EmitsWakes
<1> QED
  BY <1>0, <1>2, <1>3, <1>4, <1>5, <1>6, <1>7, ThreadGoesOn

-----------------------------------------------------------------------------
(* Steps that begin, record or broadcast an action *)

\* What is left to show of a step that leaves the schedule alone.
LEMMA BaseOf ==
    ASSUME IInv, UNCHANGED schedule, SidesOK', signals' \in Seq(WakeSignal), conn' \in ConnType,
           actions' \in Seq(Action), NEW t \in Threads, NEW next \in Thread, Goes(t, next),
           t[1] \in Embedded =>
             /\ next.phase \in {"off", "loop", "act", "broadcast"}
             /\ next.phase \in {"act", "broadcast"} => next.left >= 1
    PROVE  Base' /\ \A u \in Threads : thread'[u] = IF u = t THEN next ELSE thread[u]
<1>1. /\ thread' \in [Threads -> Thread] /\ LoopsOK'
      /\ \A u \in Threads : thread'[u] = IF u = t THEN next ELSE thread[u]
  BY Parts, Gone
<1>2. ScheduleOK'
  BY Parts, ScheduleStays
<1> QED
  BY <1>1, <1>2, BaseAgain

LEMMA AllOf ==
    ASSUME IInv, UNCHANGED schedule, Base', Heard', Acting', Acted', Committed', RunningIsOnLedger'
    PROVE  IInv'
<1>1. ScheduleOK'
  BY Parts, ScheduleStays
<1> QED
  BY <1>1 DEF IInv, ScheduleOK

\* A thread begins to act on signal i.
LEMMA BeginsKeeps ==
    ASSUME IInv, UNCHANGED <<schedule, signals, actions, unlogged>>, SidesOK', conn' \in ConnType,
           Heard', Grows, NEW t \in Threads, NEW next \in Thread, Goes(t, next), next.phase = "act",
           t[1] \in Embedded => next.left >= 1, ActsOn(t, next.signal)', RunningIsOnLedger'
    PROVE  IInv'
<1>1. Base' /\ \A u \in Threads : thread'[u] = IF u = t THEN next ELSE thread[u]
  <2>1. signals' \in Seq(WakeSignal) /\ actions' \in Seq(Action)
    BY Parts DEF TypeOK
  <2> QED
    BY <2>1, BaseOf
<1>2. Acted'
  BY Parts, EntriesStay
<1>3. \A u \in Threads : \A i :
        (thread'[u].phase \in {"act", "broadcast"} /\ thread'[u].signal = i) => ActsOn(u, i)'
  <2> SUFFICES ASSUME NEW u \in Threads, NEW i, thread'[u].phase \in {"act", "broadcast"},
                      thread'[u].signal = i
               PROVE  ActsOn(u, i)'
    OBVIOUS
  <2>1. CASE u = t
    BY <1>1, <2>1
  <2>2. CASE u # t
    <3>1. thread'[u] = thread[u]
      BY <1>1, <2>2
    <3>2. ActsOn(u, i)
      BY <3>1, Parts, ActingIs
    <3>3. i \in 1..Len(signals')
      BY <3>2 DEF ActsOn
    <3> QED
      BY <3>1, <3>2, <3>3, Parts, TakenStays DEF ActsOn
  <2> QED
    BY <2>1, <2>2
<1>4. Acting'
  BY <1>3 DEF Acting, ActsOn
<1>5. Committed'
  <2>1. \A u \in Threads : \A cause : Owes(u, cause)' => Owes(u, cause)
    BY <1>1 DEF Owes
  <2>2. /\ \A a, cause : EntriesOf(a, cause) \subseteq EntriesOf(a, cause)'
        /\ \A a, cause : BroadcastsOf(a, cause)' \subseteq BroadcastsOf(a, cause)
    BY DEF EntriesOf, BroadcastsOf
  <2> QED
    BY <1>1, <2>1, <2>2, Parts, CommittedKeeps
<1> QED
  BY <1>1, <1>2, <1>4, <1>5, AllOf

LEMMA Queues ==
    ASSUME TypeOK, NEW a \in Actors, NEW c \in {"own", "org"}, conn[a][c].queue # << >>
    PROVE  1 \in DOMAIN conn[a][c].queue /\ conn[a][c].queue[1] = Head(conn[a][c].queue)
<1> PICK q : q = conn[a][c].queue
  OBVIOUS
<1>1. q \in Seq(Nat) /\ q # << >>
  BY DEF TypeOK, Connection
<1> QED
  BY <1>1, HeadTailProperties, LenProperties, EmptySeq

\* A daemon reads a signal: not for it, or one it acts upon, notes, or ends over.
LEMMA ReceiveKeeps == ASSUME IInv, NEW d \in Daemons, Receive(d) PROVE IInv'
<1> PICK t \in Threads : t = <<d, "both">>
  BY ThreadKinds
<1>a. t[1] = d /\ d \in Actors /\ t[1] \notin Embedded
  BY ThreadKinds
<1>1. PICK c \in {"own", "org"} :
        /\ Takes(t, c)
        /\ \/ UNCHANGED <<thread, faults>>
           \/ /\ ShouldProcess(HeadOf(d, c))
              /\ Goes(t, [Looping EXCEPT
                            !.phase = IF d \in Barred THEN "note" ELSE "act",
                            !.signal = Head(conn[d][c].queue)])
              /\ UNCHANGED faults
           \/ Fault /\ GoesTo(t, "stop")
        /\ UNCHANGED <<schedule, emitting, signals, interrupted, spawns, ledger, unlogged>>
  BY DEF Receive, Hears
<1>2. UNCHANGED <<schedule, emitting, signals, interrupted, spawns, actions, lifecycle, unlogged>>
  BY <1>1 DEF ledger
<1> PICK i : i = Head(conn[d][c].queue)
  OBVIOUS
<1>3. /\ thread[t] = Looping /\ conn[d][c].queue # << >>
      /\ conn' = [conn EXCEPT ![d][c].queue = Tail(@)]
  BY <1>1, <1>a DEF Takes
<1>4. /\ conn' \in ConnType /\ Heard' /\ Grows
      /\ i \in 1..Len(signals) /\ d \in signals[i].to /\ ~Queued(d, i)'
  BY <1>2, <1>3, <1>a, Parts, TailShrinks
<1>5. thread[t].phase = "loop"
  BY <1>3 DEF Looping, Off
<1>6. SidesOK'
  <2>1. faults' \in 0..MaxFaults
    BY <1>1, Parts, Faults
  <2> QED
    BY <1>2, <2>1, Parts DEF SidesOK, EmitsWakes
<1>7. CASE UNCHANGED <<thread, faults>>
  <2>1. ScheduleOK' /\ signals' \in Seq(WakeSignal)
    BY <1>2, Parts, ScheduleStays DEF TypeOK
  <2>2. \A a, cause : BroadcastsOf(a, cause)' \subseteq BroadcastsOf(a, cause)
    BY <1>2 DEF BroadcastsOf
  <2> QED
    BY <1>2, <1>4, <1>6, <1>7, <2>1, <2>2, ThreadsRest
<1>8. CASE Fault /\ GoesTo(t, "stop")
  <2>1. PICK next \in Thread : Goes(t, next) /\ next.phase = "stop"
    BY <1>8, Rephased DEF Phases
  <2>2. RunningIsOnLedger'
    BY <1>2, <2>1, RunningStays
  <2> QED
    BY <1>2, <1>4, <1>8, <1>a, <2>1, <2>2, DaemonGoesOn
<1>9. CASE ShouldProcess(HeadOf(d, c))
           /\ Goes(t, [Looping EXCEPT !.phase = IF d \in Barred THEN "note" ELSE "act", !.signal = i])
  <2> PICK next : next = [Looping EXCEPT !.phase = IF d \in Barred THEN "note" ELSE "act", !.signal = i]
    OBVIOUS
  <2>1. i \in Nat
    <3>1. Len(signals) \in Nat
      BY <1>4 DEF Grows
    <3> QED
      BY <1>4, <3>1
  <2>2. /\ next \in Thread /\ next.phase = (IF d \in Barred THEN "note" ELSE "act")
        /\ next.signal = i
    BY <2>1 DEF Looping, Off, Thread, Phases
  <2>3. Goes(t, next)
    BY <1>9
  <2>4. RunningIsOnLedger'
    BY <1>2, <1>5, <2>3, RunningStays
  <2>5. signals[i].kind = "wake"
    <3>1. signals[i] \in WakeSignal
      BY <1>4, Parts, ElementOfSeq DEF TypeOK
    <3> QED
      BY <1>9, <3>1 DEF ShouldProcess, HeadOf, WakeSignal
  <2>6. CASE d \in Barred
    <3>1. next \in Thread /\ next.phase = "note"
      BY <2>2, <2>6
    <3>2. UNCHANGED <<schedule, signals, actions>> /\ unlogged \subseteq unlogged'
      BY <1>2
    <3> QED
      BY <1>4, <1>6, <1>a, <2>3, <2>4, <3>1, <3>2, ThreadGoesOn
  <2>7. CASE d \notin Barred
    <3>1. Queued(d, i)
      <4>1. 1 \in DOMAIN conn[d][c].queue /\ conn[d][c].queue[1] = i
        BY <1>3, <1>a, Parts, Queues
      <4> QED
        BY <4>1 DEF Queued
    <3>2. \A j \in 1..Len(actions) : ~(actions[j].actor = d /\ actions[j].cause = i)
      BY <3>1, Parts DEF Acted, TakenBy
    <3>3. TakenBy(d, i)'
      BY <1>2, <1>4, <2>5 DEF TakenBy
    <3>4. ActsOn(t, next.signal)'
      BY <1>2, <1>4, <1>a, <2>2, <3>2, <3>3 DEF ActsOn
    <3> QED
      BY <1>2, <1>4, <1>6, <1>a, <2>2, <2>3, <2>4, <2>7, <3>4, BeginsKeeps
  <2> QED
    BY <2>6, <2>7
<1> QED
  BY <1>1, <1>7, <1>8, <1>9

\* A loop reads a signal, and acts on it or not.
LEMMA HandleSignalKeeps ==
    ASSUME IInv, NEW e \in Embedded, NEW c \in {"own", "org"}, HandleSignal(e, c) PROVE IInv'
<1> PICK t \in Threads : t = <<e, c>>
  BY ThreadKinds
<1>a. t[1] = e /\ e \in Actors /\ t[1] \notin Daemons
  BY ThreadKinds
<1> PICK i : i = Head(conn[e][c].queue)
  OBVIOUS
<1>1. PICK left \in 0..MaxProposals :
        Goes(t, IF left = 0 THEN Looping
                ELSE [Looping EXCEPT !.phase = "act", !.left = left, !.signal = i])
  <2>1. PICK left \in IF Len(signals) < MaxSignals THEN 0..MaxProposals ELSE {0} :
        Goes(t, IF left = 0 THEN Looping
                ELSE [Looping EXCEPT !.phase = "act", !.left = left, !.signal = i])
    BY DEF HandleSignal
  <2>2. left \in 0..MaxProposals
    BY <2>1, Bounds
  <2> QED
    BY <2>1, <2>2
<1>2. UNCHANGED <<schedule, emitting, signals, interrupted, spawns, actions, lifecycle, faults, unlogged>>
  BY DEF HandleSignal, ledger
<1>3. conn[e][c].queue # << >> /\ conn' = [conn EXCEPT ![e][c].queue = Tail(@)]
  BY <1>a DEF HandleSignal, Takes
<1>4. conn' \in ConnType /\ Heard' /\ Grows /\ i \in 1..Len(signals)
  BY <1>2, <1>3, <1>a, Parts, TailShrinks
<1>5. SidesOK'
  BY <1>2, Parts DEF SidesOK, EmitsWakes
<1>6. \A next : Goes(t, next) => RunningIsOnLedger'
  BY <1>2, <1>a, RunningStays
<1>7. CASE left = 0
  <2>1. Goes(t, Looping) /\ Looping \in Thread /\ Looping.phase = "loop"
    BY <1>1, <1>7, Resting DEF Looping, Off
  <2> QED
    BY <1>2, <1>4, <1>5, <1>6, <1>a, <2>1, ThreadGoesOn
<1>8. CASE left # 0
  <2> PICK next : next = [Looping EXCEPT !.phase = "act", !.left = left, !.signal = i]
    OBVIOUS
  <2>1. i \in Nat /\ left \in Nat /\ left >= 1
    <3>1. Len(signals) \in Nat
      BY <1>4 DEF Grows
    <3>2. MaxProposals \in Nat
      BY WakeAssumption
    <3> QED
      BY <1>4, <1>8, <3>1, <3>2
  <2>2. next \in Thread /\ next.phase = "act" /\ next.signal = i /\ next.left = left
    BY <2>1 DEF Looping, Off, Thread, Phases
  <2>3. Goes(t, next)
    BY <1>1, <1>8
  <2>4. ActsOn(t, next.signal)'
    BY <1>2, <1>4, <1>a, <2>2 DEF ActsOn
  <2> QED
    BY <1>2, <1>4, <1>5, <1>6, <2>1, <2>2, <2>3, <2>4, BeginsKeeps
<1> QED
  BY <1>7, <1>8

\* A thread records what it was acting on.
LEMMA EntryKeeps ==
    ASSUME IInv, Grows, NEW t \in Threads, thread[t].phase = "act", NEW accepted \in BOOLEAN,
           actions' = Append(actions, Entry(t[1], thread[t].signal, accepted)),
           \A u \in Threads : u # t => thread'[u] = thread[u],
           thread'[t].phase \in {"act", "broadcast"} => thread'[t].signal = thread[t].signal,
           t[1] \in Daemons => thread'[t].phase # "act"
    PROVE  Acting' /\ Acted'
<1> PICK i : i = thread[t].signal
  OBVIOUS
<1> PICK x : x = Entry(t[1], i, accepted)
  OBVIOUS
<1> PICK m : m = Len(actions) + 1
  OBVIOUS
<1>1. x \in Action /\ x.actor = t[1] /\ x.cause = i
  BY Parts, ThreadKinds DEF Entry, Action, TypeOK, Thread, Actors
<1>2. /\ Len(actions) \in Nat /\ Len(actions') = m
      /\ actions'[m] = x
      /\ \A j \in 1..Len(actions) : actions'[j] = actions[j]
  <2>1. actions' = Append(actions, x) /\ x \in Action
    BY <1>1
  <2> QED
    BY <2>1, Parts, Recorded
<1>3. \A j \in 1..Len(actions') : j \in 1..Len(actions) \/ j = m
  BY <1>2
<1>4. ActsOn(t, i)
  BY Parts, ActingIs
<1>5. WasActedOn(t[1], i)
  BY <1>4 DEF ActsOn, WasActedOn
<1>6. \A j \in 1..Len(actions') : \A a, c :
        (a = actions'[j].actor /\ c = actions'[j].cause) => WasActedOn(a, c)'
  <2> SUFFICES ASSUME NEW j \in 1..Len(actions'), NEW a, NEW c,
                      a = actions'[j].actor, c = actions'[j].cause
               PROVE  WasActedOn(a, c)'
    OBVIOUS
  <2>1. WasActedOn(a, c)
    <3>1. CASE j = m
      BY <1>1, <1>2, <1>5, <3>1
    <3>2. CASE j \in 1..Len(actions)
      BY <1>2, <3>2, Parts, ActedIs
    <3> QED
      BY <1>3, <3>1, <3>2
  <2> QED
    BY <2>1, Parts, WasStays
\* No earlier entry of this daemon is about the same signal.
<1>7. \A k \in 1..Len(actions) :
        (t[1] \in Daemons /\ actions[k].actor = t[1]) => actions[k].cause # i
  BY <1>4 DEF ActsOn
<1>8. ASSUME NEW j \in 1..Len(actions'), NEW k \in 1..Len(actions'),
             k # j, actions'[j].actor \in Daemons, actions'[k].actor = actions'[j].actor
      PROVE  actions'[k].cause # actions'[j].cause
  <2>1. CASE j = m /\ k = m
    BY <1>8, <2>1
  <2>2. CASE j = m /\ k \in 1..Len(actions)
    BY <1>1, <1>2, <1>7, <1>8, <2>2
  <2>3. CASE j \in 1..Len(actions) /\ k = m
    BY <1>1, <1>2, <1>7, <1>8, <2>3
  <2>4. CASE j \in 1..Len(actions) /\ k \in 1..Len(actions)
    <3>1. actions'[j] = actions[j] /\ actions'[k] = actions[k]
      BY <1>2, <2>4
    <3> QED
      BY <1>8, <2>4, <3>1, Parts, ActedIs
  <2> QED
    BY <1>3, <2>1, <2>2, <2>3, <2>4
<1>9. Acted'
  BY <1>6, <1>8 DEF Acted, WasActedOn
<1>10. \A u \in Threads : \A c :
        (thread'[u].phase \in {"act", "broadcast"} /\ thread'[u].signal = c) => ActsOn(u, c)'
  <2> SUFFICES ASSUME NEW u \in Threads, NEW c, thread'[u].phase \in {"act", "broadcast"},
                      thread'[u].signal = c
               PROVE  ActsOn(u, c)'
    OBVIOUS
  <2>1. CASE u = t
    <3>1. c = i
      BY <2>1
    <3>2. i \in 1..Len(signals')
      BY <1>4 DEF ActsOn, Grows
    <3> QED
      BY <2>1, <3>1, <3>2 DEF ActsOn
  <2>2. CASE u # t
    <3>1. thread'[u] = thread[u]
      BY <2>2
    <3>2. ActsOn(u, c)
      BY <3>1, Parts, ActingIs
    <3>3. c \in 1..Len(signals')
      BY <3>2 DEF ActsOn, Grows
    <3>4. ASSUME u[1] \in Daemons, thread[u].phase = "act"
          PROVE  /\ TakenBy(u[1], c)'
                 /\ \A j \in 1..Len(actions') : ~(actions'[j].actor = u[1] /\ actions'[j].cause = c)
      <4>1. u[1] # t[1]
        BY <2>2, <3>4, ThreadKinds
      <4>2. /\ c \in 1..Len(signals) /\ TakenBy(u[1], c)
            /\ \A j \in 1..Len(actions) : ~(actions[j].actor = u[1] /\ actions[j].cause = c)
        BY <3>2, <3>4 DEF ActsOn
      <4>3. TakenBy(u[1], c)'
        BY <3>4, <4>2, Parts, TakenStays
      <4> QED
        BY <1>1, <1>2, <1>3, <4>1, <4>2, <4>3
    <3> QED
      BY <3>1, <3>3, <3>4 DEF ActsOn
  <2> QED
    BY <2>1, <2>2
<1>11. Acting'
  BY <1>10 DEF Acting, ActsOn
<1> QED
  BY <1>9, <1>11

\* A daemon's action is in the ledger, or the ledger has refused it.
LEMMA ActKeeps == ASSUME IInv, NEW d \in Daemons, Act(d) PROVE IInv'
<1> PICK t \in Threads : t = <<d, "both">>
  BY ThreadKinds
<1>a. t[1] = d /\ d \in Actors /\ t[1] \notin Embedded
  BY ThreadKinds
<1> PICK i : i = thread[t].signal
  OBVIOUS
<1>1. PICK next \in Thread :
        /\ Goes(t, next) /\ next.phase = "broadcast" /\ next.signal = i
  BY Rephased DEF Act, Phases
<1>2. UNCHANGED <<schedule, emitting, signals, conn, interrupted, spawns, lifecycle>>
  BY DEF Act
<1>3. thread[t].phase = "act"
  BY DEF Act
<1>4. \/ actions' = Append(actions, Entry(d, i, TRUE)) /\ UNCHANGED <<faults, unlogged>>
      \/ Fault /\ unlogged' = unlogged \cup {d} /\ UNCHANGED actions
  BY DEF Act
<1>5. SidesOK'
  <2>1. faults' \in 0..MaxFaults
    BY <1>4, Parts, Faults
  <2>2. unlogged' \subseteq Daemons
    BY <1>4, Parts DEF SidesOK
  <2> QED
    BY <1>2, <2>1, <2>2, Parts DEF SidesOK, EmitsWakes
<1>6. actions' \in Seq(Action)
  <2>1. CASE UNCHANGED actions
    BY <2>1, Parts DEF TypeOK
  <2>2. CASE actions' = Append(actions, Entry(d, i, TRUE))
    <3>1. Entry(d, i, TRUE) \in Action
      BY <1>a, Parts DEF Entry, Action, TypeOK, Thread
    <3> QED
      BY <2>2, <3>1, Parts, Recorded
  <2> QED
    BY <1>4, <2>1, <2>2
<1>7. conn' \in ConnType /\ Heard' /\ Grows
  BY <1>2, Parts, SameShrinks
<1>8. Base' /\ \A u \in Threads : thread'[u] = IF u = t THEN next ELSE thread[u]
  <2>1. signals' \in Seq(WakeSignal)
    BY <1>2, Parts DEF TypeOK
  <2> QED
    BY <1>1, <1>2, <1>5, <1>6, <1>7, <1>a, <2>1, BaseOf
<1>9. RunningIsOnLedger'
  BY <1>1, <1>2, <1>3, RunningStays
<1>10. CASE actions' = Append(actions, Entry(d, i, TRUE)) /\ UNCHANGED <<faults, unlogged>>
  <2>1. Acting' /\ Acted'
    BY <1>1, <1>3, <1>7, <1>8, <1>10, <1>a, EntryKeeps
  <2>2. \A u \in Threads : \A cause : Owes(u, cause)' =>
              Owes(u, cause) \/ (u = t /\ cause = thread[t].signal)
    BY <1>1, <1>8 DEF Owes
  <2>3. Committed'
    BY <1>2, <1>8, <1>10, <1>a, <2>2, Parts, EarnedKeeps
  <2> QED
    BY <1>2, <1>7, <1>8, <1>9, <2>1, <2>3, AllOf
<1>11. CASE unlogged' = unlogged \cup {d} /\ UNCHANGED actions
  <2>1. \A u \in Threads : GoesOn(u)
    BY <1>1, <1>3, <1>8 DEF GoesOn
  <2>2. Acting' /\ Acted'
    BY <1>7, <1>11, <2>1, Parts, ActsKeep
  <2>3. \A u \in Threads : \A cause : (u[1] \notin unlogged' /\ Owes(u, cause)') => Owes(u, cause)
    BY <1>8, <1>11, <1>a DEF Owes
  <2>4. /\ \A a, cause : EntriesOf(a, cause) \subseteq EntriesOf(a, cause)'
        /\ \A a, cause : BroadcastsOf(a, cause)' \subseteq BroadcastsOf(a, cause)
    BY <1>2, <1>11 DEF EntriesOf, BroadcastsOf
  <2>5. Committed'
    BY <1>8, <1>11, <2>3, <2>4, Parts, CommittedKeeps
  <2> QED
    BY <1>2, <1>7, <1>8, <1>9, <2>2, <2>5, AllOf
<1> QED
  BY <1>4, <1>10, <1>11

\* A thread publishes what it owes, and goes on.
LEMMA PublishesOwed ==
    ASSUME IInv, NEW t \in Threads, NEW next \in Thread, Goes(t, next), next.phase # "broadcast",
           thread[t].phase = "broadcast", NEW long \in BOOLEAN, Publish(Broadcast(t, long)),
           UNCHANGED <<schedule, actions, unlogged>>, SidesOK', GoesOn(t),
           t[1] \in Embedded =>
             /\ next.phase \in {"off", "loop", "act"}
             /\ next.phase = "act" => next.left >= 1,
           RunningIsOnLedger'
    PROVE  IInv'
<1>1. Broadcast(t, long) \in WakeSignal
  BY Parts, NewBroadcast
<1>2. signals' \in Seq(WakeSignal) /\ conn' \in ConnType /\ Heard' /\ Grows
  BY <1>1, Parts, PublishKeeps
<1>3. Base' /\ \A u \in Threads : thread'[u] = IF u = t THEN next ELSE thread[u]
  <2>1. actions' \in Seq(Action)
    BY Parts DEF TypeOK
  <2> QED
    BY <1>2, <2>1, BaseOf
<1>4. \A u \in Threads : GoesOn(u)
  <2> SUFFICES ASSUME NEW u \in Threads PROVE GoesOn(u)
    OBVIOUS
  <2>1. CASE u = t
    BY <2>1
  <2>2. CASE u # t
    BY <1>3, <2>2 DEF GoesOn
  <2> QED
    BY <2>1, <2>2
<1>5. Acting' /\ Acted'
  BY <1>2, <1>4, Parts, ActsKeep
<1>6. Committed'
  <2>1. \A u \in Threads : \A cause : Owes(u, cause)' => Owes(u, cause) /\ u # t
    BY <1>3 DEF Owes
  <2> QED
    BY <1>3, <2>1, Parts, PaidKeeps
<1> QED
  BY <1>2, <1>3, <1>5, <1>6, AllOf

\* A daemon broadcasts its action, if it can.
LEMMA BroadcastActionKeeps == ASSUME IInv, NEW d \in Daemons, BroadcastAction(d) PROVE IInv'
<1> PICK t \in Threads : t = <<d, "both">>
  BY ThreadKinds
<1>a. t[1] = d /\ t[1] \notin Embedded
  BY ThreadKinds
<1>1. PICK next \in Thread : Goes(t, next) /\ next.phase = "note"
  BY Rephased DEF BroadcastAction, Phases
<1>2. UNCHANGED <<schedule, emitting, interrupted, spawns, actions, lifecycle, unlogged>>
  BY DEF BroadcastAction, ledger
<1>3. thread[t].phase = "broadcast"
  BY DEF BroadcastAction
<1>4. \/ (\E long \in BOOLEAN : Publish(Broadcast(t, long))) /\ UNCHANGED faults
      \/ (Fault \/ UNCHANGED faults) /\ UNCHANGED <<signals, conn>>
  BY DEF BroadcastAction
<1>5. SidesOK'
  <2>1. faults' \in 0..MaxFaults
    BY <1>4, Parts, Faults
  <2> QED
    BY <1>2, <2>1, Parts DEF SidesOK, EmitsWakes
<1>6. RunningIsOnLedger'
  BY <1>1, <1>2, <1>3, RunningStays
<1>7. CASE \E long \in BOOLEAN : Publish(Broadcast(t, long))
  <2>1. PICK long \in BOOLEAN : Publish(Broadcast(t, long))
    BY <1>7
  <2>2. GoesOn(t)
    <3>1. thread'[t] = next
      BY <1>1, Parts DEF Goes, TypeOK
    <3> QED
      BY <1>1, <3>1 DEF GoesOn
  <2> QED
    BY <1>1, <1>2, <1>3, <1>5, <1>6, <1>a, <2>1, <2>2, PublishesOwed
<1>8. CASE UNCHANGED <<signals, conn>>
  <2>1. conn' \in ConnType /\ Heard' /\ Grows
    BY <1>8, Parts, SameShrinks
  <2>2. unlogged \subseteq unlogged'
    BY <1>2
  <2> QED
    BY <1>1, <1>2, <1>5, <1>6, <1>8, <1>a, <2>1, <2>2, ThreadGoesOn
<1> QED
  BY <1>4, <1>7, <1>8

\* A loop goes on with the next proposal, or with the next signal.
LEMMA NextIs ==
    ASSUME IInv, NEW t \in Threads, t[1] \in Embedded, thread[t].phase \in {"act", "broadcast"}
    PROVE  /\ NextProposal(t) \in Thread /\ NextProposal(t).phase \in {"loop", "act"}
           /\ NextProposal(t).phase = "act" =>
                NextProposal(t).signal = thread[t].signal /\ NextProposal(t).left >= 1
<1>1. thread[t] \in Thread /\ thread[t].left \in Nat
  BY Parts DEF TypeOK, Thread
<1>2. thread[t].left >= 1
  <2>1. t[2] \in {"own", "org"} /\ t = <<t[1], t[2]>>
    BY ThreadKinds
  <2> QED
    BY <2>1, Parts DEF LoopsOK
<1>3. CASE thread[t].left = 1
  <2>1. NextProposal(t) = Looping
    BY <1>3 DEF NextProposal
  <2> QED
    BY <2>1, Resting DEF Looping, Off
<1>4. CASE thread[t].left # 1
  <2> PICK n : n = thread[t].left - 1
    OBVIOUS
  <2>1. n \in Nat /\ n >= 1
    BY <1>1, <1>2, <1>4
  <2>2. NextProposal(t) = [thread[t] EXCEPT !.phase = "act", !.left = n]
    BY <1>4 DEF NextProposal
  <2>3. thread[t] \in [phase : Phases, signal : Nat, left : Nat] /\ "act" \in Phases
    BY <1>1 DEF Thread, Phases
  <2> QED
    BY <2>1, <2>2, <2>3 DEF Thread
<1> QED
  BY <1>3, <1>4

LEMMA BroadcastProposalKeeps ==
    ASSUME IInv, NEW e \in Embedded, NEW c \in {"own", "org"}, BroadcastProposal(e, c) PROVE IInv'
<1> PICK t \in Threads : t = <<e, c>>
  BY ThreadKinds
<1>a. t[1] = e /\ t[1] \in Embedded /\ t[1] \notin Daemons
  BY ThreadKinds
<1> PICK next : next = NextProposal(t)
  OBVIOUS
<1>1. UNCHANGED <<schedule, emitting, interrupted, spawns, actions, lifecycle, unlogged>>
  BY DEF BroadcastProposal, ledger
<1>2. thread[t].phase = "broadcast" /\ Goes(t, next)
  BY DEF BroadcastProposal
<1>3. /\ next \in Thread /\ next.phase \in {"loop", "act"}
      /\ next.phase = "act" => next.signal = thread[t].signal /\ next.left >= 1
  BY <1>2, <1>a, NextIs
<1>4. SidesOK'
  <2>1. faults' \in 0..MaxFaults
    BY Parts, Faults DEF BroadcastProposal
  <2> QED
    BY <1>1, <2>1, Parts DEF SidesOK, EmitsWakes
<1>5. RunningIsOnLedger'
  BY <1>1, <1>2, <1>a, RunningStays
<1>6. CASE Publish(Broadcast(t, FALSE))
  <2>1. GoesOn(t)
    <3>1. thread'[t] = next
      BY <1>2, Parts DEF Goes, TypeOK
    <3> QED
      BY <1>2, <1>3, <1>a, <3>1 DEF GoesOn
  <2>2. next.phase # "broadcast"
    BY <1>3
  <2> QED
    BY <1>1, <1>2, <1>3, <1>4, <1>5, <1>6, <2>1, <2>2, PublishesOwed
<1>7. CASE UNCHANGED <<signals, conn>>
  <2>1. conn' \in ConnType /\ Heard' /\ Grows
    BY <1>7, Parts, SameShrinks
  <2>2. unlogged \subseteq unlogged'
    BY <1>1
  <2>3. next.phase # "broadcast"
    BY <1>3
  <2> QED
    BY <1>1, <1>2, <1>3, <1>4, <1>5, <1>7, <1>a, <2>1, <2>2, <2>3, ThreadGoesOn
<1> QED
  BY <1>6, <1>7 DEF BroadcastProposal

\* A proposal is accepted and will be broadcast, is rejected, or is not written.
LEMMA AppendProposalKeeps ==
    ASSUME IInv, NEW e \in Embedded, NEW c \in {"own", "org"}, AppendProposal(e, c) PROVE IInv'
<1> PICK t \in Threads : t = <<e, c>>
  BY ThreadKinds
<1>a. t[1] = e /\ e \in Actors /\ t[1] \in Embedded /\ t[1] \notin Daemons
  BY ThreadKinds
<1> PICK i : i = thread[t].signal
  OBVIOUS
<1>1. UNCHANGED <<schedule, emitting, signals, conn, interrupted, spawns, lifecycle, unlogged>>
  BY DEF AppendProposal
<1>2. thread[t].phase = "act"
  BY DEF AppendProposal
<1>3. /\ NextProposal(t) \in Thread /\ NextProposal(t).phase \in {"loop", "act"}
      /\ NextProposal(t).phase = "act" =>
           NextProposal(t).signal = thread[t].signal /\ NextProposal(t).left >= 1
  BY <1>2, <1>a, NextIs
<1>4. conn' \in ConnType /\ Heard' /\ Grows
  BY <1>1, Parts, SameShrinks
<1>5. SidesOK'
  <2>1. faults' \in 0..MaxFaults
    BY Parts, Faults DEF AppendProposal
  <2> QED
    BY <1>1, <2>1, Parts DEF SidesOK, EmitsWakes
<1>6. \A next : Goes(t, next) => RunningIsOnLedger'
  BY <1>1, <1>a, RunningStays
<1>7. CASE UNCHANGED actions /\ Goes(t, NextProposal(t))
  <2> PICK next : next = NextProposal(t)
    OBVIOUS
  <2>1. /\ next \in Thread /\ next.phase \in {"loop", "act"} /\ Goes(t, next)
        /\ next.phase = "act" => next.signal = thread[t].signal /\ next.left >= 1
    BY <1>3, <1>7
  <2>2. next.phase # "broadcast" /\ unlogged \subseteq unlogged'
    BY <1>1, <2>1
  <2> QED
    BY <1>1, <1>2, <1>4, <1>5, <1>6, <1>7, <1>a, <2>1, <2>2, ThreadGoesOn
<1>8. ASSUME NEW accepted \in BOOLEAN,
             actions' = Append(actions, Entry(e, i, accepted)),
             Goes(t, IF accepted THEN [thread[t] EXCEPT !.phase = "broadcast"] ELSE NextProposal(t))
      PROVE  IInv'
  <2> PICK next : next = IF accepted THEN [thread[t] EXCEPT !.phase = "broadcast"] ELSE NextProposal(t)
    OBVIOUS
  <2>1. /\ thread[t] \in Thread /\ thread[t].left >= 1
    <3>1. t[2] \in {"own", "org"} /\ t = <<t[1], t[2]>>
      BY ThreadKinds
    <3> QED
      BY <1>2, <1>a, <3>1, Parts DEF TypeOK, LoopsOK
  <2>2. /\ next \in Thread /\ Goes(t, next)
        /\ next.phase \in {"loop", "act", "broadcast"}
        /\ next.phase \in {"act", "broadcast"} => next.signal = i /\ next.left >= 1
        /\ next.phase = "broadcast" => accepted
    <3>1. CASE accepted
      <4>1. next = [thread[t] EXCEPT !.phase = "broadcast"] /\ "broadcast" \in Phases
        BY <3>1 DEF Phases
      <4>2. next \in Thread /\ next.phase = "broadcast" /\ next.signal = i /\ next.left = thread[t].left
        BY <2>1, <4>1 DEF Thread
      <4> QED
        BY <1>8, <2>1, <3>1, <4>2
    <3>2. CASE ~accepted
      BY <1>3, <1>8, <3>2
    <3> QED
      BY <3>1, <3>2
  <2>3. Entry(e, i, accepted) \in Action
    BY <1>a, Parts DEF Entry, Action, TypeOK, Thread
  <2> PICK x : x = Entry(e, i, accepted)
    OBVIOUS
  <2>a. x \in Action /\ actions' = Append(actions, x)
    BY <1>8, <2>3
  <2>4. /\ actions' \in Seq(Action)
        /\ DOMAIN actions \subseteq DOMAIN actions'
        /\ \A j \in DOMAIN actions : actions'[j] = actions[j]
    <3>1. /\ actions' \in Seq(Action) /\ Len(actions) \in Nat
          /\ DOMAIN actions = 1..Len(actions) /\ DOMAIN actions' = 1..Len(actions) + 1
          /\ \A j \in 1..Len(actions) : actions'[j] = actions[j]
      BY <2>a, Parts, Recorded
    <3> QED
      BY <3>1
  <2>5. Base' /\ \A u \in Threads : thread'[u] = IF u = t THEN next ELSE thread[u]
    <3>1. signals' \in Seq(WakeSignal)
      BY <1>1, Parts DEF TypeOK
    <3>2. t[1] \in Embedded =>
             /\ next.phase \in {"off", "loop", "act", "broadcast"}
             /\ next.phase \in {"act", "broadcast"} => next.left >= 1
      BY <2>2
    <3> QED
      BY <1>1, <1>4, <1>5, <2>2, <2>4, <3>1, <3>2, BaseOf
  <2>6. Acting' /\ Acted'
    BY <1>2, <1>4, <1>8, <1>a, <2>2, <2>5, EntryKeeps
  <2>7. Committed'
    <3>1. CASE accepted
      <4>1. actions' = Append(actions, Entry(t[1], thread[t].signal, TRUE))
        BY <1>8, <1>a, <3>1
      <4>2. \A u \in Threads : \A cause : Owes(u, cause)' =>
              Owes(u, cause) \/ (u = t /\ cause = thread[t].signal)
        BY <2>2, <2>5 DEF Owes
      <4> QED
        BY <1>1, <2>5, <4>1, <4>2, Parts, EarnedKeeps
    <3>2. CASE ~accepted
      <4>1. \A u \in Threads : \A cause : Owes(u, cause)' => Owes(u, cause)
        BY <2>2, <2>5, <3>2 DEF Owes
      <4>2. /\ \A a, cause : EntriesOf(a, cause) \subseteq EntriesOf(a, cause)'
            /\ \A a, cause : BroadcastsOf(a, cause)' \subseteq BroadcastsOf(a, cause)
        BY <1>1, <2>4 DEF EntriesOf, BroadcastsOf
      <4>3. unlogged \subseteq unlogged'
        BY <1>1
      <4> QED
        BY <2>5, <4>1, <4>2, <4>3, Parts, CommittedKeeps
    <3> QED
      BY <3>1, <3>2
  <2> QED
    BY <1>1, <1>4, <1>6, <2>2, <2>5, <2>6, <2>7, AllOf
<1> QED
  BY <1>7, <1>8 DEF AppendProposal

\* Both loops of an actor begin, with empty channels.
LEMMA StartActorKeeps == ASSUME IInv, NEW e \in Embedded, StartActor(e) PROVE IInv'
<1>a. e \in Actors /\ e \notin Daemons
  BY ThreadKinds
<1>1. UNCHANGED <<schedule, emitting, signals, interrupted, actions, lifecycle, faults, unlogged>>
  BY DEF StartActor, ledger
<1>2. thread' = [t \in Threads |-> IF t[1] = e THEN Looping ELSE thread[t]]
  BY DEF StartActor
<1>3. Looping.phase = "loop" /\ Looping \in Thread
  BY Resting DEF Looping, Off
<1>4. /\ thread' \in [Threads -> Thread]
      /\ \A t \in Threads : thread'[t] = thread[t] \/ (t[1] = e /\ thread'[t] = Looping)
  <2>1. thread \in [Threads -> Thread]
    BY Parts DEF TypeOK
  <2> QED
    BY <1>2, <1>3, <2>1
<1>5. conn' \in ConnType /\ Heard' /\ Grows
  <2> PICK f : f = [c \in {"own", "org"} |-> [open |-> TRUE, queue |-> << >>]]
    OBVIOUS
  <2>1. f \in [{"own", "org"} -> Connection]
    BY NoConnection
  <2>2. \A c \in {"own", "org"} : f[c].queue = << >>
    OBVIOUS
  <2>3. conn' = [conn EXCEPT ![e] = f]
    BY DEF StartActor
  <2> QED
    BY <1>1, <1>a, <2>1, <2>2, <2>3, Parts, EmptyShrinks
<1>6. SidesOK'
  <2>1. 1 \in 0..(MaxSpawns + 1)
    BY Bounds
  <2>2. spawns' \in [Actors -> 0..(MaxSpawns + 1)]
    BY <2>1, Parts DEF SidesOK, StartActor
  <2> QED
    BY <1>1, <2>2, Parts DEF SidesOK, EmitsWakes
<1>7. LoopsOK'
  <2> SUFFICES ASSUME NEW x \in Embedded, NEW c \in {"own", "org"}
               PROVE  /\ thread'[<<x, c>>].phase \in {"off", "loop", "act", "broadcast"}
                      /\ thread'[<<x, c>>].phase \in {"act", "broadcast"} => thread'[<<x, c>>].left >= 1
    BY DEF LoopsOK
  <2>1. <<x, c>> \in Threads
    BY ThreadKinds
  <2>2. CASE thread'[<<x, c>>] = thread[<<x, c>>]
    BY <2>2, Parts DEF LoopsOK
  <2>3. CASE thread'[<<x, c>>] = Looping
    BY <1>3, <2>3
  <2> QED
    BY <1>4, <2>1, <2>2, <2>3
<1>8. Base'
  <2>1. ScheduleOK' /\ signals' \in Seq(WakeSignal) /\ actions' \in Seq(Action)
    BY <1>1, Parts, ScheduleStays DEF TypeOK
  <2> QED
    BY <1>4, <1>5, <1>6, <1>7, <2>1, BaseAgain
<1>9. Acting' /\ Acted'
  <2>1. \A t \in Threads : GoesOn(t)
    BY <1>3, <1>4 DEF GoesOn
  <2> QED
    BY <1>1, <1>5, <2>1, Parts, ActsKeep
<1>10. Committed'
  <2>1. \A t \in Threads : \A cause : Owes(t, cause)' => Owes(t, cause)
    BY <1>3, <1>4 DEF Owes
  <2>2. /\ \A a, cause : EntriesOf(a, cause) \subseteq EntriesOf(a, cause)'
        /\ \A a, cause : BroadcastsOf(a, cause)' \subseteq BroadcastsOf(a, cause)
    BY <1>1 DEF EntriesOf, BroadcastsOf
  <2>3. unlogged \subseteq unlogged'
    BY <1>1
  <2> QED
    BY <1>8, <2>1, <2>2, <2>3, Parts, CommittedKeeps
<1>11. RunningIsOnLedger'
  <2>1. \A d \in Daemons : thread'[<<d, "both">>] = thread[<<d, "both">>]
    <3> SUFFICES ASSUME NEW d \in Daemons PROVE thread'[<<d, "both">>] = thread[<<d, "both">>]
      OBVIOUS
    <3>1. <<d, "both">> \in Threads /\ d # e
      BY <1>a, ThreadKinds
    <3> QED
      BY <1>2, <3>1
  <2> QED
    BY <1>1, <2>1, Parts DEF RunningIsOnLedger
<1> QED
  BY <1>1, <1>5, <1>8, <1>9, <1>10, <1>11, AllOf

-----------------------------------------------------------------------------
(* The theorems *)

LEMMA IInvInit == ASSUME Init PROVE IInv
<1>1. \A t \in Threads : thread[t] = Off
  BY DEF Init
<1>2. \A a \in Actors, c \in {"own", "org"} : conn[a][c] = Closed
  BY DEF Init
<1>3. signals = << >> /\ actions = << >>
  BY DEF Init
<1>4. Off.phase = "off" /\ Closed.queue = << >>
  BY DEF Off, Closed
<1>5. ScheduleOK
  <2>1. \A r \in Rows : fired[r] = 0 /\ lost[r] = 0 /\ stored[r] = 0 /\ repeated[r] = 0
    BY DEF Init
  <2>2. poll = [phase |-> "down", list |-> {}, row |-> {}]
    BY DEF Init, NotPolling
  <2>3. PeriodsAccounted
    BY <2>1, <2>2 DEF PeriodsAccounted
  <2>4. 0 \in 0..MaxPeriods
    BY Bounds
  <2>5. PollOK
    BY <2>2 DEF PollOK, Init
  <2> QED
    <3>1. poll \in [phase : {"down", "ready"}, list : SUBSET Rows, row : SUBSET Rows]
      BY <2>2
    <3>2. rows \in [Rows -> {"due", "later", "NULL"}] /\ stored \in [Rows -> 0..MaxPeriods]
      BY <2>4 DEF Init
    <3>3. fired \in [Rows -> Nat] /\ lost \in [Rows -> Nat] /\ repeated \in [Rows -> Nat]
      BY DEF Init
    <3> QED
      BY <2>3, <2>5, <3>1, <3>2, <3>3 DEF ScheduleOK
<1>6. SidesOK
  <2>1. 0 \in 0..MaxFaults /\ 0 \in 0..(MaxSpawns + 1)
    BY Bounds
  <2> QED
    BY <2>1 DEF SidesOK, EmitsWakes, Init
<1>7. LoopsOK
  <2> SUFFICES ASSUME NEW e \in Embedded, NEW c \in {"own", "org"}
               PROVE  thread[<<e, c>>].phase = "off"
    BY DEF LoopsOK
  <2>1. <<e, c>> \in Threads
    BY ThreadKinds
  <2> QED
    BY <1>1, <1>4, <2>1
<1>8. Base
  <2>1. signals \in Seq(WakeSignal) /\ actions \in Seq(Action)
    BY <1>3, EmptySeq
  <2>2. conn \in [Actors -> [{"own", "org"} -> Connection]]
    BY NoConnection DEF Init
  <2>3. thread \in [Threads -> Thread]
    BY Resting DEF Init
  <2> QED
    BY <1>5, <1>6, <1>7, <2>1, <2>2, <2>3 DEF Base, TypeOK, ScheduleOK, SidesOK
<1>9. Len(signals) = 0 /\ Len(actions) = 0 /\ DOMAIN signals = {} /\ DOMAIN actions = {}
  BY <1>3, EmptySeq
<1>10. Heard
  <2>1. DOMAIN Closed.queue = {}
    BY <1>4, EmptySeq
  <2> QED
    BY <1>2, <2>1 DEF Heard, Increasing
<1>11. Acting
  BY <1>1, <1>4 DEF Acting
<1>12. Acted
  BY <1>9 DEF Acted
<1>13. Committed
  <2> SUFFICES ASSUME NEW a \in Actors, NEW cause \in Nat
               PROVE  Cardinality(BroadcastsOf(a, cause)) + Cardinality(OwedBy(a, cause))
                        <= Cardinality(EntriesOf(a, cause))
    BY DEF Committed
  <2>1. BroadcastsOf(a, cause) = {} /\ EntriesOf(a, cause) = {}
    BY <1>9 DEF BroadcastsOf, EntriesOf
  <2>2. OwedBy(a, cause) = {}
    BY <1>1, <1>4 DEF OwedBy
  <2>3. Cardinality({}) = 0
    BY FS_EmptySet
  <2> QED
    BY <2>1, <2>2, <2>3
<1>14. RunningIsOnLedger
  BY <1>1, <1>4, ThreadKinds DEF RunningIsOnLedger
<1> QED
  BY <1>5, <1>8, <1>10, <1>11, <1>12, <1>13, <1>14 DEF IInv, ScheduleOK

LEMMA StutterKeeps == ASSUME IInv, UNCHANGED vars PROVE IInv'
<1>1. /\ UNCHANGED <<schedule, emitting, signals, conn, thread, interrupted, spawns>>
      /\ UNCHANGED <<actions, lifecycle, faults, unlogged>>
  BY DEF vars, ledger
<1>2. ScheduleOK'
  BY <1>1, Parts, ScheduleStays
<1>3. SidesOK'
  BY <1>1, Parts DEF SidesOK, EmitsWakes
<1> QED
  BY <1>1, <1>2, <1>3, SilentKeeps

LEMMA DaemonStepKeeps == ASSUME IInv, NEW d \in Daemons, DaemonStep(d) PROVE IInv'
<1>1. CASE StartEntry(d)
  BY <1>1, StartEntryKeeps
<1>2. CASE Subscribe(d)
  BY <1>2, SubscribeKeeps
<1>3. CASE SeesInterrupt(d)
  BY <1>3, SeesInterruptKeeps
<1>4. CASE SeesClosedChannel(<<d, "both">>)
  BY <1>4, ThreadKinds, SeesClosedChannelKeeps
<1>5. CASE Receive(d)
  BY <1>5, ReceiveKeeps
<1>6. CASE Act(d)
  BY <1>6, ActKeeps
<1>7. CASE BroadcastAction(d)
  BY <1>7, BroadcastActionKeeps
<1>8. CASE NoteEntry(d)
  BY <1>8, NoteEntryKeeps
<1>9. CASE StopEntry(d)
  BY <1>9, StopEntryKeeps
<1> QED
  BY <1>1, <1>2, <1>3, <1>4, <1>5, <1>6, <1>7, <1>8, <1>9 DEF DaemonStep

LEMMA LoopStepKeeps ==
    ASSUME IInv, NEW e \in Embedded, NEW c \in {"own", "org"}, LoopStep(e, c) PROVE IInv'
<1>1. CASE SeesClosedChannel(<<e, c>>)
  BY <1>1, ThreadKinds, SeesClosedChannelKeeps
<1>2. CASE HandleSignal(e, c)
  BY <1>2, HandleSignalKeeps
<1>3. CASE AppendProposal(e, c)
  BY <1>3, AppendProposalKeeps
<1>4. CASE BroadcastProposal(e, c)
  BY <1>4, BroadcastProposalKeeps
<1> QED
  BY <1>1, <1>2, <1>3, <1>4 DEF LoopStep

LEMMA IInvKept == ASSUME IInv, [Next]_vars PROVE IInv'
<1>1. CASE RedisRestarts
  BY <1>1, RestartKeeps
<1>2. CASE \E a \in Actors : AppendSignal(a)
  BY <1>2, AppendKeeps
<1>3. CASE PublishLogged
  BY <1>3, PublishLoggedKeeps
<1>4. CASE \E r \in Rows : BecomesDue(r)
  BY <1>4, DueKeeps
<1>5. CASE PollStep
  BY <1>5, StartsKeeps, ListKeeps, PollPublishesKeeps, PollStoresKeeps DEF PollStep
<1>6. CASE PollerDies
  BY <1>6, PollerDiesKeeps
<1>7. ASSUME NEW d \in Daemons, Spawn(d) \/ DaemonStep(d) \/ Interrupt(d) \/ Kill(d)
      PROVE  IInv'
  BY <1>7, SpawnKeeps, DaemonStepKeeps, InterruptKeeps, KillKeeps
<1>8. ASSUME NEW e \in Embedded, StartActor(e) \/ \E c \in {"own", "org"} : LoopStep(e, c)
      PROVE  IInv'
  BY <1>8, StartActorKeeps, LoopStepKeeps
<1>9. CASE UNCHANGED vars
  BY <1>9, StutterKeeps
<1> QED
  BY <1>1, <1>2, <1>3, <1>4, <1>5, <1>6, <1>7, <1>8, <1>9 DEF Next

\* The invariant with all it needs is one of every behaviour: of the types, of
\* what is queued for whom, of what is being acted upon, and of what is owed.
THEOREM Inductive == Spec => []IInv
<1>1. Init => IInv
  BY IInvInit
<1>2. IInv /\ [Next]_vars => IInv'
  BY IInvKept
<1> QED
  BY <1>1, <1>2, PTL DEF Spec

\* The variables keep their types (the daemons, the loops, the poll and Redis).
THEOREM TypeCorrect == Spec => []TypeOK
<1>1. IInv => TypeOK
  BY Parts
<1> QED
  BY <1>1, Inductive, PTL

\* A daemon acts on a wake addressed to it, and never twice on the same: what
\* it takes from its two channels comes in no queue again, and broadcasts are
\* passed over (ShouldProcess), its own ones among them.
THEOREM ActsOncePerWakeHolds == Spec => []ActsOncePerWake
<1>1. ASSUME IInv PROVE ActsOncePerWake
  <2>1. DOMAIN actions = 1..Len(actions)
    BY <1>1, Parts, LenProperties DEF TypeOK
  <2>2. Acted
    BY <1>1, Parts
  <2> QED
    BY <2>1, <2>2 DEF ActsOncePerWake, Acted, TakenBy
<1> QED
  BY <1>1, Inductive, PTL

\* What is broadcast of an actor was committed before: every broadcast made,
\* and every one a thread is about to make, has an accepted entry of its own.
THEOREM BroadcastsWereCommittedHolds == Spec => []BroadcastsWereCommitted
<1>1. ASSUME IInv PROVE BroadcastsWereCommitted
  <2> SUFFICES ASSUME NEW a \in Actors \ unlogged, NEW cause \in DOMAIN signals
               PROVE  Cardinality(BroadcastsOf(a, cause)) <= Cardinality(EntriesOf(a, cause))
    BY DEF BroadcastsWereCommitted, BroadcastsOf, EntriesOf
  <2>1. cause \in Nat
    BY <1>1, Parts, LenProperties DEF TypeOK
  <2>2. Cardinality(BroadcastsOf(a, cause)) + Cardinality(OwedBy(a, cause))
          <= Cardinality(EntriesOf(a, cause))
    BY <1>1, <2>1, Parts DEF Committed
  <2>3. /\ Cardinality(BroadcastsOf(a, cause)) \in Nat /\ Cardinality(OwedBy(a, cause)) \in Nat
        /\ Cardinality(EntriesOf(a, cause)) \in Nat
    BY <1>1, Parts, AllFinite, FS_CardinalityType
  <2> QED
    BY <2>2, <2>3
<1> QED
  BY <1>1, Inductive, PTL

\* A daemon in its loop is in the ledger as started, or as handling signals,
\* and not as stopped, through kills, restarts and entries that fail.
THEOREM RunningIsOnLedgerHolds == Spec => []RunningIsOnLedger
<1>1. IInv => RunningIsOnLedger
  BY Parts
<1> QED
  BY <1>1, Inductive, PTL

\* The poll sends the signal of a period again exactly when it was cut off or
\* refused before the fire times, and loses one only if Redis refused it.
THEOREM PeriodsAccountedHolds == Spec => []PeriodsAccounted
<1>1. IInv => PeriodsAccounted
  BY DEF IInv
<1> QED
  BY <1>1, Inductive, PTL
=============================================================================
