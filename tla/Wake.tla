-------------------------------- MODULE Wake --------------------------------
(***************************************************************************)
(* From a due schedule to an actor's action: the database poll of the      *)
(* scheduler daemon (cmd/scheduler-daemon/main.go), the signals that the   *)
(* Service logs and publishes (service.go), the Redis bus (bus.go), the    *)
(* daemon of an actor (daemon_actor.go) and the loops of an actor inside   *)
(* the office process (runtime.go, daemon.go).                             *)
(*                                                                         *)
(* A published signal reaches the connections subscribed at that moment,   *)
(* once and in order; nothing is kept for an actor that is not there.      *)
(*                                                                         *)
(* Abstracted: one organization; the bulletin and approval channels, to    *)
(* which no actor subscribes; what an actor proposes; the ledger to the    *)
(* entries of actions and the last lifecycle entry of each daemon.  A      *)
(* message "too long" is one that bufio.Reader.Read does not return whole, *)
(* of more than 4096 bytes: readRedisPubSubMessage then takes its rest for *)
(* the next message, fails, and readLoop closes the channel.               *)
(***************************************************************************)
EXTENDS Naturals, Sequences, FiniteSets

CONSTANTS
    Daemons,       \* actors with a process of their own
    Embedded,      \* actors inside the office process
    Barred,        \* daemons whose role may not observe the default scope
    Rows,          \* enabled rows of agency_schedules
    AgentOf,       \* AgentOf[r]: the row's agent, {} for NULL
    Unparsable,    \* rows whose expression does not parse
    MaxLogged,     \* bound: signals after which the Service publishes no more
    MaxSignals,    \* bound: signals after which embedded actors propose nothing
    MaxPeriods,    \* bound: periods of a row
    MaxSpawns,     \* bound: processes started for one daemon
    MaxProposals,  \* bound: proposals of an embedded actor for one signal
    MaxFaults      \* bound: see Fault

Actors == Daemons \cup Embedded

ASSUME WakeAssumption ==
    /\ Daemons \cap Embedded = {}
    /\ Barred \subseteq Daemons
    /\ AgentOf \in [Rows -> SUBSET Actors]
    /\ \A r \in Rows : Cardinality(AgentOf[r]) <= 1
    /\ Unparsable \subseteq Rows
    /\ {MaxLogged, MaxSignals, MaxPeriods, MaxSpawns, MaxProposals, MaxFaults} \subseteq Nat

VARIABLES
    rows,         \* rows[r]: whether next_fire_at is due, later or NULL
    poll,         \* runDBPollScheduler: "down", "ready" or its due list
    emitting,     \* signals the Service has logged and not yet published
    signals,      \* every signal published, in order
    conn,         \* conn[a][c]: a's subscription to its channel, to the org's
    thread,       \* thread[t]: what a daemon, or a loop of an actor, does
    interrupted,  \* daemons that have received SIGTERM
    spawns,       \* spawns[a]: times a was started
    actions,      \* the ledger: entries of actions, in order
    lifecycle,    \* the ledger: the last lifecycle entry of each daemon
    faults,       \* faults that have happened
    fired,        \* history: per row, signals published
    lost,         \* history: per row, signals that Publish refused
    stored,       \* history: per row, fire times stored
    repeated,     \* history: per row, polls cut short or updates that failed
    unlogged      \* history: daemons that had an action refused by the ledger

schedule == <<rows, poll, fired, lost, stored, repeated>>
ledger == <<actions, lifecycle>>
vars == <<schedule, emitting, signals, conn, thread, interrupted, spawns,
          ledger, faults, unlogged>>

\* The daemon of an actor reads both channels in one select; an embedded
\* actor has a goroutine for each.
Threads == (Daemons \X {"both"}) \cup (Embedded \X {"own", "org"})
\* Mutant: the daemon's select forgets its own channel.
HearsOrg(t) == IF t[2] = "both" THEN {"org"} ELSE {t[2]}

Hears(t) == IF t[2] = "both" THEN {"own", "org"} ELSE {t[2]}

WakeSignal ==
    [kind : {"wake", "broadcast"},
     channel : {"own", "org"},
     to : SUBSET Actors,
     by : SUBSET Actors,          \* the actor that broadcasts, {} for others
     cause : Nat,                 \* the signal acted upon
     long : BOOLEAN]

Phases ==
    {"off", "start", "own", "org", "loop", "act", "broadcast", "note", "stop"}

Thread == [phase : Phases, signal : Nat, left : Nat]
Off == [phase |-> "off", signal |-> 0, left |-> 0]
Looping == [Off EXCEPT !.phase = "loop"]

Connection == [open : BOOLEAN, queue : Seq(Nat)]
Closed == [open |-> FALSE, queue |-> << >>]

Action == [actor : Actors, cause : Nat, accepted : BOOLEAN]

NotPolling == [phase |-> "ready", list |-> {}, row |-> {}]

Init ==
    /\ rows = [r \in Rows |-> "later"]
    /\ poll = [NotPolling EXCEPT !.phase = "down"]
    /\ emitting = {}
    /\ signals = << >>
    /\ conn = [a \in Actors |-> [c \in {"own", "org"} |-> Closed]]
    /\ thread = [t \in Threads |-> Off]
    /\ interrupted = {}
    /\ spawns = [a \in Actors |-> 0]
    /\ actions = << >>
    /\ lifecycle = [d \in Daemons |-> "none"]
    /\ faults = 0
    /\ fired = [r \in Rows |-> 0]
    /\ lost = [r \in Rows |-> 0]
    /\ stored = [r \in Rows |-> 0]
    /\ repeated = [r \in Rows |-> 0]
    /\ unlogged = {}

\* A file or the database cannot be written, Redis cannot be reached, a
\* process is killed.
Fault ==
    /\ faults < MaxFaults
    /\ faults' = faults + 1

-----------------------------------------------------------------------------
(***************************************************************************)
(* Redis.                                                                  *)
(***************************************************************************)
Delivered(signal) ==
    [a \in Actors |-> [c \in {"own", "org"} |->
        IF c = signal.channel /\ a \in signal.to /\ conn[a][c].open
        THEN [conn[a][c] EXCEPT !.queue = Append(@, Len(signals) + 1)]
        ELSE conn[a][c]]]

Publish(signal) ==
    /\ signals' = Append(signals, signal)
    /\ conn' = Delivered(signal)

WakeFor(agents) ==
    [kind |-> "wake", channel |-> "own", to |-> agents,
     by |-> {}, cause |-> 0, long |-> FALSE]

\* Redis goes away for a moment: every connection ends, what readLoop has
\* already handed over is still read.
RedisRestarts ==
    /\ Fault
    /\ \E kept \in [Actors -> [{"own", "org"} -> 0..Len(signals)]] :
        /\ \A a \in Actors, c \in {"own", "org"} : kept[a][c] <= Len(conn[a][c].queue)
        /\ conn' = [a \in Actors |-> [c \in {"own", "org"} |->
                        [open |-> FALSE, queue |-> SubSeq(conn[a][c].queue, 1, kept[a][c])]]]
    /\ UNCHANGED <<schedule, emitting, signals, thread, interrupted, spawns, ledger, unlogged>>

(***************************************************************************)
(* The Service: the office that opens, a scheduler job that ticks,         *)
(* PublishSignal.  All log the signal, then publish it; if either fails    *)
(* that is an error of the caller, and nothing is tried again.             *)
(***************************************************************************)
AppendSignal(a) ==
    /\ emitting = {}
    /\ Len(signals) < MaxLogged
    /\ emitting' = {WakeFor({a})}
    /\ UNCHANGED <<schedule, signals, conn, thread, interrupted, spawns, ledger, faults, unlogged>>

PublishLogged ==
    \E signal \in emitting :
        /\ emitting' = {}
        /\ \/ Publish(signal) /\ UNCHANGED faults
           \/ Fault /\ UNCHANGED <<signals, conn>>
        /\ UNCHANGED <<schedule, thread, interrupted, spawns, ledger, unlogged>>

(***************************************************************************)
(* The database poll.                                                      *)
(***************************************************************************)
BecomesDue(r) ==
    /\ rows[r] = "later"
    /\ stored[r] < MaxPeriods
    /\ rows' = [rows EXCEPT ![r] = "due"]
    /\ UNCHANGED <<poll, fired, lost, stored, repeated, emitting, signals, conn,
                   thread, interrupted, spawns, ledger, faults, unlogged>>

PollerStarts ==
    /\ poll.phase = "down"
    /\ poll' = NotPolling
    /\ UNCHANGED <<rows, fired, lost, stored, repeated, emitting, signals, conn,
                   thread, interrupted, spawns, ledger, faults, unlogged>>

\* Mutant: the poll stops after a first pass.
ListOnce ==
    /\ poll = NotPolling
    /\ \A r \in Rows : stored[r] + repeated[r] = 0
    /\ \E list \in SUBSET Rows :
        /\ list = {r \in Rows : rows[r] = "due" /\ AgentOf[r] # {}}
        /\ list # {}
        /\ poll' = [phase |-> "ready", list |-> list, row |-> {}]
    /\ UNCHANGED <<rows, fired, lost, stored, repeated, emitting, signals, conn,
                   thread, interrupted, spawns, ledger, faults, unlogged>>

\* Rows without an agent are passed over, at every poll.
ListDueAgencySchedules ==
    /\ poll = NotPolling
    /\ \E list \in SUBSET Rows :
        /\ list = {r \in Rows : rows[r] = "due" /\ AgentOf[r] # {}}
        /\ list # {}
        /\ poll' = [phase |-> "ready", list |-> list, row |-> {}]
    /\ UNCHANGED <<rows, fired, lost, stored, repeated, emitting, signals, conn,
                   thread, interrupted, spawns, ledger, faults, unlogged>>

\* Mutant: a row whose signal is refused is passed over.
PublishOrSkip(r) ==
    /\ poll.row = {}
    /\ r \in poll.list
    /\ \/ /\ Publish(WakeFor(AgentOf[r]))
          /\ fired' = [fired EXCEPT ![r] = @ + 1]
          /\ poll' = [poll EXCEPT !.row = {r}]
          /\ UNCHANGED <<lost, faults>>
       \/ /\ Fault
          /\ lost' = [lost EXCEPT ![r] = @ + 1]
          /\ poll' = [poll EXCEPT !.list = @ \ {r}]
          /\ UNCHANGED <<fired, signals, conn>>
    /\ UNCHANGED <<rows, stored, repeated, emitting, thread, interrupted, spawns, ledger, unlogged>>

\* A refused Publish is written to the log, and the row goes on.
PollPublishes(r) ==
    /\ poll.row = {}
    /\ r \in poll.list
    /\ poll' = [poll EXCEPT !.row = {r}]
    /\ \/ /\ Publish(WakeFor(AgentOf[r]))
          /\ fired' = [fired EXCEPT ![r] = @ + 1]
          /\ UNCHANGED <<lost, faults>>
       \/ /\ Fault
          /\ lost' = [lost EXCEPT ![r] = @ + 1]
          /\ UNCHANGED <<fired, signals, conn>>
    /\ UNCHANGED <<rows, stored, repeated, emitting, thread, interrupted, spawns, ledger, unlogged>>

NextRow(r) == poll' = [poll EXCEPT !.list = @ \ {r}, !.row = {}]

\* UpdateAgencyScheduleFireTimes; without an interval next_fire_at is NULL.
PollStores(r) ==
    /\ poll.row = {r}
    /\ NextRow(r)
    /\ \/ /\ rows' = [rows EXCEPT ![r] = IF r \in Unparsable THEN "NULL" ELSE "later"]
          /\ stored' = [stored EXCEPT ![r] = @ + 1]
          /\ UNCHANGED <<repeated, faults>>
       \/ /\ Fault
          /\ repeated' = [repeated EXCEPT ![r] = @ + 1]
          /\ UNCHANGED <<rows, stored>>
    /\ UNCHANGED <<fired, lost, emitting, signals, conn, thread, interrupted,
                   spawns, ledger, unlogged>>

PollerDies ==
    /\ poll.phase # "down"
    /\ Fault
    /\ poll' = [NotPolling EXCEPT !.phase = "down"]
    /\ repeated' = [r \in Rows |-> repeated[r] + IF r \in poll.row THEN 1 ELSE 0]
    /\ UNCHANGED <<rows, fired, lost, stored, emitting, signals, conn, thread,
                   interrupted, spawns, ledger, unlogged>>

-----------------------------------------------------------------------------
(***************************************************************************)
(* The daemon of an actor: RunActorDaemon.                                 *)
(***************************************************************************)
Goes(t, next) == thread' = [thread EXCEPT ![t] = next]
GoesTo(t, phase) == thread' = [thread EXCEPT ![t].phase = phase]

Spawn(d) ==
    /\ thread[<<d, "both">>] = Off
    /\ spawns[d] < MaxSpawns
    /\ spawns' = [spawns EXCEPT ![d] = @ + 1]
    /\ interrupted' = interrupted \ {d}
    /\ GoesTo(<<d, "both">>, "start")
    /\ UNCHANGED <<schedule, emitting, signals, conn, ledger, faults, unlogged>>

\* bus.Close ends both connections with the process.
Ends(d) ==
    /\ Goes(<<d, "both">>, Off)
    /\ conn' = [conn EXCEPT ![d] = [c \in {"own", "org"} |-> Closed]]

\* Mutant: the error of the first entry is ignored.
StartUnlogged(d) ==
    /\ thread[<<d, "both">>].phase = "start"
    /\ \/ lifecycle' = [lifecycle EXCEPT ![d] = "start"] /\ UNCHANGED faults
       \/ Fault /\ UNCHANGED lifecycle
    /\ GoesTo(<<d, "both">>, "own")
    /\ UNCHANGED <<schedule, emitting, signals, conn, interrupted, spawns, actions, unlogged>>

\* appendActorLifecycle; before the deferred one an error is just returned.
StartEntry(d) ==
    /\ thread[<<d, "both">>].phase = "start"
    /\ \/ /\ lifecycle' = [lifecycle EXCEPT ![d] = "start"]
          /\ GoesTo(<<d, "both">>, "own")
          /\ UNCHANGED <<conn, faults>>
       \/ /\ Fault
          /\ Ends(d)
          /\ UNCHANGED lifecycle
    /\ UNCHANGED <<schedule, emitting, signals, interrupted, spawns, actions, unlogged>>

\* Its own channel first, then the organization's; dial fails once the
\* context is done.
Subscribe(d) ==
    \E c \in {"own", "org"} :
        /\ thread[<<d, "both">>].phase = c
        /\ \/ /\ d \notin interrupted
              /\ conn' = [conn EXCEPT ![d][c] = [open |-> TRUE, queue |-> << >>]]
              /\ GoesTo(<<d, "both">>, IF c = "own" THEN "org" ELSE "loop")
              /\ UNCHANGED faults
           \/ /\ IF d \in interrupted THEN UNCHANGED faults ELSE Fault
              /\ GoesTo(<<d, "both">>, "stop")
              /\ UNCHANGED conn
        /\ UNCHANGED <<schedule, emitting, signals, interrupted, spawns, ledger, unlogged>>

\* The deferred lifecycle entry, whose error is ignored.
StopEntry(d) ==
    /\ thread[<<d, "both">>].phase = "stop"
    /\ Ends(d)
    /\ \/ lifecycle' = [lifecycle EXCEPT ![d] = "stop"] /\ UNCHANGED faults
       \/ Fault /\ UNCHANGED lifecycle
    /\ UNCHANGED <<schedule, emitting, signals, interrupted, spawns, actions, unlogged>>

Interrupt(d) ==
    /\ thread[<<d, "both">>] # Off
    /\ interrupted' = interrupted \cup {d}
    /\ UNCHANGED <<schedule, emitting, signals, conn, thread, spawns, ledger, faults, unlogged>>

Kill(d) ==
    /\ thread[<<d, "both">>] # Off
    /\ Fault
    /\ Ends(d)
    /\ UNCHANGED <<schedule, emitting, signals, interrupted, spawns, ledger, unlogged>>

\* Mutant: the select has no case for the context.
SeesNothing(d) == FALSE

SeesInterrupt(d) ==
    /\ thread[<<d, "both">>] = Looping
    /\ d \in interrupted
    /\ GoesTo(<<d, "both">>, "stop")
    /\ UNCHANGED <<schedule, emitting, signals, conn, interrupted, spawns, ledger, faults, unlogged>>

HeadOf(a, c) == signals[Head(conn[a][c].queue)]

\* readLoop meets its end: the connection is gone, or a message is too long
\* (then readLoop closes the connection).
ChannelEnds(a, c) ==
    \/ conn[a][c] = Closed
    \/ /\ conn[a][c].queue # << >>
       /\ HeadOf(a, c).long

SeesClosedChannel(t) ==
    /\ thread[t] = Looping
    /\ \E c \in Hears(t) :
        /\ ChannelEnds(t[1], c)
        /\ conn' = [conn EXCEPT ![t[1]][c] = Closed]
    /\ IF t[2] = "both" THEN GoesTo(t, "stop") ELSE Goes(t, Off)
    /\ UNCHANGED <<schedule, emitting, signals, interrupted, spawns, ledger, faults, unlogged>>

Takes(t, c) ==
    /\ thread[t] = Looping
    /\ conn[t[1]][c].queue # << >>
    /\ ~HeadOf(t[1], c).long
    /\ conn' = [conn EXCEPT ![t[1]][c].queue = Tail(@)]

\* Mutant: broadcasts are not filtered.
ProcessAll(signal) == TRUE

ShouldProcess(signal) == signal.kind # "broadcast"

Receive(d) ==
    LET t == <<d, "both">> IN
    \E c \in Hears(t) :
        /\ Takes(t, c)
        /\ \/ /\ ~ShouldProcess(HeadOf(d, c))
              /\ UNCHANGED <<thread, faults>>
           \/ /\ ShouldProcess(HeadOf(d, c))       \* LatestSnapshot, kernel
              /\ Goes(t, [Looping EXCEPT
                            !.phase = IF d \in Barred THEN "note" ELSE "act",
                            !.signal = Head(conn[d][c].queue)])
              /\ UNCHANGED faults
           \/ /\ ShouldProcess(HeadOf(d, c))       \* LatestSnapshot fails
              /\ Fault
              /\ GoesTo(t, "stop")
        /\ UNCHANGED <<schedule, emitting, signals, interrupted, spawns, ledger, unlogged>>

Entry(a, cause, accepted) == [actor |-> a, cause |-> cause, accepted |-> accepted]

\* The error of Append is ignored: the broadcast follows in any case.
Act(d) ==
    LET t == <<d, "both">> IN
    /\ thread[t].phase = "act"
    /\ \/ /\ actions' = Append(actions, Entry(d, thread[t].signal, TRUE))
          /\ UNCHANGED <<faults, unlogged>>
       \/ /\ Fault
          /\ unlogged' = unlogged \cup {d}
          /\ UNCHANGED actions
    /\ GoesTo(t, "broadcast")
    /\ UNCHANGED <<schedule, emitting, signals, conn, interrupted, spawns, lifecycle>>

Broadcast(t, long) ==
    [kind |-> "broadcast", channel |-> "org", to |-> Actors, by |-> {t[1]},
     cause |-> thread[t].signal, long |-> long]

\* A refused Publish is ignored; with the context done it is refused.
BroadcastAction(d) ==
    LET t == <<d, "both">> IN
    /\ thread[t].phase = "broadcast"
    /\ \/ /\ d \notin interrupted
          /\ \E long \in BOOLEAN : Publish(Broadcast(t, long))
          /\ UNCHANGED faults
       \/ /\ IF d \in interrupted THEN UNCHANGED faults ELSE Fault
          /\ UNCHANGED <<signals, conn>>
    /\ GoesTo(t, "note")
    /\ UNCHANGED <<schedule, emitting, interrupted, spawns, ledger, unlogged>>

NoteEntry(d) ==
    LET t == <<d, "both">> IN
    /\ thread[t].phase = "note"
    /\ \/ /\ lifecycle' = [lifecycle EXCEPT ![d] = "signal"]
          /\ Goes(t, Looping)
          /\ UNCHANGED faults
       \/ /\ Fault
          /\ Goes(t, [Off EXCEPT !.phase = "stop"])
          /\ UNCHANGED lifecycle
    /\ UNCHANGED <<schedule, emitting, signals, conn, interrupted, spawns, actions, unlogged>>

-----------------------------------------------------------------------------
(***************************************************************************)
(* An embedded actor: startActorLocked, then two loops that do not filter. *)
(***************************************************************************)
StartActor(e) ==
    /\ spawns[e] = 0
    /\ spawns' = [spawns EXCEPT ![e] = 1]
    /\ conn' = [conn EXCEPT ![e] = [c \in {"own", "org"} |-> [open |-> TRUE, queue |-> << >>]]]
    /\ thread' = [t \in Threads |-> IF t[1] = e THEN Looping ELSE thread[t]]
    /\ UNCHANGED <<schedule, emitting, signals, interrupted, ledger, faults, unlogged>>

\* Handle may refuse (an error), or propose.
HandleSignal(e, c) ==
    LET t == <<e, c>> IN
    /\ Takes(t, c)
    /\ \E left \in IF Len(signals) < MaxSignals THEN 0..MaxProposals ELSE {0} :
        Goes(t, IF left = 0 THEN Looping
                ELSE [Looping EXCEPT !.phase = "act", !.left = left,
                                     !.signal = Head(conn[e][c].queue)])
    /\ UNCHANGED <<schedule, emitting, signals, interrupted, spawns, ledger, faults, unlogged>>

\* Mutant: the loop over the proposals misses its end.
NeverLast(t) == [thread[t] EXCEPT !.phase = "act", !.left = @ - 1]

NextProposal(t) ==
    IF thread[t].left = 1 THEN Looping
    ELSE [thread[t] EXCEPT !.phase = "act", !.left = @ - 1]

\* Mutant: the error of Append is ignored.
AppendOrNot(e, c) ==
    LET t == <<e, c>> IN
    /\ thread[t].phase = "act"
    /\ \E accepted \in BOOLEAN :
        /\ \/ /\ actions' = Append(actions, Entry(e, thread[t].signal, accepted))
              /\ UNCHANGED faults
           \/ Fault /\ UNCHANGED actions
        /\ Goes(t, IF accepted
                   THEN [thread[t] EXCEPT !.phase = "broadcast"]
                   ELSE NextProposal(t))
    /\ UNCHANGED <<schedule, emitting, signals, conn, interrupted, spawns, lifecycle, unlogged>>

\* ValidateAction decides; only what is in the ledger is broadcast.
AppendProposal(e, c) ==
    LET t == <<e, c>> IN
    /\ thread[t].phase = "act"
    /\ \/ \E accepted \in BOOLEAN :
            /\ actions' = Append(actions, Entry(e, thread[t].signal, accepted))
            /\ Goes(t, IF accepted
                       THEN [thread[t] EXCEPT !.phase = "broadcast"]
                       ELSE NextProposal(t))
            /\ UNCHANGED faults
       \/ /\ Fault
          /\ Goes(t, NextProposal(t))
          /\ UNCHANGED actions
    /\ UNCHANGED <<schedule, emitting, signals, conn, interrupted, spawns, lifecycle, unlogged>>

BroadcastProposal(e, c) ==
    LET t == <<e, c>> IN
    /\ thread[t].phase = "broadcast"
    /\ \/ Publish(Broadcast(t, FALSE)) /\ UNCHANGED faults
       \/ Fault /\ UNCHANGED <<signals, conn>>
    /\ Goes(t, NextProposal(t))
    /\ UNCHANGED <<schedule, emitting, interrupted, spawns, ledger, unlogged>>

-----------------------------------------------------------------------------
DaemonStep(d) ==
    \/ StartEntry(d)
    \/ Subscribe(d)
    \/ SeesInterrupt(d)
    \/ SeesClosedChannel(<<d, "both">>)
    \/ Receive(d)
    \/ Act(d)
    \/ BroadcastAction(d)
    \/ NoteEntry(d)
    \/ StopEntry(d)

LoopStep(e, c) ==
    \/ SeesClosedChannel(<<e, c>>)
    \/ HandleSignal(e, c)
    \/ AppendProposal(e, c)
    \/ BroadcastProposal(e, c)

PollStep ==
    \/ PollerStarts
    \/ ListDueAgencySchedules
    \/ \E r \in Rows : PollPublishes(r) \/ PollStores(r)

Next ==
    \/ RedisRestarts
    \/ \E a \in Actors : AppendSignal(a)
    \/ PublishLogged
    \/ \E r \in Rows : BecomesDue(r)
    \/ PollStep
    \/ PollerDies
    \/ \E d \in Daemons : Spawn(d) \/ DaemonStep(d) \/ Interrupt(d) \/ Kill(d)
    \/ \E e \in Embedded :
        StartActor(e) \/ \E c \in {"own", "org"} : LoopStep(e, c)

Spec == Init /\ [][Next]_vars

\* The daemons' processes, and the poll, are scheduled.
FairSpec ==
    /\ Spec
    /\ WF_vars(PollStep)
    /\ \A d \in Daemons : WF_vars(DaemonStep(d))
    /\ \A e \in Embedded, c \in {"own", "org"} : WF_vars(LoopStep(e, c))

-----------------------------------------------------------------------------
(***************************************************************************)
(* Properties.                                                             *)
(***************************************************************************)
TypeOK ==
    /\ rows \in [Rows -> {"due", "later", "NULL"}]
    /\ poll \in [phase : {"down", "ready"}, list : SUBSET Rows, row : SUBSET Rows]
    /\ emitting \subseteq WakeSignal
    /\ signals \in Seq(WakeSignal)
    /\ conn \in [Actors -> [{"own", "org"} -> Connection]]
    /\ thread \in [Threads -> Thread]
    /\ interrupted \subseteq Daemons
    /\ spawns \in [Actors -> 0..(MaxSpawns + 1)]
    /\ actions \in Seq(Action)
    /\ lifecycle \in [Daemons -> {"none", "start", "signal", "stop"}]
    /\ faults \in 0..MaxFaults
    /\ fired \in [Rows -> Nat]
    /\ lost \in [Rows -> Nat]
    /\ stored \in [Rows -> 0..MaxPeriods]
    /\ repeated \in [Rows -> Nat]
    /\ unlogged \subseteq Daemons

\* A daemon acts on a signal at most once, only on a signal addressed to it,
\* and never on a broadcast: neither its own nor those of the embedded actors,
\* which do wake each other, can make it act.
ActsOncePerWake ==
    \A i \in DOMAIN actions : actions[i].actor \in Daemons =>
        /\ signals[actions[i].cause].kind = "wake"
        /\ actions[i].actor \in signals[actions[i].cause].to
        /\ \A j \in DOMAIN actions :
              j # i => <<actions[j].actor, actions[j].cause>> # <<actions[i].actor, actions[i].cause>>

\* What the organization hears of an actor was accepted and is in the ledger:
\* as many entries as broadcasts, for every actor and cause, except for a
\* daemon that the ledger has refused an action.
BroadcastsWereCommitted ==
    \A a \in Actors \ unlogged : \A cause \in DOMAIN signals :
        Cardinality({i \in DOMAIN signals :
            signals[i].kind = "broadcast" /\ signals[i].by = {a} /\ signals[i].cause = cause})
        <= Cardinality({j \in DOMAIN actions : actions[j] = Entry(a, cause, TRUE)})

\* A daemon that takes signals has an entry of its start, or of a later
\* signal, in the ledger, and none of its stop.
RunningIsOnLedger ==
    \A d \in Daemons :
        thread[<<d, "both">>].phase \notin {"off", "start", "stop"} =>
            lifecycle[d] \in {"start", "signal"}

\* The signal of a period is sent again exactly as often as the poll was cut
\* off, or refused by the database, between the signal and the fire times; a
\* period passes without its signal only if Redis refused it.
PeriodsAccounted ==
    \A r \in Rows :
        fired[r] + lost[r] = stored[r] + repeated[r] + (IF r \in poll.row THEN 1 ELSE 0)

\* A due row with an agent does not stay due: faults end, the poll goes on.
DueIsStored ==
    \A r \in Rows : (rows[r] = "due" /\ AgentOf[r] # {}) ~> rows[r] # "due"

Queued(d, i) ==
    \E c \in {"own", "org"} : \E k \in DOMAIN conn[d][c].queue : conn[d][c].queue[k] = i

\* A wake that has reached the connection of a daemon is acted upon, or the
\* daemon ends (or its ledger refused an action, or its role may not observe).
\* Followed for the first signals, which come while everything is possible.
WakeIsServed ==
    \A d \in Daemons \ Barred : \A i \in 1..(MaxLogged + MaxPeriods) :
        (Queued(d, i) /\ signals[i].kind = "wake")
            ~> \/ Entry(d, i, TRUE) \in {actions[j] : j \in DOMAIN actions}
               \/ d \in unlogged
               \/ thread[<<d, "both">>] = Off

\* A daemon that is interrupted ends, whatever is in its channels.
InterruptEnds ==
    \A d \in Daemons : d \in interrupted ~> (thread[<<d, "both">>] = Off \/ d \notin interrupted)
=============================================================================
