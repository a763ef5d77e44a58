------------------------------ MODULE EventBus ------------------------------
(***************************************************************************)
(* MemoryEventBus (internal/agency/bus.go) with its publishers, the        *)
(* goroutine each Subscribe starts to close the channel when its context   *)
(* is cancelled, and the loops that read the channels (RuntimeManager.loop *)
(* and AgentDaemon.Run, runtime.go and daemon.go).                         *)
(*                                                                         *)
(* Publish holds the read lock while it offers the signal to one channel   *)
(* after another; Subscribe, the closing goroutines and Close take the     *)
(* write lock, so they wait until no Publish is under way.  Signals are    *)
(* numbered per publisher.                                                 *)
(***************************************************************************)
EXTENDS Naturals, Sequences, FiniteSets

CONSTANTS
    Subs,           \* subscriptions, one per call of Subscribe
    Channels,       \* bus channels: agency.actor.<id>, agency.org.<id>, ...
    ChannelOf,      \* ChannelOf[s]: the channel subscription s is made on
    Publishers,
    Capacity,       \* buffer of a subscription's Go channel, 32 in the code
    MaxSignals      \* bound: MaxSignals[p] signals are published by p

ASSUME BusAssumption ==
    /\ ChannelOf \in [Subs -> Channels]
    /\ Capacity \in Nat \ {0}
    /\ MaxSignals \in [Publishers -> Nat]

VARIABLES
    chan,        \* chan[s]: the Go channel made for s
    queue,       \* queue[s]: the signals buffered in it
    subs,        \* the channels the bus knows (MemoryEventBus.subs)
    closed,      \* MemoryEventBus.closed
    cancelled,   \* subscriptions whose context is done
    watcher,     \* watcher[s]: the goroutine that waits for the context
    reader,      \* reader[s]: the loop that reads the channel
    handled,     \* handled[s]: what the loop has received, in order
    sending,     \* sending[p]: the channels Publish has still to offer to
    published,   \* published[p]: the number of signals p has begun to publish
    panicked     \* close of a closed channel: the process is gone

vars == <<chan, queue, subs, closed, cancelled, watcher, reader, handled,
          sending, published, panicked>>

Signal == [from : Publishers, number : Nat]

Quiet == [active |-> FALSE, todo |-> {}]

Init ==
    /\ chan = [s \in Subs |-> "none"]
    /\ queue = [s \in Subs |-> << >>]
    /\ subs = {}
    /\ closed = FALSE
    /\ cancelled = {}
    /\ watcher = [s \in Subs |-> "none"]
    /\ reader = [s \in Subs |-> "none"]
    /\ handled = [s \in Subs |-> << >>]
    /\ sending = [p \in Publishers |-> Quiet]
    /\ published = [p \in Publishers |-> 0]
    /\ panicked = FALSE

\* Mutant of WriteLock: a closing goroutine that takes no lock.
NoLock == ~panicked

\* The write lock is free when no Publish holds the read lock.
WriteLock == ~panicked /\ \A p \in Publishers : ~sending[p].active

-----------------------------------------------------------------------------
\* Publish takes the read lock; on a closed bus it returns at once.
Publish(p, c) ==
    /\ ~panicked
    /\ ~sending[p].active
    /\ published[p] < MaxSignals[p]
    /\ published' = [published EXCEPT ![p] = @ + 1]
    /\ sending' = IF closed THEN sending
                  ELSE [sending EXCEPT ![p] = [active |-> TRUE,
                                               todo |-> {s \in subs : ChannelOf[s] = c}]]
    /\ UNCHANGED <<chan, queue, subs, closed, cancelled, watcher, reader,
                   handled, panicked>>

\* Mutant of Offer: the signal is offered again after it was delivered.
OfferAgain(p, s) ==
    /\ ~panicked
    /\ sending[p].active
    /\ s \in sending[p].todo
    /\ queue' = IF Len(queue[s]) < Capacity
                THEN [queue EXCEPT ![s] = Append(@, [from |-> p, number |-> published[p]])]
                ELSE queue
    /\ sending' = IF Len(queue[s]) < Capacity THEN sending
                  ELSE [sending EXCEPT ![p].todo = @ \ {s}]
    /\ UNCHANGED <<chan, subs, closed, cancelled, watcher, reader, handled,
                   published, panicked>>

\* One non-blocking send: a full buffer loses the signal for that subscriber.
Offer(p, s) ==
    /\ ~panicked
    /\ sending[p].active
    /\ s \in sending[p].todo
    /\ sending' = [sending EXCEPT ![p].todo = @ \ {s}]
    /\ queue' = IF Len(queue[s]) < Capacity
                THEN [queue EXCEPT ![s] = Append(@, [from |-> p, number |-> published[p]])]
                ELSE queue
    /\ UNCHANGED <<chan, subs, closed, cancelled, watcher, reader, handled,
                   published, panicked>>

PublishReturns(p) ==
    /\ ~panicked
    /\ sending[p].active
    /\ sending[p].todo = {}
    /\ sending' = [sending EXCEPT ![p] = Quiet]
    /\ UNCHANGED <<chan, queue, subs, closed, cancelled, watcher, reader,
                   handled, published, panicked>>

\* A subscription on a closed bus gets a closed channel and no goroutine.
Subscribe(s) ==
    /\ WriteLock
    /\ chan[s] = "none"
    /\ reader' = [reader EXCEPT ![s] = "running"]
    /\ IF closed
       THEN /\ chan' = [chan EXCEPT ![s] = "closed"]
            /\ UNCHANGED <<subs, watcher>>
       ELSE /\ chan' = [chan EXCEPT ![s] = "open"]
            /\ subs' = subs \cup {s}
            /\ watcher' = [watcher EXCEPT ![s] = "waiting"]
    /\ UNCHANGED <<queue, closed, cancelled, handled, sending, published, panicked>>

\* The caller cancels the context of a subscription (RuntimeManager.Stop, the
\* end of a request, a signal to the process).
Cancel(s) ==
    /\ ~panicked
    /\ chan[s] # "none"
    /\ s \notin cancelled
    /\ cancelled' = cancelled \cup {s}
    /\ UNCHANGED <<chan, queue, subs, closed, watcher, reader, handled,
                   sending, published, panicked>>

\* Mutants of WatcherCloses: a goroutine that does not return after the close,
\* and one that forgets the subscription without closing its channel.
WatcherRepeats(s) ==
    /\ WriteLock
    /\ watcher[s] = "waiting"
    /\ s \in cancelled
    /\ subs' = subs \ {s}
    /\ chan' = [chan EXCEPT ![s] = "closed"]
    /\ panicked' = (chan[s] = "closed")
    /\ UNCHANGED <<queue, closed, cancelled, watcher, reader, handled, sending, published>>

WatcherForgets(s) ==
    /\ WriteLock
    /\ watcher[s] = "waiting"
    /\ s \in cancelled
    /\ watcher' = [watcher EXCEPT ![s] = "ended"]
    /\ subs' = subs \ {s}
    /\ UNCHANGED <<chan, queue, closed, cancelled, reader, handled, sending,
                   published, panicked>>

\* The goroutine of Subscribe after ctx.Done: it closes the channel whether
\* or not Close has closed it before.
WatcherCloses(s) ==
    /\ WriteLock
    /\ watcher[s] = "waiting"
    /\ s \in cancelled
    /\ watcher' = [watcher EXCEPT ![s] = "ended"]
    /\ subs' = subs \ {s}
    /\ chan' = [chan EXCEPT ![s] = "closed"]
    /\ panicked' = (chan[s] = "closed")
    /\ UNCHANGED <<queue, closed, cancelled, reader, handled, sending, published>>

\* Close closes every channel the bus still knows and forgets them.
Close ==
    /\ WriteLock
    /\ ~closed
    /\ closed' = TRUE
    /\ panicked' = (\E s \in subs : chan[s] = "closed")
    /\ chan' = [s \in Subs |-> IF s \in subs THEN "closed" ELSE chan[s]]
    /\ subs' = {}
    /\ UNCHANGED <<queue, cancelled, watcher, reader, handled, sending, published>>

\* The loop receives a buffered signal, also from a closed channel, and also
\* when its context is done: select picks any ready case.
Receive(s) ==
    /\ ~panicked
    /\ reader[s] = "running"
    /\ queue[s] # << >>
    /\ handled' = [handled EXCEPT ![s] = Append(@, Head(queue[s]))]
    /\ queue' = [queue EXCEPT ![s] = Tail(@)]
    /\ UNCHANGED <<chan, subs, closed, cancelled, watcher, reader, sending,
                   published, panicked>>

\* The loop returns on ctx.Done, or when the channel is closed and drained.
LoopReturns(s) ==
    /\ ~panicked
    /\ reader[s] = "running"
    /\ \/ s \in cancelled
       \/ chan[s] = "closed" /\ queue[s] = << >>
    /\ reader' = [reader EXCEPT ![s] = "returned"]
    /\ UNCHANGED <<chan, queue, subs, closed, cancelled, watcher, handled,
                   sending, published, panicked>>

Next ==
    \/ \E p \in Publishers :
        \/ \E c \in Channels : Publish(p, c)
        \/ \E s \in Subs : Offer(p, s)
        \/ PublishReturns(p)
    \/ \E s \in Subs :
        \/ Subscribe(s)
        \/ Cancel(s)
        \/ WatcherCloses(s)
        \/ Receive(s)
        \/ LoopReturns(s)
    \/ Close

Spec == Init /\ [][Next]_vars

\* A publisher that has begun a Publish finishes it; the runtime schedules
\* every goroutine that can run.  Nothing obliges anybody to publish,
\* subscribe, cancel or close, and a writer may wait for the lock as long as
\* new Publish calls overlap (strong fairness: RWMutex lets a waiting writer
\* in before later readers).
Fairness ==
    /\ \A p \in Publishers : /\ WF_vars(\E s \in Subs : Offer(p, s))
                             /\ WF_vars(PublishReturns(p))
    /\ \A s \in Subs : /\ SF_vars(WatcherCloses(s))
                       /\ WF_vars(Receive(s))
                       /\ WF_vars(LoopReturns(s))

FairSpec == Spec /\ Fairness

-----------------------------------------------------------------------------
(* Properties *)

TypeOK ==
    /\ chan \in [Subs -> {"none", "open", "closed"}]
    /\ queue \in [Subs -> Seq(Signal)]
    /\ subs \subseteq Subs
    /\ closed \in BOOLEAN
    /\ cancelled \subseteq Subs
    /\ watcher \in [Subs -> {"none", "waiting", "ended"}]
    /\ reader \in [Subs -> {"none", "running", "returned"}]
    /\ handled \in [Subs -> Seq(Signal)]
    /\ sending \in [Publishers -> [active : BOOLEAN, todo : SUBSET Subs]]
    /\ \A p \in Publishers : published[p] \in 0..MaxSignals[p]
    /\ panicked \in BOOLEAN

\* Publish never sends on a closed channel (a Go panic): neither a cancelled
\* context nor Close closes a channel that a Publish under way has still to
\* offer its signal to.
SendsToOpenChannels ==
    \A p \in Publishers : \A s \in sending[p].todo : chan[s] = "open"

\* The bus and the closing goroutines close a channel twice only when Close
\* has run: cancelling subscriptions alone, in any order and while signals
\* are published, never brings the process down.  (Cancelling and then
\* closing, which is what Service.Shutdown does, can: a goroutine that wakes
\* up after Close closes its channel again.)
PanicNeedsClose == panicked => closed

\* What a subscriber has received and what waits in its buffer are signals of
\* each publisher in the order it published them, none twice, whatever was
\* dropped in between.
Stream(s) == handled[s] \o queue[s]

InPublishedOrder ==
    \A s \in Subs : \A j, k \in DOMAIN Stream(s) :
        (j < k /\ Stream(s)[j].from = Stream(s)[k].from)
            => Stream(s)[j].number < Stream(s)[k].number

\* Once the context of a subscription is cancelled its channel is closed and
\* its loop returns, however often others publish, unless the process died.
CancelReleases ==
    \A s \in Subs :
        s \in cancelled ~> (panicked \/ (chan[s] = "closed" /\ reader[s] = "returned"))
=============================================================================
