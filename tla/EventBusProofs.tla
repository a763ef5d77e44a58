--------------------------- MODULE EventBusProofs ---------------------------
(***************************************************************************)
(* Proofs about EventBus, for any subscriptions, channels and publishers,  *)
(* any buffer size and any number of signals.                              *)
(***************************************************************************)
EXTENDS EventBus, TLAPS, SequenceTheorems

-----------------------------------------------------------------------------
(* Streams: what a subscriber has received, then what waits in its buffer *)

\* Receiving moves a signal from the buffer to the loop: the stream stays.
LEMMA ReceiveKeepsStream ==
    ASSUME NEW h \in Seq(Signal), NEW q \in Seq(Signal), q # << >>
    PROVE  /\ Append(h, Head(q)) \in Seq(Signal)
           /\ Tail(q) \in Seq(Signal)
           /\ Append(h, Head(q)) \o Tail(q) = h \o q
<1> DEFINE a == Append(h, Head(q))
           t == Tail(q)
<1>1. /\ Len(h) \in Nat /\ Len(q) \in Nat /\ Len(q) > 0
      /\ DOMAIN q = 1 .. Len(q)
  BY LenProperties, EmptySeq
<1>2. /\ Head(q) = q[1] /\ Head(q) \in Signal
      /\ t \in Seq(Signal)
      /\ Len(t) = Len(q) - 1
      /\ \A k \in 1 .. Len(t) : t[k] = q[k + 1]
  BY HeadTailProperties
<1>3. /\ a \in Seq(Signal)
      /\ Len(a) = Len(h) + 1
      /\ \A k \in 1 .. Len(h) : a[k] = h[k]
      /\ a[Len(h) + 1] = q[1]
  BY <1>2, AppendProperties
<1> HIDE DEF a, t
<1>4. /\ a \o t \in Seq(Signal) /\ Len(a \o t) = Len(a) + Len(t)
      /\ \A k \in 1 .. Len(a) + Len(t) :
            (a \o t)[k] = IF k <= Len(a) THEN a[k] ELSE t[k - Len(a)]
  BY <1>2, <1>3, ConcatProperties
<1>5. /\ h \o q \in Seq(Signal) /\ Len(h \o q) = Len(h) + Len(q)
      /\ \A k \in 1 .. Len(h) + Len(q) :
            (h \o q)[k] = IF k <= Len(h) THEN h[k] ELSE q[k - Len(h)]
  BY ConcatProperties
<1>6. ASSUME NEW k \in 1 .. Len(h) + Len(q)
      PROVE  (a \o t)[k] = (h \o q)[k]
  <2>1. CASE k <= Len(h)
    BY <1>1, <1>2, <1>3, <1>4, <1>5, <2>1
  <2>2. CASE k = Len(h) + 1
    BY <1>1, <1>2, <1>3, <1>4, <1>5, <2>2
  <2>3. CASE k > Len(h) + 1
    <3>1. k - Len(a) \in 1 .. Len(t) /\ (k - Len(a)) + 1 = k - Len(h)
      BY <1>1, <1>2, <1>3, <2>3
    <3> QED
      BY <1>1, <1>2, <1>3, <1>4, <1>5, <2>3, <3>1
  <2>4. k <= Len(h) \/ k = Len(h) + 1 \/ k > Len(h) + 1
    BY <1>1
  <2> QED
    BY <2>1, <2>2, <2>3, <2>4, Zenon
<1>7. Len(a \o t) = Len(h) + Len(q)
  BY <1>1, <1>2, <1>3, <1>4
<1>8. a \o t = h \o q
  BY <1>4, <1>5, <1>6, <1>7, SeqEqual, Zenon
<1> QED
  BY <1>2, <1>3, <1>8, Zenon DEF a, t

\* Offering appends to the stream.
LEMMA OfferAppends ==
    ASSUME NEW h \in Seq(Signal), NEW q \in Seq(Signal), NEW m \in Signal
    PROVE  /\ h \o q \in Seq(Signal)
           /\ Append(q, m) \in Seq(Signal)
           /\ h \o Append(q, m) \in Seq(Signal)
           /\ Len(h \o Append(q, m)) = Len(h \o q) + 1
           /\ \A k \in 1 .. Len(h \o q) : (h \o Append(q, m))[k] = (h \o q)[k]
           /\ (h \o Append(q, m))[Len(h \o q) + 1] = m
<1> DEFINE b == Append(q, m)
<1>1. Len(h) \in Nat /\ Len(q) \in Nat
  BY LenProperties
<1>2. /\ b \in Seq(Signal) /\ Len(b) = Len(q) + 1
      /\ \A k \in 1 .. Len(q) : b[k] = q[k]
      /\ b[Len(q) + 1] = m
  BY AppendProperties
<1> HIDE DEF b
<1>3. /\ h \o q \in Seq(Signal) /\ Len(h \o q) = Len(h) + Len(q)
      /\ \A k \in 1 .. Len(h) + Len(q) :
            (h \o q)[k] = IF k <= Len(h) THEN h[k] ELSE q[k - Len(h)]
  BY ConcatProperties
<1>4. /\ h \o b \in Seq(Signal) /\ Len(h \o b) = Len(h) + Len(b)
      /\ \A k \in 1 .. Len(h) + Len(b) :
            (h \o b)[k] = IF k <= Len(h) THEN h[k] ELSE b[k - Len(h)]
  BY <1>2, ConcatProperties
<1>5. ASSUME NEW k \in 1 .. Len(h \o q)
      PROVE  (h \o b)[k] = (h \o q)[k]
  BY <1>1, <1>2, <1>3, <1>4
<1>6. (h \o b)[Len(h \o q) + 1] = m
  BY <1>1, <1>2, <1>3, <1>4
<1> QED
  BY <1>1, <1>2, <1>3, <1>4, <1>5, <1>6 DEF b

-----------------------------------------------------------------------------
(* The inductive invariant *)

Ordered(stream) ==
    \A j, k \in DOMAIN stream :
        (j < k /\ stream[j].from = stream[k].from)
            => stream[j].number < stream[k].number

\* A stream holds no number its publisher has not reached ...
Reached(stream) ==
    \A k \in DOMAIN stream : stream[k].number <= published[stream[k].from]

\* ... and, while publisher p has still to offer its latest signal, not that.
NotYet(stream, p) ==
    \A k \in DOMAIN stream :
        stream[k].from = p => stream[k].number < published[p]

Started == published \in [Publishers -> Nat]

\* Publish offers only while it holds the read lock, and to subscriptions the
\* bus knows; those have open channels, because whoever closes a channel
\* forgets it under the write lock.
OffersAreKnown ==
    \A p \in Publishers : \A s \in sending[p].todo : sending[p].active /\ s \in subs

KnownAreOpen == \A s \in subs : chan[s] = "open"

\* Until Close runs, a goroutine that waits for its context has not closed
\* its channel, and nobody else has.
WaitingAreOpen ==
    ~closed => \A s \in Subs : watcher[s] = "waiting" => chan[s] = "open"

StreamsInOrder ==
    \A s \in Subs :
        /\ Ordered(Stream(s))
        /\ Reached(Stream(s))
        /\ \A p \in Publishers : s \in sending[p].todo => NotYet(Stream(s), p)

IInv ==
    /\ TypeOK
    /\ Started
    /\ OffersAreKnown
    /\ KnownAreOpen
    /\ WaitingAreOpen
    /\ PanicNeedsClose
    /\ StreamsInOrder

\* No step but Publish, Offer and Receive disturbs a stream or what is still to
\* be offered.
LEMMA StreamsUnchanged ==
    ASSUME StreamsInOrder, UNCHANGED <<queue, handled, published>>,
           \A p \in Publishers : sending'[p].todo \subseteq sending[p].todo
    PROVE  StreamsInOrder'
<1>1. \A s \in Subs : Stream(s)' = Stream(s)
  BY DEF Stream
<1> QED
  BY <1>1 DEF StreamsInOrder, Ordered, Reached, NotYet

\* Before the first Subscribe there are no channels and no signals.
LEMMA InitIInv == Init => IInv
<1> SUFFICES ASSUME Init PROVE IInv
  OBVIOUS
<1>1. TypeOK
  <2>1. << >> \in Seq(Signal)
    BY EmptySeq
  <2>2. \A p \in Publishers : published[p] \in 0 .. MaxSignals[p]
    BY BusAssumption DEF Init
  <2>3. Quiet \in [active : BOOLEAN, todo : SUBSET Subs]
    BY DEF Quiet
  <2> QED
    BY <2>1, <2>2, <2>3 DEF Init, TypeOK
<1>2. Started /\ OffersAreKnown /\ KnownAreOpen /\ WaitingAreOpen /\ PanicNeedsClose
  BY DEF Init, Started, OffersAreKnown, KnownAreOpen, WaitingAreOpen,
         PanicNeedsClose, Quiet
<1>3. \A s \in Subs : Stream(s) = << >>
  BY EmptySeq, ConcatEmptySeq DEF Init, Stream
<1>4. DOMAIN << >> = {}
  OBVIOUS
<1>5. StreamsInOrder
  BY <1>3, <1>4 DEF StreamsInOrder, Ordered, Reached, NotYet
<1> QED
  BY <1>1, <1>2, <1>5 DEF IInv

\* A signal gets a number above all its publisher's numbers in any stream.
LEMMA PublishIInv ==
    ASSUME IInv, NEW p \in Publishers, NEW c \in Channels, Publish(p, c)
    PROVE  IInv'
<1> DEFINE todo == {s \in subs : ChannelOf[s] = c}
<1>1. /\ published' = [published EXCEPT ![p] = @ + 1]
      /\ published \in [Publishers -> Nat]
  BY DEF Publish, IInv, Started
<1>2. /\ published' \in [Publishers -> Nat]
      /\ published'[p] = published[p] + 1
      /\ \A q \in Publishers \ {p} : published'[q] = published[q]
  BY <1>1
<1>3. \A q \in Publishers : published'[q] \in 0 .. MaxSignals[q]
  BY <1>2, BusAssumption DEF Publish, IInv, TypeOK
<1>4. /\ sending' \in [Publishers -> [active : BOOLEAN, todo : SUBSET Subs]]
      /\ \A q \in Publishers \ {p} : sending'[q] = sending[q]
      /\ sending'[p].todo \subseteq subs
      /\ sending'[p].todo # {} => sending'[p].active
  <2>1. todo \in SUBSET Subs /\ todo \subseteq subs
    BY DEF IInv, TypeOK
  <2> HIDE DEF todo
  <2>2. CASE closed
    BY <2>2 DEF Publish, IInv, TypeOK, OffersAreKnown
  <2>3. CASE ~closed
    <3>1. sending' = [sending EXCEPT ![p] = [active |-> TRUE, todo |-> todo]]
      BY <2>3 DEF Publish, todo
    <3> QED
      BY <2>1, <3>1 DEF IInv, TypeOK
  <2> QED
    BY <2>2, <2>3
<1>5. TypeOK'
  BY <1>3, <1>4 DEF Publish, IInv, TypeOK
<1>6. OffersAreKnown'
  BY <1>4 DEF Publish, IInv, OffersAreKnown
<1>7. KnownAreOpen' /\ WaitingAreOpen' /\ PanicNeedsClose'
  BY DEF Publish, IInv, KnownAreOpen, WaitingAreOpen, PanicNeedsClose
<1>8. ASSUME NEW s \in Subs
      PROVE  /\ Ordered(Stream(s)')
             /\ Reached(Stream(s))'
             /\ \A q \in Publishers : s \in sending'[q].todo => NotYet(Stream(s), q)'
  <2>1. Stream(s)' = Stream(s)
    BY DEF Publish, Stream
  <2>2. /\ Stream(s) \in Seq(Signal)
        /\ \A k \in DOMAIN Stream(s) :
              Stream(s)[k].from \in Publishers /\ Stream(s)[k].number \in Nat
    <3>1. Stream(s) \in Seq(Signal)
      BY ConcatProperties DEF IInv, TypeOK, Stream
    <3>2. \A k \in DOMAIN Stream(s) : Stream(s)[k] \in Signal
      BY <3>1, LenProperties, ElementOfSeq
    <3> QED
      BY <3>1, <3>2 DEF Signal
  <2>3. Ordered(Stream(s)) /\ Reached(Stream(s))
    BY DEF IInv, StreamsInOrder
  <2>4. \A k \in DOMAIN Stream(s) :
           /\ Stream(s)[k].number <= published'[Stream(s)[k].from]
           /\ Stream(s)[k].from = p => Stream(s)[k].number < published'[p]
    BY <1>1, <1>2, <2>2, <2>3 DEF Reached
  <2>5. ASSUME NEW q \in Publishers \ {p}, s \in sending'[q].todo
        PROVE  NotYet(Stream(s), q)'
    BY <1>2, <1>4, <2>1, <2>5 DEF IInv, StreamsInOrder, NotYet
  <2> QED
    BY <2>1, <2>3, <2>4, <2>5 DEF Reached, NotYet
<1>9. StreamsInOrder'
  BY <1>8 DEF StreamsInOrder, Ordered
<1> QED
  BY <1>2, <1>5, <1>6, <1>7, <1>9 DEF IInv, Started

\* Only the subscription that takes the signal has it at the end of its stream,
\* and its publisher does not offer it there again.
LEMMA OfferIInv ==
    ASSUME IInv, NEW p \in Publishers, NEW s \in Subs, Offer(p, s)
    PROVE  IInv'
<1> DEFINE m == [from |-> p, number |-> published[p]]
<1>1. /\ published[p] \in Nat
      /\ m \in Signal /\ m.from = p /\ m.number = published[p]
      /\ handled \in [Subs -> Seq(Signal)] /\ queue \in [Subs -> Seq(Signal)]
  BY DEF IInv, TypeOK, Started, Signal
<1> HIDE DEF m
<1>2. /\ sending' \in [Publishers -> [active : BOOLEAN, todo : SUBSET Subs]]
      /\ sending'[p].todo = sending[p].todo \ {s}
      /\ \A q \in Publishers : /\ sending'[q].todo \subseteq sending[q].todo
                               /\ sending'[q].active = sending[q].active
  <2>1. /\ sending' = [sending EXCEPT ![p].todo = @ \ {s}]
        /\ sending \in [Publishers -> [active : BOOLEAN, todo : SUBSET Subs]]
    BY DEF Offer, IInv, TypeOK
  <2>2. /\ sending'[p].todo = sending[p].todo \ {s}
        /\ sending'[p].active = sending[p].active
        /\ \A q \in Publishers \ {p} : sending'[q] = sending[q]
    BY <2>1
  <2>3. sending' \in [Publishers -> [active : BOOLEAN, todo : SUBSET Subs]]
    BY <2>1
  <2> QED
    BY <2>2, <2>3
<1>3. OffersAreKnown' /\ KnownAreOpen' /\ WaitingAreOpen' /\ PanicNeedsClose'
  BY <1>2 DEF Offer, IInv, OffersAreKnown, KnownAreOpen, WaitingAreOpen,
              PanicNeedsClose
<1>4. CASE queue' = queue
  <2>1. TypeOK' /\ Started'
    BY <1>2, <1>4 DEF Offer, IInv, TypeOK, Started
  <2>2. StreamsInOrder'
    BY <1>2, <1>4, StreamsUnchanged DEF Offer, IInv
  <2> QED
    BY <1>3, <2>1, <2>2 DEF IInv
<1>5. CASE queue' = [queue EXCEPT ![s] = Append(@, m)]
  <2>1. /\ Append(queue[s], m) \in Seq(Signal)
        /\ queue'[s] = Append(queue[s], m)
        /\ \A r \in Subs \ {s} : queue'[r] = queue[r]
    BY <1>1, <1>5, OfferAppends
  <2>2. TypeOK' /\ Started'
    <3>1. queue' \in [Subs -> Seq(Signal)]
      BY <1>1, <1>5, <2>1
    <3> QED
      BY <1>2, <3>1 DEF Offer, IInv, TypeOK, Started
  <2>3. ASSUME NEW r \in Subs \ {s}
        PROVE  /\ Ordered(Stream(r))' /\ Reached(Stream(r))'
               /\ \A q \in Publishers : r \in sending'[q].todo => NotYet(Stream(r), q)'
    <3>1. Stream(r)' = Stream(r) /\ published' = published
      BY <2>1 DEF Stream, Offer
    <3> QED
      BY <1>2, <3>1 DEF IInv, StreamsInOrder, Ordered, Reached, NotYet
  <2>4. /\ Ordered(Stream(s))' /\ Reached(Stream(s))'
        /\ \A q \in Publishers : s \in sending'[q].todo => NotYet(Stream(s), q)'
    <3> DEFINE old == Stream(s)
               new == handled[s] \o Append(queue[s], m)
    <3>1. Stream(s)' = new /\ published' = published
      BY <2>1 DEF Stream, Offer
    <3>2. /\ old \in Seq(Signal) /\ new \in Seq(Signal)
          /\ Len(new) = Len(old) + 1
          /\ \A k \in 1 .. Len(old) : new[k] = old[k]
          /\ new[Len(old) + 1] = m
      BY <1>1, OfferAppends DEF Stream
    <3>3. /\ Ordered(old) /\ Reached(old) /\ NotYet(old, p)
          /\ \A q \in Publishers : s \in sending[q].todo => NotYet(old, q)
      BY DEF IInv, StreamsInOrder, Offer
    <3> HIDE DEF old, new
    <3>4. /\ DOMAIN old = 1 .. Len(old) /\ DOMAIN new = 1 .. Len(old) + 1
          /\ Len(old) \in Nat
      BY <3>2, LenProperties
    <3>5. Ordered(new)
      <4> SUFFICES ASSUME NEW j \in 1 .. Len(old) + 1, NEW k \in 1 .. Len(old) + 1,
                          j < k, new[j].from = new[k].from
                   PROVE  new[j].number < new[k].number
        BY <3>4 DEF Ordered
      <4>1. CASE k = Len(old) + 1
        <5>1. j \in DOMAIN old /\ new[j] = old[j] /\ new[k] = m
          BY <3>2, <3>4, <4>1
        <5>2. old[j].from = p
          BY <1>1, <5>1
        <5> QED
          BY <1>1, <3>3, <5>1, <5>2 DEF NotYet
      <4>2. CASE k # Len(old) + 1
        BY <3>2, <3>3, <3>4, <4>2 DEF Ordered
      <4> QED
        BY <4>1, <4>2
    <3>6. Reached(new)
      BY <1>1, <3>2, <3>3, <3>4 DEF Reached
    <3>7. ASSUME NEW q \in Publishers, s \in sending'[q].todo
          PROVE  NotYet(new, q)
      BY <1>1, <1>2, <3>2, <3>3, <3>4, <3>7 DEF NotYet
    <3> QED
      BY <3>1, <3>5, <3>6, <3>7 DEF Ordered, Reached, NotYet
  <2>5. StreamsInOrder'
    BY <2>3, <2>4 DEF StreamsInOrder
  <2> QED
    BY <1>3, <2>2, <2>5 DEF IInv
<1> QED
  BY <1>4, <1>5 DEF Offer, m

\* A Publish that returns has offered its signal to everybody.
LEMMA PublishReturnsIInv ==
    ASSUME IInv, NEW p \in Publishers, PublishReturns(p)
    PROVE  IInv'
<1>1. /\ sending' \in [Publishers -> [active : BOOLEAN, todo : SUBSET Subs]]
      /\ sending'[p].todo = {}
      /\ \A q \in Publishers \ {p} : sending'[q] = sending[q]
  <2>1. Quiet \in [active : BOOLEAN, todo : SUBSET Subs] /\ Quiet.todo = {}
    BY DEF Quiet
  <2> QED
    BY <2>1 DEF PublishReturns, IInv, TypeOK
<1>2. StreamsInOrder'
  BY <1>1, StreamsUnchanged DEF PublishReturns, IInv
<1>3. TypeOK' /\ Started'
  BY <1>1 DEF PublishReturns, IInv, TypeOK, Started
<1>4. OffersAreKnown' /\ KnownAreOpen' /\ WaitingAreOpen' /\ PanicNeedsClose'
  BY <1>1 DEF PublishReturns, IInv, OffersAreKnown, KnownAreOpen, WaitingAreOpen,
              PanicNeedsClose
<1> QED
  BY <1>2, <1>3, <1>4 DEF IInv

\* Who holds the write lock finds nothing left to offer.
LEMMA LockedNothingOffered ==
    ASSUME IInv, WriteLock
    PROVE  \A p \in Publishers : sending[p].todo = {}
  BY DEF IInv, OffersAreKnown, WriteLock

\* Subscribe opens a channel nobody has closed, or hands out a closed one.
LEMMA SubscribeIInv ==
    ASSUME IInv, NEW s \in Subs, Subscribe(s)
    PROVE  IInv'
<1>1. \A p \in Publishers : sending[p].todo = {}
  BY LockedNothingOffered DEF Subscribe
<1>2. StreamsInOrder'
  BY StreamsUnchanged DEF Subscribe, IInv
<1>3. TypeOK' /\ Started'
  <2>1. TypeOK'
    <3>1. CASE closed
      BY <3>1 DEF Subscribe, IInv, TypeOK
    <3>2. CASE ~closed
      <4>1. /\ subs' = subs \cup {s}
            /\ chan' = [chan EXCEPT ![s] = "open"]
            /\ watcher' = [watcher EXCEPT ![s] = "waiting"]
        BY <3>2 DEF Subscribe
      <4>2. subs' \subseteq Subs /\ chan' \in [Subs -> {"none", "open", "closed"}]
        BY <4>1 DEF IInv, TypeOK
      <4> QED
        BY <4>1, <4>2 DEF Subscribe, IInv, TypeOK
    <3> QED
      BY <3>1, <3>2
  <2>2. Started'
    BY DEF Subscribe, IInv, Started
  <2> QED
    BY <2>1, <2>2
<1>4. OffersAreKnown' /\ PanicNeedsClose'
  BY <1>1 DEF Subscribe, IInv, OffersAreKnown, PanicNeedsClose
<1>5. KnownAreOpen' /\ WaitingAreOpen'
  <2>1. chan[s] = "none" /\ s \notin subs
    BY DEF Subscribe, IInv, KnownAreOpen
  <2>2. CASE closed
    <3>1. subs' = subs /\ closed' /\ chan' = [chan EXCEPT ![s] = "closed"]
      BY <2>2 DEF Subscribe
    <3> QED
      BY <2>1, <3>1 DEF IInv, TypeOK, KnownAreOpen, WaitingAreOpen
  <2>3. CASE ~closed
    <3>1. /\ subs' = subs \cup {s}
          /\ chan' = [chan EXCEPT ![s] = "open"]
          /\ watcher' = [watcher EXCEPT ![s] = "waiting"]
      BY <2>3 DEF Subscribe
    <3> QED
      BY <2>3, <3>1 DEF IInv, TypeOK, KnownAreOpen, WaitingAreOpen
  <2> QED
    BY <2>2, <2>3
<1> QED
  BY <1>2, <1>3, <1>4, <1>5 DEF IInv

\* The closing goroutine finds its channel open unless Close came first.
LEMMA WatcherClosesIInv ==
    ASSUME IInv, NEW s \in Subs, WatcherCloses(s)
    PROVE  IInv'
<1>1. \A p \in Publishers : sending[p].todo = {}
  BY LockedNothingOffered DEF WatcherCloses
<1>2. StreamsInOrder'
  BY StreamsUnchanged DEF WatcherCloses, IInv
<1>3. TypeOK' /\ Started'
  BY DEF WatcherCloses, IInv, TypeOK, Started
<1>4. OffersAreKnown'
  BY <1>1 DEF WatcherCloses, OffersAreKnown
<1>5. PanicNeedsClose'
  BY DEF WatcherCloses, IInv, WaitingAreOpen, PanicNeedsClose
<1>6. KnownAreOpen' /\ WaitingAreOpen'
  BY DEF WatcherCloses, IInv, TypeOK, KnownAreOpen, WaitingAreOpen
<1> QED
  BY <1>2, <1>3, <1>4, <1>5, <1>6 DEF IInv

\* Close leaves no subscription to offer to.
LEMMA CloseIInv ==
    ASSUME IInv, Close
    PROVE  IInv'
<1>1. \A p \in Publishers : sending[p].todo = {}
  BY LockedNothingOffered DEF Close
<1>2. StreamsInOrder'
  BY StreamsUnchanged DEF Close, IInv
<1>3. TypeOK' /\ Started'
  BY DEF Close, IInv, TypeOK, Started
<1>4. OffersAreKnown' /\ KnownAreOpen' /\ WaitingAreOpen' /\ PanicNeedsClose'
  BY <1>1 DEF Close, OffersAreKnown, KnownAreOpen, WaitingAreOpen, PanicNeedsClose
<1> QED
  BY <1>2, <1>3, <1>4 DEF IInv

\* The loop moves the head of the buffer behind what it has handled.
LEMMA ReceiveIInv ==
    ASSUME IInv, NEW s \in Subs, Receive(s)
    PROVE  IInv'
<1>1. /\ handled \in [Subs -> Seq(Signal)] /\ queue \in [Subs -> Seq(Signal)]
      /\ queue[s] # << >>
      /\ handled' = [handled EXCEPT ![s] = Append(handled[s], Head(queue[s]))]
      /\ queue' = [queue EXCEPT ![s] = Tail(queue[s])]
  BY DEF IInv, TypeOK, Receive
<1>2. /\ Append(handled[s], Head(queue[s])) \in Seq(Signal)
      /\ Tail(queue[s]) \in Seq(Signal)
      /\ Append(handled[s], Head(queue[s])) \o Tail(queue[s]) = handled[s] \o queue[s]
  BY <1>1, ReceiveKeepsStream
<1>3. \A r \in Subs : Stream(r)' = Stream(r)
  BY <1>1, <1>2 DEF Stream
<1>4. StreamsInOrder'
  BY <1>3 DEF Receive, IInv, StreamsInOrder, Ordered, Reached, NotYet
<1>5. handled' \in [Subs -> Seq(Signal)] /\ queue' \in [Subs -> Seq(Signal)]
  BY <1>1, <1>2
<1>6. TypeOK' /\ Started'
  BY <1>5 DEF Receive, IInv, TypeOK, Started
<1>7. OffersAreKnown' /\ KnownAreOpen' /\ WaitingAreOpen' /\ PanicNeedsClose'
  BY DEF Receive, IInv, OffersAreKnown, KnownAreOpen, WaitingAreOpen, PanicNeedsClose
<1> QED
  BY <1>4, <1>6, <1>7 DEF IInv

\* Cancelling a context and leaving the loop touch neither channel nor bus.
LEMMA CancelIInv ==
    ASSUME IInv, NEW s \in Subs, Cancel(s) \/ LoopReturns(s)
    PROVE  IInv'
<1>1. StreamsInOrder'
  BY StreamsUnchanged DEF Cancel, LoopReturns, IInv
<1>2. TypeOK' /\ Started'
  <2>1. CASE Cancel(s)
    BY <2>1 DEF Cancel, IInv, TypeOK, Started
  <2>2. CASE LoopReturns(s)
    BY <2>2 DEF LoopReturns, IInv, TypeOK, Started
  <2> QED
    BY <2>1, <2>2
<1>3. OffersAreKnown' /\ KnownAreOpen' /\ WaitingAreOpen' /\ PanicNeedsClose'
  BY DEF Cancel, LoopReturns, IInv, OffersAreKnown, KnownAreOpen, WaitingAreOpen,
         PanicNeedsClose
<1> QED
  BY <1>1, <1>2, <1>3 DEF IInv

\* The inductive invariant holds in every state.
THEOREM Inductive == Spec => []IInv
<1>1. Init => IInv
  BY InitIInv
<1>2. IInv /\ [Next]_vars => IInv'
  <2> SUFFICES ASSUME IInv, [Next]_vars PROVE IInv'
    OBVIOUS
  <2>1. CASE UNCHANGED vars
    <3>1. StreamsInOrder'
      BY <2>1, StreamsUnchanged DEF vars, IInv
    <3>2. TypeOK' /\ Started'
      BY <2>1 DEF vars, IInv, TypeOK, Started
    <3>3. OffersAreKnown' /\ KnownAreOpen' /\ WaitingAreOpen' /\ PanicNeedsClose'
      BY <2>1 DEF vars, IInv, OffersAreKnown, KnownAreOpen, WaitingAreOpen, PanicNeedsClose
    <3> QED
      BY <3>1, <3>2, <3>3 DEF IInv
  <2>2. CASE Next
    BY <2>2, PublishIInv, OfferIInv, PublishReturnsIInv, SubscribeIInv, CancelIInv,
       WatcherClosesIInv, ReceiveIInv, CloseIInv DEF Next
  <2> QED
    BY <2>1, <2>2
<1> QED
  BY <1>1, <1>2, PTL DEF Spec

-----------------------------------------------------------------------------
(* The theorems *)

\* Every variable keeps its type: no channel is nil, no number passes its bound.
THEOREM TypeCorrect == Spec => []TypeOK
<1>1. IInv => TypeOK
  BY DEF IInv
<1> QED
  BY <1>1, Inductive, PTL

\* Publish (bus.go) never sends on a closed channel, however many publishers,
\* subscriptions and cancellations there are.
THEOREM NoSendOnClosed == Spec => []SendsToOpenChannels
<1>1. IInv => SendsToOpenChannels
  BY DEF IInv, OffersAreKnown, KnownAreOpen, SendsToOpenChannels
<1> QED
  BY <1>1, Inductive, PTL

\* Without MemoryEventBus.Close no channel is closed twice.
THEOREM OnlyCloseCanPanic == Spec => []PanicNeedsClose
<1>1. IInv => PanicNeedsClose
  BY DEF IInv
<1> QED
  BY <1>1, Inductive, PTL

\* A subscriber sees the signals of each publisher in the order of their
\* publication, none twice, for every buffer size.
THEOREM OrderKept == Spec => []InPublishedOrder
<1>1. IInv => InPublishedOrder
  BY DEF IInv, StreamsInOrder, Ordered, InPublishedOrder
<1> QED
  BY <1>1, Inductive, PTL
=============================================================================
