------------------------- MODULE ConversationProofs -------------------------
(***************************************************************************)
(* Proofs about Conversation, for any number of prompts, summaries,        *)
(* messages and faults.                                                    *)
(***************************************************************************)
EXTENDS Conversation, TLAPS, SequenceTheorems

-----------------------------------------------------------------------------
(* The inductive invariant *)

\* Phases in which the calls of the run's message wait for their results,
\* in which the message of a response is the run's own, and in which the run
\* has its prompt in the history.
Pending == {"usage", "save", "check", "delegate", "results"}
Writing == Pending \cup {"stream"}
Prompted == Writing \cup {"iterate", "create"}

RowTypes == /\ row \in Row /\ held \in [Writers -> Row]
            /\ charges \in Nat /\ duringTitle \in Nat
RunTypes == run \in [Runs -> RunState]
SummaryTypes == summary \in [Summaries -> SummaryState]
OtherTypes == /\ activeRun \in {0} \cup Runs /\ activeSummary \in {0} \cup Summaries
              /\ title \in [Runs -> {"none", "started", "asked", "over"}]
              /\ alone \in BOOLEAN /\ faults \in Nat

\* The places a run, or the list of severed messages, speaks of exist.
MessageTypes ==
    /\ messages \in Seq(Message)
    /\ severed \subseteq 1..Len(messages)
    /\ \A r \in Runs : /\ \A i \in 1..Len(run[r].history) : run[r].history[i] \in 1..Len(messages)
                       /\ run[r].message \in 0..Len(messages)

Types == RowTypes /\ RunTypes /\ SummaryTypes /\ OtherTypes /\ MessageTypes

\* What kind of message has calls, and what kind has answers.
RolesOK ==
    \A i \in 1..Len(messages) :
        /\ messages[i].calls => messages[i].role = "assistant"
        /\ messages[i].answers # 0 => messages[i].role = "tool"

\* The run's message is an assistant's.
CurrentOK ==
    \A r \in Runs : run[r].at \in Writing =>
        /\ run[r].message \in 1..Len(messages)
        /\ messages[run[r].message].role = "assistant"

\* No cost is invented.
CostBound ==
    /\ row.cost <= charges /\ duringTitle <= charges
    /\ \A w \in Writers : held[w].cost <= charges

\* A run of c completed responses has its prompt in its history h, and after it
\* a message of the model and its results for each of them.
Role(i) == messages[i].role
First(h, c) == Len(h) - 2 * c

Own(h, c) ==
    /\ c \in Nat /\ First(h, c) >= 1
    /\ Role(h[First(h, c)]) = "user"
    /\ \A j \in 1..c :
          /\ Role(h[First(h, c) + 2 * j - 1]) = "assistant"
          /\ Role(h[First(h, c) + 2 * j]) = "tool"
          /\ messages[h[First(h, c) + 2 * j]].answers = h[First(h, c) + 2 * j - 1]

Completed(r) == IF run[r].at = "iterate" THEN run[r].responses ELSE run[r].responses - 1

OwnOK ==
    \A r \in Runs :
        /\ run[r].at \in Prompted => Own(run[r].history, Completed(r))
        /\ run[r].at \in {"idle", "list", "session", "prompt"} => run[r].responses = 0

\* Phases of a summary before its message is stored.
Unstored == {"idle", "list", "model", "session", "create"}

\* A summary that was stored is a message that follows what it summarizes, and
\* every row names one of these or none.
Stored(k) == summary[k].message # 0
Names == {0} \cup {summary[k].message : k \in Summaries}

PlacesOK ==
    \A k \in Summaries :
        /\ Stored(k) => /\ summary[k].message \in 1..Len(messages)
                        /\ Role(summary[k].message) = "summary"
                        /\ summary[k].saw < summary[k].message
        /\ summary[k].at = "save" => Stored(k)
        /\ summary[k].at \in Unstored => ~Stored(k)
        /\ summary[k].saw <= Len(messages)

NamesOK ==
    /\ row.summaryMessage \in Names
    /\ \A w \in Writers : held[w].summaryMessage \in Names

SummariesOK == PlacesOK /\ NamesOK

Base == Types /\ RolesOK /\ CurrentOK /\ CostBound /\ OwnOK /\ SummariesOK

\* What a session has that was never asked for two things at once.  Only one
\* request is under way.
OneAtATime ==
    /\ \A r, q \in Runs : RunGoes(r) /\ RunGoes(q) => r = q
    /\ \A k, l \in Summaries : SummaryGoes(k) /\ SummaryGoes(l) => k = l
    /\ \A r \in Runs, k \in Summaries : ~(RunGoes(r) /\ SummaryGoes(k))

\* Whoever will write the row has all the charges in the copy it read, except
\* for those that a title generator may undo.
CostsKept ==
    /\ charges <= row.cost + duringTitle
    /\ \A r \in Runs : run[r].at \in {"save", "delegate"} =>
          charges <= held[RunOf(r)].cost + duringTitle
    /\ \A r \in Runs : title[r] = "asked" => charges <= held[TitleOf(r)].cost + duringTitle
    /\ \A k \in Summaries : summary[k].at \in {"create", "save"} =>
          charges <= held[SummaryOf(k)].cost + duringTitle

\* The history of a run is the list from the first message, or from a summary.
Interval(a, b) == [i \in 1..(b - a + 1) |-> a + i - 1]
UpTo(h, n) == \E s \in 1..(n + 1) : s \in {1} \cup Names /\ h = Interval(s, n)

HistoryKept(r) ==
    /\ run[r].at = "session" => run[r].history = Interval(1, Len(messages))
    /\ run[r].at \in {"prompt", "iterate", "create"} => UpTo(run[r].history, Len(messages))
    /\ run[r].at \in Writing => /\ run[r].message = Len(messages)
                                /\ UpTo(run[r].history, Len(messages) - 1)
    /\ run[r].at = "stream" => ~messages[run[r].message].calls

HistoriesKept == \A r \in Runs : HistoryKept(r)

\* A call is answered by the next message, or is about to be, or never will.
CallsKept ==
    \A i \in 1..Len(messages) :
        /\ messages[i].calls =>
              \/ i \in severed
              \/ i < Len(messages) /\ messages[i + 1].answers = i
              \/ \E r \in Runs : run[r].at \in Pending /\ run[r].message = i
        /\ messages[i].role = "tool" => i > 1 /\ messages[i].answers = i - 1

\* A summary follows what it summarizes at once.
SummariesKept ==
    \A k \in Summaries :
        /\ summary[k].at \in {"model", "session", "create"} => summary[k].saw = Len(messages)
        /\ Stored(k) => summary[k].saw + 1 = summary[k].message

Kept == OneAtATime /\ CostsKept /\ HistoriesKept /\ CallsKept /\ SummariesKept

IInv == Base /\ (alone => Kept)

-----------------------------------------------------------------------------
(* What the steps do to the messages and to the row *)

\* A stored message comes last and changes no other.
LEMMA Stores ==
    ASSUME messages \in Seq(Message), NEW role \in {"user", "assistant", "tool", "summary"},
           NEW answers \in Nat, Append1(role, answers)
    PROVE  /\ messages' \in Seq(Message)
           /\ Len(messages') = Len(messages) + 1
           /\ \A i \in 1..Len(messages) : messages'[i] = messages[i]
           /\ messages'[Len(messages) + 1].role = role
           /\ messages'[Len(messages) + 1].calls = FALSE
           /\ messages'[Len(messages) + 1].answers = answers
<1> DEFINE m == [role |-> role, calls |-> FALSE, answers |-> answers]
<1>1. m \in Message /\ m.role = role /\ m.calls = FALSE /\ m.answers = answers
  BY DEF Message
<1>2. messages' = Append(messages, m)
  BY DEF Append1
<1> HIDE DEF m
<1> QED
  BY <1>1, <1>2, AppendProperties

\* A message that is updated changes its calls only.
LEMMA Updates ==
    ASSUME messages \in Seq(Message), NEW m \in 1..Len(messages), NEW c \in BOOLEAN,
           messages' = [messages EXCEPT ![m].calls = c]
    PROVE  /\ messages' \in Seq(Message)
           /\ Len(messages') = Len(messages)
           /\ \A i \in 1..Len(messages) : /\ messages'[i].role = messages[i].role
                                          /\ messages'[i].answers = messages[i].answers
                                          /\ i # m => messages'[i] = messages[i]
           /\ messages'[m].calls = c
<1> DEFINE new == [messages[m] EXCEPT !.calls = c]
<1>1. messages[m] \in Message /\ \A i \in 1..Len(messages) : messages[i] \in Message
  BY ElementOfSeq, LenProperties
<1>2. new \in Message /\ new.role = messages[m].role /\ new.answers = messages[m].answers
      /\ new.calls = c
  BY <1>1 DEF Message
<1>3. messages' = [messages EXCEPT ![m] = new]
  OBVIOUS
<1> HIDE DEF new
<1>4. /\ messages' \in Seq(Message) /\ Len(messages') = Len(messages)
      /\ \A i \in 1..Len(messages) : messages'[i] = IF i = m THEN new ELSE messages[i]
  BY <1>2, <1>3, ExceptSeq, LenProperties
<1> QED
  BY <1>2, <1>4, LenProperties

\* The three kinds of writers do not meet.
LEMMA WritersDiffer ==
    /\ \A r \in Runs : RunOf(r) \in Writers /\ TitleOf(r) \in Writers
    /\ \A k \in Summaries : SummaryOf(k) \in Writers
    /\ \A r, q \in Runs : /\ RunOf(r) # TitleOf(q)
                          /\ r # q => RunOf(r) # RunOf(q) /\ TitleOf(r) # TitleOf(q)
    /\ \A r \in Runs, k \in Summaries : RunOf(r) # SummaryOf(k) /\ TitleOf(r) # SummaryOf(k)
    /\ \A k, l \in Summaries : k # l => SummaryOf(k) # SummaryOf(l)
  BY DEF RunOf, TitleOf, SummaryOf, Writers


-----------------------------------------------------------------------------
(* Histories as sequences of places *)

\* The list, as places.
LEMMA ListIsInterval ==
    ASSUME NEW n \in Nat
    PROVE  /\ [i \in 1..n |-> i] \in Seq(Nat) /\ Len([i \in 1..n |-> i]) = n
           /\ \A i \in 1..n : [j \in 1..n |-> j][i] = i
  OBVIOUS

\* What the model is shown is an end of the list, or the whole list.
LEMMA FromSummaryIsEnd ==
    ASSUME NEW h \in Seq(Nat), NEW s \in Nat
    PROVE  /\ FromSummary(h, s) \in Seq(Nat)
           /\ s \in 1..Len(h) =>
                 /\ Len(FromSummary(h, s)) = Len(h) - s + 1
                 /\ \A i \in 1..(Len(h) - s + 1) : FromSummary(h, s)[i] = h[s + i - 1]
           /\ s \notin 1..Len(h) => FromSummary(h, s) = h
<1>1. DOMAIN h = 1..Len(h) /\ Len(h) \in Nat /\ \A i \in 1..Len(h) : h[i] \in Nat
  BY LenProperties, ElementOfSeq
<1>2. CASE s \notin 1..Len(h)
  BY <1>1, <1>2 DEF FromSummary
<1>3. CASE s \in 1..Len(h)
  <2> DEFINE n == Len(h) - s + 1
             g == [i \in 1..n |-> h[s + i - 1]]
  <2>1. n \in Nat /\ \A i \in 1..n : s + i - 1 \in 1..Len(h)
    BY <1>1, <1>3
  <2>2. g \in Seq(Nat) /\ Len(g) = n
    BY <1>1, <2>1
  <2>3. FromSummary(h, s) = g
    BY <1>1, <1>3 DEF FromSummary
  <2> QED
    BY <1>3, <2>2, <2>3
<1> QED
  BY <1>2, <1>3

-----------------------------------------------------------------------------
(* Every variable keeps its shape *)

\* A goroutine that ends has no history.
LEMMA OverIsState ==
    /\ Over \in RunState /\ Over.at = "over" /\ Over.history = << >> /\ Over.message = 0
    /\ Over.responses = 0
<1>1. Unstarted \in RunState /\ Unstarted.history = << >> /\ Unstarted.message = 0
      /\ Unstarted.responses = 0
  BY DEF Unstarted, RunState, RunPhases
<1>2. Over = [Unstarted EXCEPT !.at = "over"]
  BY DEF Over
<1> QED
  BY <1>1, <1>2 DEF RunState, RunPhases

\* A charge is saved as a whole row.
LEMMA SavesARow ==
    ASSUME RowTypes, NEW w \in Writers, NEW new \in Row, SaveCharge(w, new)
    PROVE  RowTypes'
<1>1. charges + 1 \in Nat /\ duringTitle + 1 \in Nat /\ NoRow \in Row
  BY DEF RowTypes, NoRow, Row
<1> QED
  BY <1>1 DEF SaveCharge, Drop, RowTypes

\* A run goes on with another history, another message, another response.
WithHistory(r, at, h) == run' = [run EXCEPT ![r].at = at, ![r].history = h]
WithMessage(r, at, m) == run' = [run EXCEPT ![r].at = at, ![r].message = m]
WithResponses(r, at, n) == run' = [run EXCEPT ![r].at = at, ![r].responses = n]

\* What the steps of a run make of its record.
LEMMA RunBecomes ==
    ASSUME RunTypes, NEW r \in Runs, NEW new \in RunState, run' = [run EXCEPT ![r] = new]
    PROVE  /\ RunTypes'
           /\ run'[r] = new
           /\ \A q \in Runs : q # r => run'[q] = run[q]
  BY DEF RunTypes

LEMMA GotoBecomes ==
    ASSUME RunTypes, NEW r \in Runs, NEW at \in RunPhases, Goto(r, at)
    PROVE  /\ RunTypes'
           /\ run'[r].at = at /\ run'[r].history = run[r].history
           /\ run'[r].message = run[r].message /\ run'[r].cancelled = run[r].cancelled
           /\ run'[r].responses = run[r].responses
           /\ \A q \in Runs : q # r => run'[q] = run[q]
<1> PICK new : new = [run[r] EXCEPT !.at = at]
  OBVIOUS
<1>1. run[r] \in RunState
  BY DEF RunTypes
<1>2. /\ new \in RunState
      /\ new.at = at /\ new.history = run[r].history /\ new.message = run[r].message
      /\ new.cancelled = run[r].cancelled /\ new.responses = run[r].responses
  BY <1>1 DEF RunState
<1>3. run' = [run EXCEPT ![r] = new]
  BY DEF Goto
<1>4. RunTypes' /\ run'[r] = new /\ \A q \in Runs : q # r => run'[q] = run[q]
  BY <1>2, <1>3, RunBecomes
<1> QED
  BY <1>2, <1>4

\* As to the phase, whatever else is written with it.
LEMMA HistoryAt ==
    ASSUME RunTypes, NEW r \in Runs, NEW at, NEW h, WithHistory(r, at, h)
    PROVE  run'[r].at = at /\ run'[r].history = h /\ \A q \in Runs : q # r => run'[q] = run[q]
<1> PICK new : new = [[run[r] EXCEPT !.at = at] EXCEPT !.history = h]
  OBVIOUS
<1>1. new.at = at /\ new.history = h
  <2>1. run[r] \in RunState
    BY DEF RunTypes
  <2> QED
    BY <2>1 DEF RunState
<1>2. run' = [run EXCEPT ![r] = new]
  BY DEF RunTypes, WithHistory
<1> QED
  BY <1>1, <1>2 DEF RunTypes

LEMMA MessageAt ==
    ASSUME RunTypes, NEW r \in Runs, NEW at, NEW m, WithMessage(r, at, m)
    PROVE  run'[r].at = at /\ \A q \in Runs : q # r => run'[q] = run[q]
<1> PICK new : new = [[run[r] EXCEPT !.at = at] EXCEPT !.message = m]
  OBVIOUS
<1>1. new.at = at
  <2>1. run[r] \in RunState
    BY DEF RunTypes
  <2> QED
    BY <2>1 DEF RunState
<1>2. run' = [run EXCEPT ![r] = new]
  BY DEF RunTypes, WithMessage
<1> QED
  BY <1>1, <1>2 DEF RunTypes

LEMMA ResponsesAt ==
    ASSUME RunTypes, NEW r \in Runs, NEW at, NEW n, WithResponses(r, at, n)
    PROVE  run'[r].at = at /\ \A q \in Runs : q # r => run'[q] = run[q]
<1> PICK new : new = [[run[r] EXCEPT !.at = at] EXCEPT !.responses = n]
  OBVIOUS
<1>1. new.at = at
  <2>1. run[r] \in RunState
    BY DEF RunTypes
  <2> QED
    BY <2>1 DEF RunState
<1>2. run' = [run EXCEPT ![r] = new]
  BY DEF RunTypes, WithResponses
<1> QED
  BY <1>1, <1>2 DEF RunTypes

LEMMA GotoAt ==
    ASSUME RunTypes, NEW r \in Runs, NEW at, Goto(r, at)
    PROVE  run'[r].at = at /\ \A q \in Runs : q # r => run'[q] = run[q]
  BY DEF RunTypes, RunState, Goto

LEMMA HistoryBecomes ==
    ASSUME RunTypes, NEW r \in Runs, NEW at \in RunPhases, NEW h \in Seq(Nat),
           WithHistory(r, at, h)
    PROVE  /\ RunTypes'
           /\ run'[r].at = at /\ run'[r].history = h
           /\ run'[r].message = run[r].message /\ run'[r].cancelled = run[r].cancelled
           /\ run'[r].responses = run[r].responses
           /\ \A q \in Runs : q # r => run'[q] = run[q]
<1> PICK new : new = [[run[r] EXCEPT !.at = at] EXCEPT !.history = h]
  OBVIOUS
<1>1. run[r] \in RunState
  BY DEF RunTypes
<1>2. /\ new \in RunState
      /\ new.at = at /\ new.history = h /\ new.message = run[r].message
      /\ new.cancelled = run[r].cancelled /\ new.responses = run[r].responses
  BY <1>1 DEF RunState
<1>3. run' = [run EXCEPT ![r] = new]
  BY DEF RunTypes, WithHistory
<1>4. RunTypes' /\ run'[r] = new /\ \A q \in Runs : q # r => run'[q] = run[q]
  BY <1>2, <1>3, RunBecomes
<1> QED
  BY <1>2, <1>4

LEMMA MessageBecomes ==
    ASSUME RunTypes, NEW r \in Runs, NEW at \in RunPhases, NEW m \in Nat,
           WithMessage(r, at, m)
    PROVE  /\ RunTypes'
           /\ run'[r].at = at /\ run'[r].message = m
           /\ run'[r].history = run[r].history /\ run'[r].cancelled = run[r].cancelled
           /\ run'[r].responses = run[r].responses
           /\ \A q \in Runs : q # r => run'[q] = run[q]
<1> PICK new : new = [[run[r] EXCEPT !.at = at] EXCEPT !.message = m]
  OBVIOUS
<1>1. run[r] \in RunState
  BY DEF RunTypes
<1>2. /\ new \in RunState
      /\ new.at = at /\ new.message = m /\ new.history = run[r].history
      /\ new.cancelled = run[r].cancelled /\ new.responses = run[r].responses
  BY <1>1 DEF RunState
<1>3. run' = [run EXCEPT ![r] = new]
  BY DEF RunTypes, WithMessage
<1>4. RunTypes' /\ run'[r] = new /\ \A q \in Runs : q # r => run'[q] = run[q]
  BY <1>2, <1>3, RunBecomes
<1> QED
  BY <1>2, <1>4

\* Runs keep their shape.
LEMMA RunTypesKept ==
    ASSUME RunTypes, RowTypes, messages \in Seq(Message), [Next]_vars
    PROVE  RunTypes'
<1> USE DEF Get, Drop, SaveCharge, saved, rowVars, requestVars
<1>1. ASSUME Cancel PROVE RunTypes'
  <2>1. \A r \in Runs : run[r] \in RunState /\ [run[r] EXCEPT !.cancelled = TRUE] \in RunState
    BY DEF RunTypes, RunState
  <2> QED
    BY <1>1, <2>1 DEF Cancel, RunTypes
<1>2. ASSUME Crash PROVE RunTypes'
  BY <1>2, OverIsState DEF Crash, RunTypes, RunState, RunPhases, Goto
<1>3. ASSUME NEW r \in Runs, Send(r) PROVE RunTypes'
  BY <1>3, GotoBecomes DEF Send, RunPhases
<1>4. ASSUME NEW r \in Runs, GiveUp(r) PROVE RunTypes'
  BY <1>4, GotoBecomes DEF GiveUp, RunPhases
<1>5. ASSUME NEW r \in Runs, ListMessages(r) PROVE RunTypes'
  <2> DEFINE h == [i \in 1..Len(messages) |-> i]
  <2>1. h \in Seq(Nat)
    BY ListIsInterval, LenProperties
  <2>2. WithHistory(r, "session", h)
    BY <1>5 DEF ListMessages, WithHistory
  <2> HIDE DEF h
  <2> QED
    BY <2>1, <2>2, HistoryBecomes DEF RunPhases
<1>6. ASSUME NEW r \in Runs, GetSession(r) PROVE RunTypes'
  <2>1. run[r].history \in Seq(Nat) /\ row.summaryMessage \in Nat
    BY DEF RunTypes, RunState, RowTypes, Row
  <2>2. FromSummary(run[r].history, row.summaryMessage) \in Seq(Nat)
    BY <2>1, FromSummaryIsEnd
  <2>3. WithHistory(r, "prompt", FromSummary(run[r].history, row.summaryMessage))
    BY <1>6 DEF GetSession, WithHistory
  <2> QED
    BY <2>2, <2>3, HistoryBecomes DEF RunPhases
<1>7. ASSUME NEW r \in Runs, CreateUserMessage(r) PROVE RunTypes'
  <2>1. run[r].history \in Seq(Nat) /\ Len(messages) + 1 \in Nat
    BY LenProperties DEF RunTypes, RunState
  <2>2. Append(run[r].history, Len(messages) + 1) \in Seq(Nat)
    BY <2>1, AppendProperties
  <2>3. WithHistory(r, "iterate", Append(run[r].history, Len(messages) + 1))
    BY <1>7 DEF CreateUserMessage, WithHistory
  <2> QED
    BY <2>2, <2>3, HistoryBecomes DEF RunPhases
<1>8. ASSUME NEW r \in Runs, Iterate(r) PROVE RunTypes'
  BY <1>8 DEF Iterate, RunTypes, RunState, RunPhases, Goto
<1>9. ASSUME NEW r \in Runs, CreateAssistantMessage(r) PROVE RunTypes'
  <2>1. Len(messages) + 1 \in Nat
    BY LenProperties
  <2>2. WithMessage(r, "stream", Len(messages) + 1)
    BY <1>9 DEF CreateAssistantMessage, WithMessage
  <2> QED
    BY <2>1, <2>2, MessageBecomes DEF RunPhases
<1>10. ASSUME NEW r \in Runs, StreamBreaks(r) PROVE RunTypes'
  BY <1>10, GotoBecomes DEF StreamBreaks, RunPhases
<1>11. ASSUME NEW r \in Runs, StreamCompletes(r) PROVE RunTypes'
  BY <1>11, GotoBecomes DEF StreamCompletes, RunPhases
<1>12. ASSUME NEW r \in Runs, TrackUsageReads(r) PROVE RunTypes'
  BY <1>12, GotoBecomes DEF TrackUsageReads, RunPhases
<1>13. ASSUME NEW r \in Runs, TrackUsageSaves(r) PROVE RunTypes'
  BY <1>13, GotoBecomes DEF TrackUsageSaves, RunPhases
<1>14. ASSUME NEW r \in Runs, CallTools(r) PROVE RunTypes'
  BY <1>14, GotoBecomes DEF CallTools, RunPhases
<1>15. ASSUME NEW r \in Runs, DelegateReads(r) PROVE RunTypes'
  BY <1>15, GotoBecomes DEF DelegateReads, RunPhases
<1>16. ASSUME NEW r \in Runs, DelegateSaves(r) PROVE RunTypes'
  BY <1>16, GotoBecomes DEF DelegateSaves, RunPhases
<1>17. ASSUME NEW r \in Runs, CreateToolMessage(r) PROVE RunTypes'
  <2> DEFINE more == <<run[r].message, Len(messages) + 1>>
  <2>1. run[r].history \in Seq(Nat) /\ more \in Seq(Nat)
    BY LenProperties DEF RunTypes, RunState
  <2>2. run[r].history \o more \in Seq(Nat)
    BY <2>1, ConcatProperties
  <2>3. CASE run' = [run EXCEPT ![r].at = "iterate", ![r].history = @ \o more]
    <3>1. WithHistory(r, "iterate", run[r].history \o more)
      BY <2>3 DEF WithHistory
    <3> HIDE DEF more
    <3> QED
      BY <2>2, <3>1, HistoryBecomes DEF RunPhases
  <2>4. CASE Goto(r, "end")
    BY <2>4, GotoBecomes DEF RunPhases
  <2> QED
    BY <1>17, <2>3, <2>4 DEF CreateToolMessage
<1>18. ASSUME NEW r \in Runs, Finish(r) PROVE RunTypes'
  BY <1>18, OverIsState DEF Finish, RunTypes, RunState, RunPhases, Goto
<1>19. ASSUME NEW r \in Runs, TitleReads(r) PROVE RunTypes'
  BY <1>19 DEF TitleReads, RunTypes, RunState, RunPhases, Goto
<1>20. ASSUME NEW r \in Runs, TitleSaves(r) PROVE RunTypes'
  BY <1>20 DEF TitleSaves, RunTypes, RunState, RunPhases, Goto
<1>21. ASSUME NEW r \in Runs, TitleFails(r) PROVE RunTypes'
  BY <1>21 DEF TitleFails, RunTypes, RunState, RunPhases, Goto
<1>22. ASSUME NEW k \in Summaries, Summarize(k) PROVE RunTypes'
  BY <1>22 DEF Summarize, RunTypes, RunState, RunPhases, Goto
<1>23. ASSUME NEW k \in Summaries, SummaryGivesUp(k) PROVE RunTypes'
  BY <1>23 DEF SummaryGivesUp, RunTypes, RunState, RunPhases, Goto
<1>24. ASSUME NEW k \in Summaries, SummaryLists(k) PROVE RunTypes'
  BY <1>24 DEF SummaryLists, RunTypes, RunState, RunPhases, Goto
<1>25. ASSUME NEW k \in Summaries, SummaryAnswered(k) PROVE RunTypes'
  BY <1>25 DEF SummaryAnswered, RunTypes, RunState, RunPhases, Goto
<1>26. ASSUME NEW k \in Summaries, SummaryReads(k) PROVE RunTypes'
  BY <1>26 DEF SummaryReads, RunTypes, RunState, RunPhases, Goto
<1>27. ASSUME NEW k \in Summaries, SummaryCreates(k) PROVE RunTypes'
  BY <1>27 DEF SummaryCreates, RunTypes, RunState, RunPhases, Goto
<1>28. ASSUME NEW k \in Summaries, SummarySaves(k) PROVE RunTypes'
  BY <1>28 DEF SummarySaves, RunTypes, RunState, RunPhases, Goto
<1>29. ASSUME NEW k \in Summaries, SummaryFinishes(k) PROVE RunTypes'
  BY <1>29 DEF SummaryFinishes, RunTypes, RunState, RunPhases, Goto
<1>30. ASSUME UNCHANGED vars PROVE RunTypes'
  BY <1>30 DEF vars, RunTypes, RunState, RunPhases, Goto
<1> QED
  BY <1>1, <1>2, <1>3, <1>4, <1>5, <1>6, <1>7, <1>8, <1>9, <1>10, <1>11, <1>12, <1>13, <1>14, <1>15,
     <1>16, <1>17, <1>18, <1>19, <1>20, <1>21, <1>22, <1>23, <1>24, <1>25, <1>26, <1>27, <1>28, <1>29,
     <1>30
    DEF Next, RunStep, TitleStep, SummaryStep

\* The busy map, the titles and the counters keep their shape.
LEMMA OtherTypesKept ==
    ASSUME OtherTypes, [Next]_vars
    PROVE  OtherTypes'
<1> USE DEF requestVars
<1>1. ASSUME Cancel PROVE OtherTypes'
  BY <1>1 DEF Cancel, OtherTypes
<1>2. ASSUME Crash PROVE OtherTypes'
  BY <1>2 DEF Crash, OtherTypes
<1>3. ASSUME NEW r \in Runs, Send(r) PROVE OtherTypes'
  BY <1>3 DEF Send, OtherTypes
<1>4. ASSUME NEW r \in Runs, GiveUp(r) PROVE OtherTypes'
  BY <1>4 DEF GiveUp, OtherTypes
<1>5. ASSUME NEW r \in Runs, ListMessages(r) PROVE OtherTypes'
  BY <1>5 DEF ListMessages, OtherTypes
<1>6. ASSUME NEW r \in Runs, GetSession(r) PROVE OtherTypes'
  BY <1>6 DEF GetSession, OtherTypes
<1>7. ASSUME NEW r \in Runs, CreateUserMessage(r) PROVE OtherTypes'
  BY <1>7 DEF CreateUserMessage, OtherTypes
<1>8. ASSUME NEW r \in Runs, Iterate(r) PROVE OtherTypes'
  BY <1>8 DEF Iterate, OtherTypes
<1>9. ASSUME NEW r \in Runs, CreateAssistantMessage(r) PROVE OtherTypes'
  BY <1>9 DEF CreateAssistantMessage, OtherTypes
<1>10. ASSUME NEW r \in Runs, StreamBreaks(r) PROVE OtherTypes'
  BY <1>10 DEF StreamBreaks, OtherTypes
<1>11. ASSUME NEW r \in Runs, StreamCompletes(r) PROVE OtherTypes'
  BY <1>11 DEF StreamCompletes, OtherTypes
<1>12. ASSUME NEW r \in Runs, TrackUsageReads(r) PROVE OtherTypes'
  BY <1>12 DEF TrackUsageReads, OtherTypes
<1>13. ASSUME NEW r \in Runs, TrackUsageSaves(r) PROVE OtherTypes'
  BY <1>13 DEF TrackUsageSaves, OtherTypes
<1>14. ASSUME NEW r \in Runs, CallTools(r) PROVE OtherTypes'
  BY <1>14 DEF CallTools, OtherTypes
<1>15. ASSUME NEW r \in Runs, DelegateReads(r) PROVE OtherTypes'
  BY <1>15 DEF DelegateReads, OtherTypes
<1>16. ASSUME NEW r \in Runs, DelegateSaves(r) PROVE OtherTypes'
  BY <1>16 DEF DelegateSaves, OtherTypes
<1>17. ASSUME NEW r \in Runs, CreateToolMessage(r) PROVE OtherTypes'
  BY <1>17 DEF CreateToolMessage, OtherTypes
<1>18. ASSUME NEW r \in Runs, Finish(r) PROVE OtherTypes'
  BY <1>18 DEF Finish, OtherTypes
<1>19. ASSUME NEW r \in Runs, TitleReads(r) PROVE OtherTypes'
  BY <1>19 DEF TitleReads, OtherTypes
<1>20. ASSUME NEW r \in Runs, TitleSaves(r) PROVE OtherTypes'
  BY <1>20 DEF TitleSaves, OtherTypes
<1>21. ASSUME NEW r \in Runs, TitleFails(r) PROVE OtherTypes'
  BY <1>21 DEF TitleFails, OtherTypes
<1>22. ASSUME NEW k \in Summaries, Summarize(k) PROVE OtherTypes'
  BY <1>22 DEF Summarize, OtherTypes
<1>23. ASSUME NEW k \in Summaries, SummaryGivesUp(k) PROVE OtherTypes'
  BY <1>23 DEF SummaryGivesUp, OtherTypes
<1>24. ASSUME NEW k \in Summaries, SummaryLists(k) PROVE OtherTypes'
  BY <1>24 DEF SummaryLists, OtherTypes
<1>25. ASSUME NEW k \in Summaries, SummaryAnswered(k) PROVE OtherTypes'
  BY <1>25 DEF SummaryAnswered, OtherTypes
<1>26. ASSUME NEW k \in Summaries, SummaryReads(k) PROVE OtherTypes'
  BY <1>26 DEF SummaryReads, OtherTypes
<1>27. ASSUME NEW k \in Summaries, SummaryCreates(k) PROVE OtherTypes'
  BY <1>27 DEF SummaryCreates, OtherTypes
<1>28. ASSUME NEW k \in Summaries, SummarySaves(k) PROVE OtherTypes'
  BY <1>28 DEF SummarySaves, OtherTypes
<1>29. ASSUME NEW k \in Summaries, SummaryFinishes(k) PROVE OtherTypes'
  BY <1>29 DEF SummaryFinishes, OtherTypes
<1>30. ASSUME UNCHANGED vars PROVE OtherTypes'
  BY <1>30 DEF vars, OtherTypes
<1> QED
  BY <1>1, <1>2, <1>3, <1>4, <1>5, <1>6, <1>7, <1>8, <1>9, <1>10, <1>11, <1>12, <1>13, <1>14, <1>15,
     <1>16, <1>17, <1>18, <1>19, <1>20, <1>21, <1>22, <1>23, <1>24, <1>25, <1>26, <1>27, <1>28, <1>29,
     <1>30
    DEF Next, RunStep, TitleStep, SummaryStep

\* Summaries keep their shape.
LEMMA SummaryTypesKept ==
    ASSUME SummaryTypes, messages \in Seq(Message), [Next]_vars
    PROVE  SummaryTypes'
<1> USE DEF requestVars
<1>1. ASSUME Cancel PROVE SummaryTypes'
  BY <1>1 DEF Cancel, SummaryTypes, SummaryState, SummaryPhases, SummaryGoto, SummaryOver
<1>2. ASSUME Crash PROVE SummaryTypes'
  BY <1>2 DEF Crash, SummaryTypes, SummaryState, SummaryPhases, SummaryGoto, SummaryOver
<1>3. ASSUME NEW r \in Runs, Send(r) PROVE SummaryTypes'
  BY <1>3 DEF Send, SummaryTypes, SummaryState, SummaryPhases, SummaryGoto, SummaryOver
<1>4. ASSUME NEW r \in Runs, GiveUp(r) PROVE SummaryTypes'
  BY <1>4 DEF GiveUp, SummaryTypes, SummaryState, SummaryPhases, SummaryGoto, SummaryOver
<1>5. ASSUME NEW r \in Runs, ListMessages(r) PROVE SummaryTypes'
  BY <1>5 DEF ListMessages, SummaryTypes, SummaryState, SummaryPhases, SummaryGoto, SummaryOver
<1>6. ASSUME NEW r \in Runs, GetSession(r) PROVE SummaryTypes'
  BY <1>6 DEF GetSession, SummaryTypes, SummaryState, SummaryPhases, SummaryGoto, SummaryOver
<1>7. ASSUME NEW r \in Runs, CreateUserMessage(r) PROVE SummaryTypes'
  BY <1>7 DEF CreateUserMessage, SummaryTypes, SummaryState, SummaryPhases, SummaryGoto, SummaryOver
<1>8. ASSUME NEW r \in Runs, Iterate(r) PROVE SummaryTypes'
  BY <1>8 DEF Iterate, SummaryTypes, SummaryState, SummaryPhases, SummaryGoto, SummaryOver
<1>9. ASSUME NEW r \in Runs, CreateAssistantMessage(r) PROVE SummaryTypes'
  BY <1>9 DEF CreateAssistantMessage, SummaryTypes, SummaryState, SummaryPhases, SummaryGoto, SummaryOver
<1>10. ASSUME NEW r \in Runs, StreamBreaks(r) PROVE SummaryTypes'
  BY <1>10 DEF StreamBreaks, SummaryTypes, SummaryState, SummaryPhases, SummaryGoto, SummaryOver
<1>11. ASSUME NEW r \in Runs, StreamCompletes(r) PROVE SummaryTypes'
  BY <1>11 DEF StreamCompletes, SummaryTypes, SummaryState, SummaryPhases, SummaryGoto, SummaryOver
<1>12. ASSUME NEW r \in Runs, TrackUsageReads(r) PROVE SummaryTypes'
  BY <1>12 DEF TrackUsageReads, SummaryTypes, SummaryState, SummaryPhases, SummaryGoto, SummaryOver
<1>13. ASSUME NEW r \in Runs, TrackUsageSaves(r) PROVE SummaryTypes'
  BY <1>13 DEF TrackUsageSaves, SummaryTypes, SummaryState, SummaryPhases, SummaryGoto, SummaryOver
<1>14. ASSUME NEW r \in Runs, CallTools(r) PROVE SummaryTypes'
  BY <1>14 DEF CallTools, SummaryTypes, SummaryState, SummaryPhases, SummaryGoto, SummaryOver
<1>15. ASSUME NEW r \in Runs, DelegateReads(r) PROVE SummaryTypes'
  BY <1>15 DEF DelegateReads, SummaryTypes, SummaryState, SummaryPhases, SummaryGoto, SummaryOver
<1>16. ASSUME NEW r \in Runs, DelegateSaves(r) PROVE SummaryTypes'
  BY <1>16 DEF DelegateSaves, SummaryTypes, SummaryState, SummaryPhases, SummaryGoto, SummaryOver
<1>17. ASSUME NEW r \in Runs, CreateToolMessage(r) PROVE SummaryTypes'
  BY <1>17 DEF CreateToolMessage, SummaryTypes, SummaryState, SummaryPhases, SummaryGoto, SummaryOver
<1>18. ASSUME NEW r \in Runs, Finish(r) PROVE SummaryTypes'
  BY <1>18 DEF Finish, SummaryTypes, SummaryState, SummaryPhases, SummaryGoto, SummaryOver
<1>19. ASSUME NEW r \in Runs, TitleReads(r) PROVE SummaryTypes'
  BY <1>19 DEF TitleReads, SummaryTypes, SummaryState, SummaryPhases, SummaryGoto, SummaryOver
<1>20. ASSUME NEW r \in Runs, TitleSaves(r) PROVE SummaryTypes'
  BY <1>20 DEF TitleSaves, SummaryTypes, SummaryState, SummaryPhases, SummaryGoto, SummaryOver
<1>21. ASSUME NEW r \in Runs, TitleFails(r) PROVE SummaryTypes'
  BY <1>21 DEF TitleFails, SummaryTypes, SummaryState, SummaryPhases, SummaryGoto, SummaryOver
<1>22. ASSUME NEW k \in Summaries, Summarize(k) PROVE SummaryTypes'
  BY <1>22 DEF Summarize, SummaryTypes, SummaryState, SummaryPhases, SummaryGoto, SummaryOver
<1>23. ASSUME NEW k \in Summaries, SummaryGivesUp(k) PROVE SummaryTypes'
  BY <1>23 DEF SummaryGivesUp, SummaryTypes, SummaryState, SummaryPhases, SummaryGoto, SummaryOver
<1>24. ASSUME NEW k \in Summaries, SummaryLists(k) PROVE SummaryTypes'
  <2> PICK n, new : n = Len(messages) /\ new = [[summary[k] EXCEPT !.at = "model"] EXCEPT !.saw = n]
    OBVIOUS
  <2>1. n \in Nat
    BY LenProperties
  <2>2. summary[k] \in SummaryState
    BY DEF SummaryTypes
  <2>3. new \in SummaryState
    BY <2>1, <2>2 DEF SummaryState, SummaryPhases
  <2>4. summary' = [summary EXCEPT ![k] = new]
    BY <1>24 DEF SummaryLists, SummaryTypes
  <2> QED
    BY <2>3, <2>4 DEF SummaryTypes
<1>25. ASSUME NEW k \in Summaries, SummaryAnswered(k) PROVE SummaryTypes'
  BY <1>25 DEF SummaryAnswered, SummaryTypes, SummaryState, SummaryPhases, SummaryGoto, SummaryOver
<1>26. ASSUME NEW k \in Summaries, SummaryReads(k) PROVE SummaryTypes'
  BY <1>26 DEF SummaryReads, SummaryTypes, SummaryState, SummaryPhases, SummaryGoto, SummaryOver
<1>27. ASSUME NEW k \in Summaries, SummaryCreates(k) PROVE SummaryTypes'
  <2>1. Len(messages) + 1 \in Nat
    BY LenProperties
  <2> PICK m, new : m = Len(messages) + 1 /\ new = [[summary[k] EXCEPT !.at = "save"] EXCEPT !.message = m]
    OBVIOUS
  <2>2. summary[k] \in SummaryState
    BY DEF SummaryTypes
  <2>3. new \in SummaryState
    BY <2>1, <2>2 DEF SummaryState, SummaryPhases
  <2>4. summary' = [summary EXCEPT ![k] = new]
    BY <1>27 DEF SummaryCreates, SummaryTypes
  <2> QED
    BY <2>3, <2>4 DEF SummaryTypes
<1>28. ASSUME NEW k \in Summaries, SummarySaves(k) PROVE SummaryTypes'
  BY <1>28 DEF SummarySaves, SummaryTypes, SummaryState, SummaryPhases, SummaryGoto, SummaryOver
<1>29. ASSUME NEW k \in Summaries, SummaryFinishes(k) PROVE SummaryTypes'
  BY <1>29 DEF SummaryFinishes, SummaryTypes, SummaryState, SummaryPhases, SummaryGoto, SummaryOver
<1>30. ASSUME UNCHANGED vars PROVE SummaryTypes'
  BY <1>30 DEF vars, SummaryTypes, SummaryState, SummaryPhases, SummaryGoto, SummaryOver
<1> QED
  BY <1>1, <1>2, <1>3, <1>4, <1>5, <1>6, <1>7, <1>8, <1>9, <1>10, <1>11, <1>12, <1>13, <1>14, <1>15,
     <1>16, <1>17, <1>18, <1>19, <1>20, <1>21, <1>22, <1>23, <1>24, <1>25, <1>26, <1>27, <1>28, <1>29,
     <1>30
    DEF Next, RunStep, TitleStep, SummaryStep

\* The row and its copies keep their shape.
LEMMA RowTypesKept ==
    ASSUME RowTypes, SummaryTypes, [Next]_vars
    PROVE  RowTypes'
<1> USE DEF Get, Drop, SaveCharge, saved, rowVars
<1>1. ASSUME Cancel PROVE RowTypes'
  BY <1>1, WritersDiffer DEF Cancel, RowTypes, Row, NoRow, Charged
<1>2. ASSUME Crash PROVE RowTypes'
  BY <1>2, WritersDiffer DEF Crash, RowTypes, Row, NoRow, Charged
<1>3. ASSUME NEW r \in Runs, Send(r) PROVE RowTypes'
  BY <1>3, WritersDiffer DEF Send, RowTypes, Row, NoRow, Charged
<1>4. ASSUME NEW r \in Runs, GiveUp(r) PROVE RowTypes'
  BY <1>4, WritersDiffer DEF GiveUp, RowTypes, Row, NoRow, Charged
<1>5. ASSUME NEW r \in Runs, ListMessages(r) PROVE RowTypes'
  BY <1>5, WritersDiffer DEF ListMessages, RowTypes, Row, NoRow, Charged
<1>6. ASSUME NEW r \in Runs, GetSession(r) PROVE RowTypes'
  BY <1>6, WritersDiffer DEF GetSession, RowTypes, Row, NoRow, Charged
<1>7. ASSUME NEW r \in Runs, CreateUserMessage(r) PROVE RowTypes'
  BY <1>7, WritersDiffer DEF CreateUserMessage, RowTypes, Row, NoRow, Charged
<1>8. ASSUME NEW r \in Runs, Iterate(r) PROVE RowTypes'
  BY <1>8, WritersDiffer DEF Iterate, RowTypes, Row, NoRow, Charged
<1>9. ASSUME NEW r \in Runs, CreateAssistantMessage(r) PROVE RowTypes'
  BY <1>9, WritersDiffer DEF CreateAssistantMessage, RowTypes, Row, NoRow, Charged
<1>10. ASSUME NEW r \in Runs, StreamBreaks(r) PROVE RowTypes'
  BY <1>10, WritersDiffer DEF StreamBreaks, RowTypes, Row, NoRow, Charged
<1>11. ASSUME NEW r \in Runs, StreamCompletes(r) PROVE RowTypes'
  BY <1>11, WritersDiffer DEF StreamCompletes, RowTypes, Row, NoRow, Charged
<1>12. ASSUME NEW r \in Runs, TrackUsageReads(r) PROVE RowTypes'
  BY <1>12, WritersDiffer DEF TrackUsageReads, RowTypes, Row, NoRow, Charged
<1>13. ASSUME NEW r \in Runs, TrackUsageSaves(r) PROVE RowTypes'
  BY <1>13, WritersDiffer DEF TrackUsageSaves, RowTypes, Row, NoRow, Charged
<1>14. ASSUME NEW r \in Runs, CallTools(r) PROVE RowTypes'
  BY <1>14, WritersDiffer DEF CallTools, RowTypes, Row, NoRow, Charged
<1>15. ASSUME NEW r \in Runs, DelegateReads(r) PROVE RowTypes'
  BY <1>15, WritersDiffer DEF DelegateReads, RowTypes, Row, NoRow, Charged
<1>16. ASSUME NEW r \in Runs, DelegateSaves(r) PROVE RowTypes'
  <2>1. Charged(RunOf(r)) \in Row
    BY WritersDiffer DEF Charged, RowTypes, Row
  <2>2. CASE run[r].cancelled
    <3>1. Drop(RunOf(r)) /\ UNCHANGED saved
      BY <1>16, <2>2 DEF DelegateSaves
    <3>2. NoRow \in Row
      BY DEF NoRow, Row
    <3> QED
      BY <3>1, <3>2, WritersDiffer DEF Drop, saved, RowTypes
  <2>3. CASE ~run[r].cancelled
    BY <1>16, <2>1, <2>3, WritersDiffer, SavesARow DEF DelegateSaves
  <2> QED
    BY <2>2, <2>3
<1>17. ASSUME NEW r \in Runs, CreateToolMessage(r) PROVE RowTypes'
  BY <1>17, WritersDiffer DEF CreateToolMessage, RowTypes, Row, NoRow, Charged
<1>18. ASSUME NEW r \in Runs, Finish(r) PROVE RowTypes'
  BY <1>18, WritersDiffer DEF Finish, RowTypes, Row, NoRow, Charged
<1>19. ASSUME NEW r \in Runs, TitleReads(r) PROVE RowTypes'
  BY <1>19, WritersDiffer DEF TitleReads, RowTypes, Row, NoRow, Charged
<1>20. ASSUME NEW r \in Runs, TitleSaves(r) PROVE RowTypes'
  BY <1>20, WritersDiffer DEF TitleSaves, RowTypes, Row, NoRow, Charged
<1>21. ASSUME NEW r \in Runs, TitleFails(r) PROVE RowTypes'
  BY <1>21, WritersDiffer DEF TitleFails, RowTypes, Row, NoRow, Charged
<1>22. ASSUME NEW k \in Summaries, Summarize(k) PROVE RowTypes'
  BY <1>22, WritersDiffer DEF Summarize, RowTypes, Row, NoRow, Charged
<1>23. ASSUME NEW k \in Summaries, SummaryGivesUp(k) PROVE RowTypes'
  BY <1>23, WritersDiffer DEF SummaryGivesUp, RowTypes, Row, NoRow, Charged
<1>24. ASSUME NEW k \in Summaries, SummaryLists(k) PROVE RowTypes'
  BY <1>24, WritersDiffer DEF SummaryLists, RowTypes, Row, NoRow, Charged
<1>25. ASSUME NEW k \in Summaries, SummaryAnswered(k) PROVE RowTypes'
  BY <1>25, WritersDiffer DEF SummaryAnswered, RowTypes, Row, NoRow, Charged
<1>26. ASSUME NEW k \in Summaries, SummaryReads(k) PROVE RowTypes'
  BY <1>26, WritersDiffer DEF SummaryReads, RowTypes, Row, NoRow, Charged
<1>27. ASSUME NEW k \in Summaries, SummaryCreates(k) PROVE RowTypes'
  BY <1>27, WritersDiffer DEF SummaryCreates, RowTypes, Row, NoRow, Charged
<1>28. ASSUME NEW k \in Summaries, SummarySaves(k) PROVE RowTypes'
  <2> PICK c, m : c = Charged(SummaryOf(k)) /\ m = summary[k].message
    OBVIOUS
  <2>1. c \in Row
    BY WritersDiffer DEF Charged, RowTypes, Row
  <2>2. m \in Nat
    BY DEF SummaryTypes, SummaryState
  <2>3. [c EXCEPT !.summaryMessage = m] \in Row
    BY <2>1, <2>2 DEF Row
  <2> QED
    BY <1>28, <2>3, WritersDiffer, SavesARow DEF SummarySaves
<1>29. ASSUME NEW k \in Summaries, SummaryFinishes(k) PROVE RowTypes'
  BY <1>29, WritersDiffer DEF SummaryFinishes, RowTypes, Row, NoRow, Charged
<1>30. ASSUME UNCHANGED vars PROVE RowTypes'
  BY <1>30, WritersDiffer DEF vars, RowTypes, Row, NoRow, Charged
<1> QED
  BY <1>1, <1>2, <1>3, <1>4, <1>5, <1>6, <1>7, <1>8, <1>9, <1>10, <1>11, <1>12, <1>13, <1>14, <1>15,
     <1>16, <1>17, <1>18, <1>19, <1>20, <1>21, <1>22, <1>23, <1>24, <1>25, <1>26, <1>27, <1>28, <1>29,
     <1>30
    DEF Next, RunStep, TitleStep, SummaryStep

\* A run has another history when a message is added.
LEMMA MessagesGrow ==
    ASSUME RunTypes, MessageTypes, NEW r \in Runs, NEW h \in Seq(Nat), NEW n \in Nat, n = Len(messages),
           messages' \in Seq(Message), Len(messages') = n + 1, \A i \in 1..Len(h) : h[i] \in 1..(n + 1),
           run'[r].history = h, run'[r].message = run[r].message,
           \A q \in Runs : q # r => run'[q] = run[q], UNCHANGED severed
    PROVE  MessageTypes'
<1>1. \A x : x \in 0..n => x \in 0..(n + 1)
  OBVIOUS
<1>2. \A x : x \in 1..n => x \in 1..(n + 1)
  OBVIOUS
<1> QED
  BY <1>1, <1>2 DEF MessageTypes

\* Messages keep their shape, and whatever is spoken of exists.
LEMMA MessageTypesKept ==
    ASSUME MessageTypes, RunTypes, RowTypes, CurrentOK, [Next]_vars
    PROVE  MessageTypes'
<1>1. ASSUME Cancel PROVE MessageTypes'
  BY <1>1, LenProperties DEF Cancel, MessageTypes, Goto, saved, rowVars, requestVars, vars
<1>2. ASSUME Crash PROVE MessageTypes'
  <2>1. \A q \in Runs : Unanswered(q) \subseteq 1..Len(messages)
    BY LenProperties DEF Unanswered, MessageTypes
  <2>2. severed' \subseteq 1..Len(messages)
    BY <1>2, <2>1 DEF Crash, MessageTypes
  <2>3. \A q \in Runs : run'[q] = run[q] \/ run'[q] = Over
    BY <1>2 DEF Crash
  <2> QED
    BY <1>2, <2>2, <2>3, OverIsState, LenProperties DEF Crash, MessageTypes
<1>3. ASSUME NEW r \in Runs, Send(r) PROVE MessageTypes'
  BY <1>3, LenProperties DEF Send, MessageTypes, Goto, saved, rowVars, requestVars, vars
<1>4. ASSUME NEW r \in Runs, GiveUp(r) PROVE MessageTypes'
  BY <1>4, LenProperties
    DEF GiveUp, MessageTypes, Goto, saved, rowVars, requestVars, vars, CurrentOK, Writing,
        Pending
<1>5. ASSUME NEW r \in Runs, ListMessages(r) PROVE MessageTypes'
  <2> DEFINE h == [i \in 1..Len(messages) |-> i]
  <2>1. Len(h) = Len(messages) /\ \A i \in 1..Len(messages) : h[i] = i
    BY ListIsInterval, LenProperties DEF MessageTypes
  <2>2. run' = [run EXCEPT ![r].at = "session", ![r].history = h] /\ UNCHANGED <<messages, severed>>
    BY <1>5 DEF ListMessages
  <2> HIDE DEF h
  <2> QED
    BY <2>1, <2>2 DEF MessageTypes, RunTypes, RunState
<1>6. ASSUME NEW r \in Runs, GetSession(r) PROVE MessageTypes'
  <2> PICK h : h = FromSummary(run[r].history, row.summaryMessage)
    OBVIOUS
  <2>1. run[r].history \in Seq(Nat) /\ row.summaryMessage \in Nat
    BY DEF RunTypes, RunState, RowTypes, Row
  <2>2. \A i \in 1..Len(h) : h[i] \in 1..Len(messages)
    <3>1. CASE row.summaryMessage \notin 1..Len(run[r].history)
      BY <2>1, <3>1, FromSummaryIsEnd DEF MessageTypes
    <3>2. CASE row.summaryMessage \in 1..Len(run[r].history)
      <4> PICK g, s : g = run[r].history /\ s = row.summaryMessage
        OBVIOUS
      <4>1. Len(h) = Len(g) - s + 1 /\ \A i \in 1..(Len(g) - s + 1) : h[i] = g[s + i - 1]
        BY <2>1, <3>2, FromSummaryIsEnd
      <4>2. \A i \in 1..(Len(g) - s + 1) : s + i - 1 \in 1..Len(g)
        BY <2>1, <3>2, LenProperties
      <4> QED
        BY <4>1, <4>2 DEF MessageTypes
    <3> QED
      BY <3>1, <3>2
  <2>3. run' = [run EXCEPT ![r].at = "prompt", ![r].history = h] /\ UNCHANGED <<messages, severed>>
    BY <1>6 DEF GetSession
  <2> QED
    BY <2>2, <2>3 DEF MessageTypes, RunTypes, RunState
<1>7. ASSUME NEW r \in Runs, CreateUserMessage(r) PROVE MessageTypes'
  <2> PICK h, n : h = Append(run[r].history, Len(messages) + 1) /\ n = Len(messages)
    OBVIOUS
  <2>1. run[r].history \in Seq(Nat) /\ n \in Nat /\ n + 1 \in Nat
    BY LenProperties DEF RunTypes, RunState, MessageTypes
  <2>2. /\ messages' \in Seq(Message) /\ Len(messages') = n + 1
    BY <1>7, <2>1, Stores DEF CreateUserMessage, MessageTypes
  <2>3. h \in Seq(Nat) /\ \A i \in 1..Len(h) : h[i] \in 1..(n + 1)
    <3> PICK g, l : g = run[r].history /\ l = Len(g)
      OBVIOUS
    <3>1. l \in Nat /\ \A i \in 1..l : g[i] \in 1..n
      BY <2>1, LenProperties DEF MessageTypes
    <3>2. /\ h \in Seq(Nat) /\ Len(h) = l + 1 /\ h[l + 1] = n + 1
          /\ \A i \in 1..l : h[i] = g[i]
      BY <2>1, AppendProperties
    <3>3. \A i \in 1..(l + 1) : i \in 1..l \/ i = l + 1
      BY <3>1
    <3>4. n + 1 \in 1..(n + 1) /\ \A x \in 1..n : x \in 1..(n + 1)
      BY <2>1
    <3> QED
      BY <3>1, <3>2, <3>3, <3>4
  <2>4. run' = [run EXCEPT ![r].at = "iterate", ![r].history = h] /\ UNCHANGED severed
    BY <1>7 DEF CreateUserMessage
  <2>5. run'[r].history = h /\ run'[r].message = run[r].message /\ \A q \in Runs : q # r => run'[q] = run[q]
    <3>1. WithHistory(r, "iterate", h)
      BY <2>4 DEF WithHistory
    <3> QED
      BY <2>3, <3>1, HistoryBecomes DEF RunPhases
  <2>6. UNCHANGED severed
    BY <2>4
  <2> QED
    BY <2>1, <2>2, <2>3, <2>5, <2>6, MessagesGrow
<1>8. ASSUME NEW r \in Runs, Iterate(r) PROVE MessageTypes'
  BY <1>8, LenProperties
    DEF Iterate, MessageTypes, Goto, saved, rowVars, requestVars, vars, RunTypes, RunState
<1>9. ASSUME NEW r \in Runs, CreateAssistantMessage(r) PROVE MessageTypes'
  <2> PICK n : n = Len(messages)
    OBVIOUS
  <2>1. n \in Nat /\ messages' \in Seq(Message) /\ Len(messages') = n + 1
    BY <1>9, Stores, LenProperties DEF CreateAssistantMessage, MessageTypes
  <2>2. run' = [run EXCEPT ![r].at = "stream", ![r].message = n + 1] /\ UNCHANGED severed
    BY <1>9 DEF CreateAssistantMessage
  <2> QED
    BY <2>1, <2>2 DEF MessageTypes, RunTypes, RunState
<1>10. ASSUME NEW r \in Runs, StreamBreaks(r) PROVE MessageTypes'
  <2>1. run[r].message \in 1..Len(messages)
    BY <1>10 DEF StreamBreaks, CurrentOK, Writing
  <2>2. messages' \in Seq(Message) /\ Len(messages') = Len(messages)
    BY <1>10, <2>1, Updates, LenProperties DEF StreamBreaks, MessageTypes
  <2> QED
    BY <1>10, <2>1, <2>2 DEF StreamBreaks, Goto, MessageTypes, RunTypes, RunState
<1>11. ASSUME NEW r \in Runs, StreamCompletes(r) PROVE MessageTypes'
  <2>1. run[r].message \in 1..Len(messages)
    BY <1>11 DEF StreamCompletes, CurrentOK, Writing
  <2>2. messages' \in Seq(Message) /\ Len(messages') = Len(messages)
    BY <1>11, <2>1, Updates, LenProperties DEF StreamCompletes, MessageTypes
  <2> QED
    BY <1>11, <2>1, <2>2 DEF StreamCompletes, Goto, MessageTypes, RunTypes, RunState
<1>12. ASSUME NEW r \in Runs, TrackUsageReads(r) PROVE MessageTypes'
  BY <1>12, LenProperties DEF TrackUsageReads, MessageTypes, Goto, saved, rowVars, requestVars, vars
<1>13. ASSUME NEW r \in Runs, TrackUsageSaves(r) PROVE MessageTypes'
  BY <1>13, LenProperties DEF TrackUsageSaves, MessageTypes, Goto, saved, rowVars, requestVars, vars
<1>14. ASSUME NEW r \in Runs, CallTools(r) PROVE MessageTypes'
  BY <1>14, LenProperties DEF CallTools, MessageTypes, Goto, saved, rowVars, requestVars, vars
<1>15. ASSUME NEW r \in Runs, DelegateReads(r) PROVE MessageTypes'
  BY <1>15, LenProperties DEF DelegateReads, MessageTypes, Goto, saved, rowVars, requestVars, vars
<1>16. ASSUME NEW r \in Runs, DelegateSaves(r) PROVE MessageTypes'
  BY <1>16, LenProperties DEF DelegateSaves, MessageTypes, Goto, saved, rowVars, requestVars, vars
<1>17. ASSUME NEW r \in Runs, CreateToolMessage(r) PROVE MessageTypes'
  <2> PICK h, m, n : h = run[r].history /\ m = run[r].message /\ n = Len(messages)
    OBVIOUS
  <2>1. h \in Seq(Nat) /\ n \in Nat /\ n + 1 \in Nat /\ m \in 1..n
    BY <1>17, LenProperties
      DEF CreateToolMessage, RunTypes, RunState, MessageTypes, CurrentOK, Writing, Pending
  <2>0. Append1("tool", m)
    BY <1>17 DEF CreateToolMessage, MayAnswer
  <2>2. messages' \in Seq(Message) /\ Len(messages') = n + 1
    <3>1. messages \in Seq(Message) /\ m \in Nat
      BY <2>1 DEF MessageTypes
    <3> QED
      BY <2>0, <3>1, Stores
  <2>3. \A i \in 1..Len(h \o <<m, n + 1>>) : (h \o <<m, n + 1>>)[i] \in 1..(n + 1)
    <3> DEFINE more == <<m, n + 1>>
    <3>1. /\ more \in Seq(Nat) /\ Len(more) = 2 /\ more[1] = m /\ more[2] = n + 1
          /\ Len(h) \in Nat /\ \A i \in 1..Len(h) : h[i] \in 1..n
      BY <2>1, LenProperties DEF MessageTypes
    <3> HIDE DEF more
    <3>2. /\ Len(h \o more) = Len(h) + 2
          /\ \A i \in 1..(Len(h) + 2) :
                (h \o more)[i] = IF i <= Len(h) THEN h[i] ELSE more[i - Len(h)]
      <4>0. h \in Seq(Nat)
        BY <2>1
      <4>1. Len(h \o more) = Len(h) + Len(more)
        BY <3>1, <4>0, ConcatProperties
      <4>2. \A i \in 1..(Len(h) + Len(more)) :
               (h \o more)[i] = IF i <= Len(h) THEN h[i] ELSE more[i - Len(h)]
        BY ZenonT(60), <3>1, <4>0, ConcatProperties
      <4> QED
        BY <3>1, <4>1, <4>2
    <3>3. ASSUME NEW i \in 1..(Len(h) + 2) PROVE (h \o more)[i] \in 1..(n + 1)
      <4> PICK l : l = Len(h)
        OBVIOUS
      <4>0. /\ l \in Nat /\ i \in 1..(l + 2) /\ n \in Nat /\ m \in 1..n
            /\ (h \o more)[i] = IF i <= l THEN h[i] ELSE more[i - l]
        BY <2>1, <3>1, <3>2
      <4>1. CASE i \in 1..l
        <5>1. (h \o more)[i] = h[i] /\ h[i] \in 1..n
          BY <3>1, <4>0, <4>1
        <5>2. h[i] \in 1..(n + 1)
          BY <4>0, <5>1
        <5> QED
          BY <5>1, <5>2
      <4>2. CASE i = l + 1
        <5>1. (h \o more)[i] = m
          BY <3>1, <4>0, <4>2
        <5>2. m \in 1..(n + 1)
          BY <4>0, <5>1
        <5> QED
          BY <5>1, <5>2
      <4>3. CASE i = l + 2
        <5>1. (h \o more)[i] = n + 1
          BY <3>1, <4>0, <4>3
        <5>2. n + 1 \in 1..(n + 1)
          BY <4>0, <5>1
        <5> QED
          BY <5>1, <5>2
      <4>4. i \in 1..l \/ i = l + 1 \/ i = l + 2
        BY <4>0
      <4> QED
        BY <4>1, <4>2, <4>3, <4>4
    <3> QED
      BY <3>2, <3>3 DEF more
  <2>4. CASE run' = [run EXCEPT ![r].at = "iterate", ![r].history = h \o <<m, n + 1>>]
    <3> PICK g : g = h \o <<m, n + 1>>
      OBVIOUS
    <3>1. g \in Seq(Nat)
      <4>1. <<m, n + 1>> \in Seq(Nat) /\ h \in Seq(Nat)
        BY <2>1
      <4> QED
        BY <4>1, ConcatProperties
    <3>2. run'[r].history = g /\ run'[r].message = run[r].message /\ \A q \in Runs : q # r => run'[q] = run[q]
      <4>1. WithHistory(r, "iterate", g)
        BY <2>4, <3>1 DEF WithHistory
      <4> QED
        <5>1. "iterate" \in RunPhases
          BY DEF RunPhases
        <5> QED
          BY ZenonT(60), <3>1, <4>1, <5>1, HistoryBecomes
    <3>3. UNCHANGED severed
      BY <1>17 DEF CreateToolMessage
    <3>4. \A i \in 1..Len(g) : g[i] \in 1..(n + 1)
      BY <2>3, <3>1
    <3> QED
      BY <2>1, <2>2, <3>1, <3>2, <3>3, <3>4, MessagesGrow
  <2>5. CASE Goto(r, "end")
    BY <1>17, <2>1, <2>2, <2>5 DEF CreateToolMessage, Goto, MessageTypes, RunTypes, RunState
  <2> QED
    BY <1>17, <2>4, <2>5 DEF CreateToolMessage
<1>18. ASSUME NEW r \in Runs, Finish(r) PROVE MessageTypes'
  BY <1>18, LenProperties, OverIsState
    DEF Finish, MessageTypes, Goto, saved, rowVars, requestVars, vars, RunTypes, RunState
<1>19. ASSUME NEW r \in Runs, TitleReads(r) PROVE MessageTypes'
  BY <1>19, LenProperties DEF TitleReads, MessageTypes, Goto, saved, rowVars, requestVars, vars
<1>20. ASSUME NEW r \in Runs, TitleSaves(r) PROVE MessageTypes'
  BY <1>20, LenProperties DEF TitleSaves, MessageTypes, Goto, saved, rowVars, requestVars, vars
<1>21. ASSUME NEW r \in Runs, TitleFails(r) PROVE MessageTypes'
  BY <1>21, LenProperties DEF TitleFails, MessageTypes, Goto, saved, rowVars, requestVars, vars
<1>22. ASSUME NEW k \in Summaries, Summarize(k) PROVE MessageTypes'
  BY <1>22, LenProperties DEF Summarize, MessageTypes, Goto, saved, rowVars, requestVars, vars
<1>23. ASSUME NEW k \in Summaries, SummaryGivesUp(k) PROVE MessageTypes'
  BY <1>23, LenProperties DEF SummaryGivesUp, MessageTypes, Goto, saved, rowVars, requestVars, vars
<1>24. ASSUME NEW k \in Summaries, SummaryLists(k) PROVE MessageTypes'
  BY <1>24, LenProperties DEF SummaryLists, MessageTypes, Goto, saved, rowVars, requestVars, vars
<1>25. ASSUME NEW k \in Summaries, SummaryAnswered(k) PROVE MessageTypes'
  BY <1>25, LenProperties DEF SummaryAnswered, MessageTypes, Goto, saved, rowVars, requestVars, vars
<1>26. ASSUME NEW k \in Summaries, SummaryReads(k) PROVE MessageTypes'
  BY <1>26, LenProperties DEF SummaryReads, MessageTypes, Goto, saved, rowVars, requestVars, vars
<1>27. ASSUME NEW k \in Summaries, SummaryCreates(k) PROVE MessageTypes'
  <2>1. messages' \in Seq(Message) /\ Len(messages') = Len(messages) + 1 /\ Len(messages) \in Nat
    BY <1>27, Stores, LenProperties DEF SummaryCreates, MessageTypes
  <2> QED
    BY <1>27, <2>1 DEF SummaryCreates, MessageTypes
<1>28. ASSUME NEW k \in Summaries, SummarySaves(k) PROVE MessageTypes'
  BY <1>28, LenProperties DEF SummarySaves, MessageTypes, Goto, saved, rowVars, requestVars, vars
<1>29. ASSUME NEW k \in Summaries, SummaryFinishes(k) PROVE MessageTypes'
  BY <1>29, LenProperties DEF SummaryFinishes, MessageTypes, Goto, saved, rowVars, requestVars, vars
<1>30. ASSUME UNCHANGED vars PROVE MessageTypes'
  BY <1>30, LenProperties DEF vars, MessageTypes, Goto, saved, rowVars, requestVars, vars
<1> QED
  BY <1>1, <1>2, <1>3, <1>4, <1>5, <1>6, <1>7, <1>8, <1>9, <1>10, <1>11, <1>12, <1>13, <1>14, <1>15,
     <1>16, <1>17, <1>18, <1>19, <1>20, <1>21, <1>22, <1>23, <1>24, <1>25, <1>26, <1>27, <1>28, <1>29,
     <1>30
    DEF Next, RunStep, TitleStep, SummaryStep

-----------------------------------------------------------------------------
(* Roles, and what the costs are bounded by *)

\* All but the messages keep their shape, the messages too.
LEMMA TypesKept ==
    ASSUME Types, CurrentOK, [Next]_vars
    PROVE  Types'
  BY RunTypesKept, OtherTypesKept, SummaryTypesKept, RowTypesKept, MessageTypesKept
  DEF Types, MessageTypes

\* No message is removed, or changes its role or what it answers.
MessagesStay ==
    /\ Len(messages') >= Len(messages)
    /\ \A i \in 1..Len(messages) : /\ messages'[i].role = messages[i].role
                                   /\ messages'[i].answers = messages[i].answers

\* Steps add messages and change calls, nothing else.
LEMMA MessagesAreStable ==
    ASSUME messages \in Seq(Message), RunTypes, CurrentOK, [Next]_vars
    PROVE  MessagesStay
<1>1. ASSUME Cancel PROVE MessagesStay
  BY <1>1, LenProperties DEF Cancel, MessagesStay, saved, rowVars, requestVars, vars
<1>2. ASSUME Crash PROVE MessagesStay
  BY <1>2, LenProperties DEF Crash, MessagesStay, saved, rowVars, requestVars, vars
<1>3. ASSUME NEW r \in Runs, Send(r) PROVE MessagesStay
  BY <1>3, LenProperties DEF Send, MessagesStay, saved, rowVars, requestVars, vars
<1>4. ASSUME NEW r \in Runs, GiveUp(r) PROVE MessagesStay
  BY <1>4, LenProperties DEF GiveUp, MessagesStay, saved, rowVars, requestVars, vars
<1>5. ASSUME NEW r \in Runs, ListMessages(r) PROVE MessagesStay
  BY <1>5, LenProperties DEF ListMessages, MessagesStay, saved, rowVars, requestVars, vars
<1>6. ASSUME NEW r \in Runs, GetSession(r) PROVE MessagesStay
  BY <1>6, LenProperties DEF GetSession, MessagesStay, saved, rowVars, requestVars, vars
<1>7. ASSUME NEW r \in Runs, CreateUserMessage(r) PROVE MessagesStay
  <2>1. Len(messages) \in Nat
    BY LenProperties
  <2>2. Append1("user", 0)
    BY <1>7 DEF CreateUserMessage
  <2>3. Len(messages') = Len(messages) + 1 /\ \A i \in 1..Len(messages) : messages'[i] = messages[i]
    BY <2>2, Stores
  <2> QED
    BY <2>1, <2>3 DEF MessagesStay
<1>8. ASSUME NEW r \in Runs, Iterate(r) PROVE MessagesStay
  BY <1>8, LenProperties DEF Iterate, MessagesStay, saved, rowVars, requestVars, vars
<1>9. ASSUME NEW r \in Runs, CreateAssistantMessage(r) PROVE MessagesStay
  <2>1. Len(messages) \in Nat
    BY LenProperties
  <2>2. Append1("assistant", 0)
    BY <1>9 DEF CreateAssistantMessage
  <2>3. Len(messages') = Len(messages) + 1 /\ \A i \in 1..Len(messages) : messages'[i] = messages[i]
    BY <2>2, Stores
  <2> QED
    BY <2>1, <2>3 DEF MessagesStay
<1>10. ASSUME NEW r \in Runs, StreamBreaks(r) PROVE MessagesStay
  <2>1. run[r].message \in 1..Len(messages)
    BY <1>10 DEF StreamBreaks, CurrentOK, Writing
  <2> QED
    BY <1>10, <2>1, Updates, LenProperties DEF StreamBreaks, MessagesStay
<1>11. ASSUME NEW r \in Runs, StreamCompletes(r) PROVE MessagesStay
  <2>1. run[r].message \in 1..Len(messages)
    BY <1>11 DEF StreamCompletes, CurrentOK, Writing
  <2> QED
    BY <1>11, <2>1, Updates, LenProperties DEF StreamCompletes, MessagesStay
<1>12. ASSUME NEW r \in Runs, TrackUsageReads(r) PROVE MessagesStay
  BY <1>12, LenProperties DEF TrackUsageReads, MessagesStay, saved, rowVars, requestVars, vars
<1>13. ASSUME NEW r \in Runs, TrackUsageSaves(r) PROVE MessagesStay
  BY <1>13, LenProperties DEF TrackUsageSaves, MessagesStay, saved, rowVars, requestVars, vars
<1>14. ASSUME NEW r \in Runs, CallTools(r) PROVE MessagesStay
  BY <1>14, LenProperties DEF CallTools, MessagesStay, saved, rowVars, requestVars, vars
<1>15. ASSUME NEW r \in Runs, DelegateReads(r) PROVE MessagesStay
  BY <1>15, LenProperties DEF DelegateReads, MessagesStay, saved, rowVars, requestVars, vars
<1>16. ASSUME NEW r \in Runs, DelegateSaves(r) PROVE MessagesStay
  BY <1>16, LenProperties DEF DelegateSaves, MessagesStay, saved, rowVars, requestVars, vars
<1>17. ASSUME NEW r \in Runs, CreateToolMessage(r) PROVE MessagesStay
  <2>1. Len(messages) \in Nat /\ run[r].message \in Nat
    BY LenProperties DEF RunTypes, RunState
  <2>2. Append1("tool", run[r].message)
    BY <1>17 DEF CreateToolMessage, MayAnswer
  <2>3. Len(messages') = Len(messages) + 1 /\ \A i \in 1..Len(messages) : messages'[i] = messages[i]
    BY <2>1, <2>2, Stores
  <2> QED
    BY <2>1, <2>3 DEF MessagesStay
<1>18. ASSUME NEW r \in Runs, Finish(r) PROVE MessagesStay
  BY <1>18, LenProperties DEF Finish, MessagesStay, saved, rowVars, requestVars, vars
<1>19. ASSUME NEW r \in Runs, TitleReads(r) PROVE MessagesStay
  BY <1>19, LenProperties DEF TitleReads, MessagesStay, saved, rowVars, requestVars, vars
<1>20. ASSUME NEW r \in Runs, TitleSaves(r) PROVE MessagesStay
  BY <1>20, LenProperties DEF TitleSaves, MessagesStay, saved, rowVars, requestVars, vars
<1>21. ASSUME NEW r \in Runs, TitleFails(r) PROVE MessagesStay
  BY <1>21, LenProperties DEF TitleFails, MessagesStay, saved, rowVars, requestVars, vars
<1>22. ASSUME NEW k \in Summaries, Summarize(k) PROVE MessagesStay
  BY <1>22, LenProperties DEF Summarize, MessagesStay, saved, rowVars, requestVars, vars
<1>23. ASSUME NEW k \in Summaries, SummaryGivesUp(k) PROVE MessagesStay
  BY <1>23, LenProperties DEF SummaryGivesUp, MessagesStay, saved, rowVars, requestVars, vars
<1>24. ASSUME NEW k \in Summaries, SummaryLists(k) PROVE MessagesStay
  BY <1>24, LenProperties DEF SummaryLists, MessagesStay, saved, rowVars, requestVars, vars
<1>25. ASSUME NEW k \in Summaries, SummaryAnswered(k) PROVE MessagesStay
  BY <1>25, LenProperties DEF SummaryAnswered, MessagesStay, saved, rowVars, requestVars, vars
<1>26. ASSUME NEW k \in Summaries, SummaryReads(k) PROVE MessagesStay
  BY <1>26, LenProperties DEF SummaryReads, MessagesStay, saved, rowVars, requestVars, vars
<1>27. ASSUME NEW k \in Summaries, SummaryCreates(k) PROVE MessagesStay
  <2>1. Len(messages) \in Nat
    BY LenProperties
  <2>2. Append1("summary", 0)
    BY <1>27 DEF SummaryCreates
  <2>3. Len(messages') = Len(messages) + 1 /\ \A i \in 1..Len(messages) : messages'[i] = messages[i]
    BY <2>2, Stores
  <2> QED
    BY <2>1, <2>3 DEF MessagesStay
<1>28. ASSUME NEW k \in Summaries, SummarySaves(k) PROVE MessagesStay
  BY <1>28, LenProperties DEF SummarySaves, MessagesStay, saved, rowVars, requestVars, vars
<1>29. ASSUME NEW k \in Summaries, SummaryFinishes(k) PROVE MessagesStay
  BY <1>29, LenProperties DEF SummaryFinishes, MessagesStay, saved, rowVars, requestVars, vars
<1>30. ASSUME UNCHANGED vars PROVE MessagesStay
  BY <1>30, LenProperties DEF vars, MessagesStay, saved, rowVars, requestVars, vars
<1> QED
  BY <1>1, <1>2, <1>3, <1>4, <1>5, <1>6, <1>7, <1>8, <1>9, <1>10, <1>11, <1>12, <1>13, <1>14, <1>15,
     <1>16, <1>17, <1>18, <1>19, <1>20, <1>21, <1>22, <1>23, <1>24, <1>25, <1>26, <1>27, <1>28, <1>29,
     <1>30
    DEF Next, RunStep, TitleStep, SummaryStep

\* A run goes on with the message it has created.
LEMMA CurrentKept ==
    ASSUME Types, CurrentOK, [Next]_vars
    PROVE  CurrentOK'
<1>0. Types' /\ MessagesStay /\ RunTypes /\ Len(messages) \in Nat /\ Len(messages') \in Nat
      /\ messages \in Seq(Message)
  BY TypesKept, MessagesAreStable, LenProperties DEF Types, MessageTypes
<1> USE DEF MessagesStay
<1>1. ASSUME Cancel PROVE CurrentOK'
  BY <1>1, <1>0 DEF Cancel, CurrentOK, Writing, Pending, Goto, RunTypes, RunState
<1>2. ASSUME Crash PROVE CurrentOK'
  BY <1>2, <1>0, OverIsState DEF Crash, CurrentOK, Writing, Pending, Goto, RunTypes, RunState
<1>3. ASSUME NEW r \in Runs, Send(r) PROVE CurrentOK'
  BY <1>3, <1>0 DEF Send, CurrentOK, Writing, Pending, Goto, RunTypes, RunState
<1>4. ASSUME NEW r \in Runs, GiveUp(r) PROVE CurrentOK'
  BY <1>4, <1>0 DEF GiveUp, CurrentOK, Writing, Pending, Goto, RunTypes, RunState
<1>5. ASSUME NEW r \in Runs, ListMessages(r) PROVE CurrentOK'
  BY <1>5, <1>0 DEF ListMessages, CurrentOK, Writing, Pending, Goto, RunTypes, RunState
<1>6. ASSUME NEW r \in Runs, GetSession(r) PROVE CurrentOK'
  BY <1>6, <1>0 DEF GetSession, CurrentOK, Writing, Pending, Goto, RunTypes, RunState
<1>7. ASSUME NEW r \in Runs, CreateUserMessage(r) PROVE CurrentOK'
  <2> PICK h : h = Append(run[r].history, Len(messages) + 1)
    OBVIOUS
  <2>1. WithHistory(r, "iterate", h)
    BY <1>7 DEF CreateUserMessage, WithHistory
  <2>2. run'[r].at = "iterate" /\ \A q \in Runs : q # r => run'[q] = run[q]
    BY <1>0, <2>1, HistoryAt
  <2> QED
    BY <1>0, <2>2 DEF CurrentOK, Writing, Pending
<1>8. ASSUME NEW r \in Runs, Iterate(r) PROVE CurrentOK'
  BY <1>8, <1>0 DEF Iterate, CurrentOK, Writing, Pending, Goto, RunTypes, RunState
<1>9. ASSUME NEW r \in Runs, CreateAssistantMessage(r) PROVE CurrentOK'
  <2> PICK n : n = Len(messages) + 1
    OBVIOUS
  <2>1. run' = [run EXCEPT ![r].at = "stream", ![r].message = n] /\ Append1("assistant", 0)
    BY <1>9 DEF CreateAssistantMessage
  <2>2. Len(messages') = Len(messages) + 1 /\ messages'[Len(messages) + 1].role = "assistant"
    BY <1>0, <2>1, Stores
  <2>3. n \in 1..Len(messages') /\ messages'[n].role = "assistant"
    BY <1>0, <2>2
  <2>4. /\ run'[r].message = n
        /\ \A q \in Runs : q # r => run'[q] = run[q]
    BY <1>0, <2>1 DEF RunTypes, RunState
  <2>5. ASSUME NEW q \in Runs, run'[q].at \in Writing
        PROVE  run'[q].message \in 1..Len(messages') /\ messages'[run'[q].message].role = "assistant"
    BY <1>0, <2>3, <2>4, <2>5 DEF CurrentOK
  <2> QED
    BY <2>5 DEF CurrentOK
<1>10. ASSUME NEW r \in Runs, StreamBreaks(r) PROVE CurrentOK'
  BY <1>10, <1>0 DEF StreamBreaks, CurrentOK, Writing, Pending, Goto, RunTypes, RunState
<1>11. ASSUME NEW r \in Runs, StreamCompletes(r) PROVE CurrentOK'
  BY <1>11, <1>0 DEF StreamCompletes, CurrentOK, Writing, Pending, Goto, RunTypes, RunState
<1>12. ASSUME NEW r \in Runs, TrackUsageReads(r) PROVE CurrentOK'
  BY <1>12, <1>0 DEF TrackUsageReads, CurrentOK, Writing, Pending, Goto, RunTypes, RunState
<1>13. ASSUME NEW r \in Runs, TrackUsageSaves(r) PROVE CurrentOK'
  BY <1>13, <1>0 DEF TrackUsageSaves, CurrentOK, Writing, Pending, Goto, RunTypes, RunState
<1>14. ASSUME NEW r \in Runs, CallTools(r) PROVE CurrentOK'
  BY <1>14, <1>0 DEF CallTools, CurrentOK, Writing, Pending, Goto, RunTypes, RunState
<1>15. ASSUME NEW r \in Runs, DelegateReads(r) PROVE CurrentOK'
  BY <1>15, <1>0 DEF DelegateReads, CurrentOK, Writing, Pending, Goto, RunTypes, RunState
<1>16. ASSUME NEW r \in Runs, DelegateSaves(r) PROVE CurrentOK'
  BY <1>16, <1>0 DEF DelegateSaves, CurrentOK, Writing, Pending, Goto, RunTypes, RunState
<1>17. ASSUME NEW r \in Runs, CreateToolMessage(r) PROVE CurrentOK'
  <2> PICK h : h = run[r].history \o <<run[r].message, Len(messages) + 1>>
    OBVIOUS
  <2>1. \/ run' = [run EXCEPT ![r].at = "iterate", ![r].history = h]
        \/ run' = [run EXCEPT ![r].at = "end"]
    BY <1>17 DEF CreateToolMessage, Goto
  <2>2. \A q \in Runs : run'[q].at \in Writing => run[q] = run'[q]
    BY <1>0, <2>1 DEF Writing, Pending, RunTypes, RunState
  <2>3. ASSUME NEW q \in Runs, run'[q].at \in Writing
        PROVE  run'[q].message \in 1..Len(messages') /\ messages'[run'[q].message].role = "assistant"
    <3>1. run'[q] = run[q]
      BY <2>2, <2>3
    <3>2. run[q].message \in 1..Len(messages) /\ messages[run[q].message].role = "assistant"
      BY <2>3, <3>1 DEF CurrentOK
    <3> QED
      BY <1>0, <3>1, <3>2
  <2> QED
    BY <2>3 DEF CurrentOK
<1>18. ASSUME NEW r \in Runs, Finish(r) PROVE CurrentOK'
  BY <1>18, <1>0, OverIsState DEF Finish, CurrentOK, Writing, Pending, Goto, RunTypes, RunState
<1>19. ASSUME NEW r \in Runs, TitleReads(r) PROVE CurrentOK'
  BY <1>19, <1>0 DEF TitleReads, CurrentOK, Writing, Pending, Goto, RunTypes, RunState
<1>20. ASSUME NEW r \in Runs, TitleSaves(r) PROVE CurrentOK'
  BY <1>20, <1>0 DEF TitleSaves, CurrentOK, Writing, Pending, Goto, RunTypes, RunState
<1>21. ASSUME NEW r \in Runs, TitleFails(r) PROVE CurrentOK'
  BY <1>21, <1>0 DEF TitleFails, CurrentOK, Writing, Pending, Goto, RunTypes, RunState
<1>22. ASSUME NEW k \in Summaries, Summarize(k) PROVE CurrentOK'
  BY <1>22, <1>0 DEF Summarize, CurrentOK, Writing, Pending, Goto, RunTypes, RunState
<1>23. ASSUME NEW k \in Summaries, SummaryGivesUp(k) PROVE CurrentOK'
  BY <1>23, <1>0 DEF SummaryGivesUp, CurrentOK, Writing, Pending, Goto, RunTypes, RunState
<1>24. ASSUME NEW k \in Summaries, SummaryLists(k) PROVE CurrentOK'
  BY <1>24, <1>0 DEF SummaryLists, CurrentOK, Writing, Pending, Goto, RunTypes, RunState
<1>25. ASSUME NEW k \in Summaries, SummaryAnswered(k) PROVE CurrentOK'
  BY <1>25, <1>0 DEF SummaryAnswered, CurrentOK, Writing, Pending, Goto, RunTypes, RunState
<1>26. ASSUME NEW k \in Summaries, SummaryReads(k) PROVE CurrentOK'
  BY <1>26, <1>0 DEF SummaryReads, CurrentOK, Writing, Pending, Goto, RunTypes, RunState
<1>27. ASSUME NEW k \in Summaries, SummaryCreates(k) PROVE CurrentOK'
  <2>1. UNCHANGED run
    BY <1>27 DEF SummaryCreates
  <2> QED
    BY <1>0, <2>1 DEF CurrentOK
<1>28. ASSUME NEW k \in Summaries, SummarySaves(k) PROVE CurrentOK'
  BY <1>28, <1>0 DEF SummarySaves, CurrentOK, Writing, Pending, Goto, RunTypes, RunState
<1>29. ASSUME NEW k \in Summaries, SummaryFinishes(k) PROVE CurrentOK'
  BY <1>29, <1>0 DEF SummaryFinishes, CurrentOK, Writing, Pending, Goto, RunTypes, RunState
<1>30. ASSUME UNCHANGED vars PROVE CurrentOK'
  BY <1>30, <1>0 DEF vars, CurrentOK, Writing, Pending, Goto, RunTypes, RunState
<1> QED
  BY <1>1, <1>2, <1>3, <1>4, <1>5, <1>6, <1>7, <1>8, <1>9, <1>10, <1>11, <1>12, <1>13, <1>14, <1>15,
     <1>16, <1>17, <1>18, <1>19, <1>20, <1>21, <1>22, <1>23, <1>24, <1>25, <1>26, <1>27, <1>28, <1>29,
     <1>30
    DEF Next, RunStep, TitleStep, SummaryStep

\* A row that is read is bounded as the stored one is.
LEMMA GetKeepsBound ==
    ASSUME RowTypes, CostBound, NEW w \in Writers, Get(w)
    PROVE  CostBound'
  BY DEF Get, saved, CostBound, RowTypes, Row

\* Nor does it matter that what was read is forgotten.
LEMMA DropKeepsBound ==
    ASSUME RowTypes, CostBound, NEW w \in Writers, Drop(w), UNCHANGED saved
    PROVE  CostBound'
<1>1. NoRow.cost = 0
  BY DEF NoRow
<1> QED
  BY <1>1 DEF Drop, saved, CostBound, RowTypes, Row

\* A charge raises the row's cost no more than the number of charges.
LEMMA ChargeKeepsBound ==
    ASSUME RowTypes, CostBound, NEW w \in Writers, NEW new \in Row, SaveCharge(w, new),
           new.cost = held[w].cost + 1
    PROVE  CostBound'
<1>1. NoRow.cost = 0
  BY DEF NoRow
<1> QED
  BY <1>1 DEF SaveCharge, Drop, CostBound, RowTypes, Row

\* A charge changes the cost only, and by one.
LEMMA ChargedAddsOne ==
    ASSUME RowTypes, NEW w \in Writers
    PROVE  /\ Charged(w) \in Row /\ Charged(w).cost = held[w].cost + 1
           /\ Charged(w).summaryMessage = held[w].summaryMessage
           /\ \A m \in Nat : /\ [Charged(w) EXCEPT !.summaryMessage = m] \in Row
                             /\ [Charged(w) EXCEPT !.summaryMessage = m].cost = held[w].cost + 1
                             /\ [Charged(w) EXCEPT !.summaryMessage = m].summaryMessage = m
<1>1. Charged(w) \in Row /\ Charged(w).cost = held[w].cost + 1
      /\ Charged(w).summaryMessage = held[w].summaryMessage
  BY DEF Charged, RowTypes, Row
<1> PICK c : c = Charged(w)
  OBVIOUS
<1>2. \A m \in Nat : /\ [c EXCEPT !.summaryMessage = m] \in Row
                     /\ [c EXCEPT !.summaryMessage = m].cost = held[w].cost + 1
                     /\ [c EXCEPT !.summaryMessage = m].summaryMessage = m
  BY <1>1 DEF Row
<1> QED
  BY <1>1, <1>2

\* Costs are read and written, and grow with the charges.
LEMMA CostBoundKept ==
    ASSUME RowTypes, SummaryTypes, CostBound, [Next]_vars
    PROVE  CostBound'
<1>1. ASSUME Cancel PROVE CostBound'
  BY <1>1, WritersDiffer DEF Cancel, CostBound, RowTypes, Row, saved, rowVars
<1>2. ASSUME Crash PROVE CostBound'
  BY <1>2, WritersDiffer DEF Crash, CostBound, RowTypes, Row, saved, rowVars, NoRow
<1>3. ASSUME NEW r \in Runs, Send(r) PROVE CostBound'
  BY <1>3, WritersDiffer DEF Send, CostBound, RowTypes, Row, saved, rowVars
<1>4. ASSUME NEW r \in Runs, GiveUp(r) PROVE CostBound'
  BY <1>4, WritersDiffer, DropKeepsBound DEF GiveUp, CostBound, RowTypes, Row, saved, rowVars
<1>5. ASSUME NEW r \in Runs, ListMessages(r) PROVE CostBound'
  BY <1>5, WritersDiffer DEF ListMessages, CostBound, RowTypes, Row, saved, rowVars
<1>6. ASSUME NEW r \in Runs, GetSession(r) PROVE CostBound'
  BY <1>6, WritersDiffer DEF GetSession, CostBound, RowTypes, Row, saved, rowVars
<1>7. ASSUME NEW r \in Runs, CreateUserMessage(r) PROVE CostBound'
  BY <1>7, WritersDiffer DEF CreateUserMessage, CostBound, RowTypes, Row, saved, rowVars
<1>8. ASSUME NEW r \in Runs, Iterate(r) PROVE CostBound'
  BY <1>8, WritersDiffer DEF Iterate, CostBound, RowTypes, Row, saved, rowVars
<1>9. ASSUME NEW r \in Runs, CreateAssistantMessage(r) PROVE CostBound'
  BY <1>9, WritersDiffer DEF CreateAssistantMessage, CostBound, RowTypes, Row, saved, rowVars
<1>10. ASSUME NEW r \in Runs, StreamBreaks(r) PROVE CostBound'
  BY <1>10, WritersDiffer DEF StreamBreaks, CostBound, RowTypes, Row, saved, rowVars
<1>11. ASSUME NEW r \in Runs, StreamCompletes(r) PROVE CostBound'
  BY <1>11, WritersDiffer DEF StreamCompletes, CostBound, RowTypes, Row, saved, rowVars
<1>12. ASSUME NEW r \in Runs, TrackUsageReads(r) PROVE CostBound'
  BY <1>12, WritersDiffer, GetKeepsBound DEF TrackUsageReads, CostBound, RowTypes, Row, saved, rowVars
<1>13. ASSUME NEW r \in Runs, TrackUsageSaves(r) PROVE CostBound'
  BY <1>13, WritersDiffer, ChargedAddsOne, ChargeKeepsBound
    DEF TrackUsageSaves, CostBound, RowTypes, Row, saved, rowVars
<1>14. ASSUME NEW r \in Runs, CallTools(r) PROVE CostBound'
  BY <1>14, WritersDiffer DEF CallTools, CostBound, RowTypes, Row, saved, rowVars
<1>15. ASSUME NEW r \in Runs, DelegateReads(r) PROVE CostBound'
  BY <1>15, WritersDiffer, GetKeepsBound DEF DelegateReads, CostBound, RowTypes, Row, saved, rowVars
<1>16. ASSUME NEW r \in Runs, DelegateSaves(r) PROVE CostBound'
  <2>1. CASE run[r].cancelled
    BY <1>16, <2>1, WritersDiffer, DropKeepsBound DEF DelegateSaves
  <2>2. CASE ~run[r].cancelled
    BY <1>16, <2>2, WritersDiffer, ChargedAddsOne, ChargeKeepsBound DEF DelegateSaves
  <2> QED
    BY <2>1, <2>2
<1>17. ASSUME NEW r \in Runs, CreateToolMessage(r) PROVE CostBound'
  BY <1>17, WritersDiffer DEF CreateToolMessage, CostBound, RowTypes, Row, saved, rowVars
<1>18. ASSUME NEW r \in Runs, Finish(r) PROVE CostBound'
  BY <1>18, WritersDiffer DEF Finish, CostBound, RowTypes, Row, saved, rowVars
<1>19. ASSUME NEW r \in Runs, TitleReads(r) PROVE CostBound'
  BY <1>19, WritersDiffer, GetKeepsBound DEF TitleReads, CostBound, RowTypes, Row, saved, rowVars
<1>20. ASSUME NEW r \in Runs, TitleSaves(r) PROVE CostBound'
  BY <1>20, WritersDiffer DEF TitleSaves, CostBound, RowTypes, Row, saved, rowVars, NoRow, Drop
<1>21. ASSUME NEW r \in Runs, TitleFails(r) PROVE CostBound'
  BY <1>21, WritersDiffer, DropKeepsBound DEF TitleFails, CostBound, RowTypes, Row, saved, rowVars
<1>22. ASSUME NEW k \in Summaries, Summarize(k) PROVE CostBound'
  BY <1>22, WritersDiffer DEF Summarize, CostBound, RowTypes, Row, saved, rowVars
<1>23. ASSUME NEW k \in Summaries, SummaryGivesUp(k) PROVE CostBound'
  BY <1>23, WritersDiffer, DropKeepsBound DEF SummaryGivesUp, CostBound, RowTypes, Row, saved, rowVars
<1>24. ASSUME NEW k \in Summaries, SummaryLists(k) PROVE CostBound'
  BY <1>24, WritersDiffer DEF SummaryLists, CostBound, RowTypes, Row, saved, rowVars
<1>25. ASSUME NEW k \in Summaries, SummaryAnswered(k) PROVE CostBound'
  BY <1>25, WritersDiffer DEF SummaryAnswered, CostBound, RowTypes, Row, saved, rowVars
<1>26. ASSUME NEW k \in Summaries, SummaryReads(k) PROVE CostBound'
  BY <1>26, WritersDiffer, GetKeepsBound DEF SummaryReads, CostBound, RowTypes, Row, saved, rowVars
<1>27. ASSUME NEW k \in Summaries, SummaryCreates(k) PROVE CostBound'
  BY <1>27, WritersDiffer DEF SummaryCreates, CostBound, RowTypes, Row, saved, rowVars
<1>28. ASSUME NEW k \in Summaries, SummarySaves(k) PROVE CostBound'
  <2>1. summary[k].message \in Nat
    BY DEF SummaryTypes, SummaryState
  <2> QED
    BY <1>28, <2>1, WritersDiffer, ChargedAddsOne, ChargeKeepsBound DEF SummarySaves
<1>29. ASSUME NEW k \in Summaries, SummaryFinishes(k) PROVE CostBound'
  BY <1>29, WritersDiffer DEF SummaryFinishes, CostBound, RowTypes, Row, saved, rowVars
<1>30. ASSUME UNCHANGED vars PROVE CostBound'
  BY <1>30, WritersDiffer DEF vars, CostBound, RowTypes, Row, saved, rowVars
<1> QED
  BY <1>1, <1>2, <1>3, <1>4, <1>5, <1>6, <1>7, <1>8, <1>9, <1>10, <1>11, <1>12, <1>13, <1>14, <1>15,
     <1>16, <1>17, <1>18, <1>19, <1>20, <1>21, <1>22, <1>23, <1>24, <1>25, <1>26, <1>27, <1>28, <1>29,
     <1>30
    DEF Next, RunStep, TitleStep, SummaryStep

-----------------------------------------------------------------------------
(* One request at a time, and the charges *)

\* A request that is accepted while another is under way ends alone.
LEMMA OneAtATimeKept ==
    ASSUME RunTypes, SummaryTypes, OtherTypes, alone => OneAtATime, [Next]_vars
    PROVE  alone' => OneAtATime'
<1> USE DEF RunTypes, RunState, SummaryTypes, SummaryState, OtherTypes
<1>1. ASSUME Cancel PROVE alone' => OneAtATime'
  BY <1>1 DEF Cancel, OneAtATime, RunGoes, SummaryGoes, Goto, SummaryGoto, requestVars
<1>2. ASSUME Crash PROVE alone' => OneAtATime'
  BY <1>2, OverIsState
    DEF Crash, OneAtATime, RunGoes, SummaryGoes, Goto, SummaryGoto, requestVars, SummaryOver
<1>3. ASSUME NEW r \in Runs, Send(r) PROVE alone' => OneAtATime'
  BY <1>3 DEF Send, OneAtATime, RunGoes, SummaryGoes, Goto, SummaryGoto, requestVars, Processing
<1>4. ASSUME NEW r \in Runs, GiveUp(r) PROVE alone' => OneAtATime'
  BY <1>4 DEF GiveUp, OneAtATime, RunGoes, SummaryGoes, Goto, SummaryGoto, requestVars
<1>5. ASSUME NEW r \in Runs, ListMessages(r) PROVE alone' => OneAtATime'
  BY <1>5 DEF ListMessages, OneAtATime, RunGoes, SummaryGoes, Goto, SummaryGoto, requestVars
<1>6. ASSUME NEW r \in Runs, GetSession(r) PROVE alone' => OneAtATime'
  BY <1>6 DEF GetSession, OneAtATime, RunGoes, SummaryGoes, Goto, SummaryGoto, requestVars
<1>7. ASSUME NEW r \in Runs, CreateUserMessage(r) PROVE alone' => OneAtATime'
  BY <1>7 DEF CreateUserMessage, OneAtATime, RunGoes, SummaryGoes, Goto, SummaryGoto, requestVars
<1>8. ASSUME NEW r \in Runs, Iterate(r) PROVE alone' => OneAtATime'
  BY <1>8 DEF Iterate, OneAtATime, RunGoes, SummaryGoes, Goto, SummaryGoto, requestVars
<1>9. ASSUME NEW r \in Runs, CreateAssistantMessage(r) PROVE alone' => OneAtATime'
  BY <1>9 DEF CreateAssistantMessage, OneAtATime, RunGoes, SummaryGoes, Goto, SummaryGoto, requestVars
<1>10. ASSUME NEW r \in Runs, StreamBreaks(r) PROVE alone' => OneAtATime'
  BY <1>10 DEF StreamBreaks, OneAtATime, RunGoes, SummaryGoes, Goto, SummaryGoto, requestVars
<1>11. ASSUME NEW r \in Runs, StreamCompletes(r) PROVE alone' => OneAtATime'
  BY <1>11 DEF StreamCompletes, OneAtATime, RunGoes, SummaryGoes, Goto, SummaryGoto, requestVars
<1>12. ASSUME NEW r \in Runs, TrackUsageReads(r) PROVE alone' => OneAtATime'
  BY <1>12 DEF TrackUsageReads, OneAtATime, RunGoes, SummaryGoes, Goto, SummaryGoto, requestVars
<1>13. ASSUME NEW r \in Runs, TrackUsageSaves(r) PROVE alone' => OneAtATime'
  BY <1>13 DEF TrackUsageSaves, OneAtATime, RunGoes, SummaryGoes, Goto, SummaryGoto, requestVars
<1>14. ASSUME NEW r \in Runs, CallTools(r) PROVE alone' => OneAtATime'
  BY <1>14 DEF CallTools, OneAtATime, RunGoes, SummaryGoes, Goto, SummaryGoto, requestVars
<1>15. ASSUME NEW r \in Runs, DelegateReads(r) PROVE alone' => OneAtATime'
  BY <1>15 DEF DelegateReads, OneAtATime, RunGoes, SummaryGoes, Goto, SummaryGoto, requestVars
<1>16. ASSUME NEW r \in Runs, DelegateSaves(r) PROVE alone' => OneAtATime'
  BY <1>16 DEF DelegateSaves, OneAtATime, RunGoes, SummaryGoes, Goto, SummaryGoto, requestVars
<1>17. ASSUME NEW r \in Runs, CreateToolMessage(r) PROVE alone' => OneAtATime'
  <2> PICK h : h = run[r].history \o <<run[r].message, Len(messages) + 1>>
    OBVIOUS
  <2>1. \/ run' = [run EXCEPT ![r].at = "iterate", ![r].history = h]
        \/ run' = [run EXCEPT ![r].at = "end"]
    BY <1>17 DEF CreateToolMessage, Goto
  <2>2. \A q \in Runs : RunGoes(q)' => RunGoes(q)
    BY <1>17, <2>1 DEF CreateToolMessage, RunGoes
  <2>3. UNCHANGED <<summary, alone>>
    BY <1>17 DEF CreateToolMessage, requestVars
  <2> QED
    BY <2>2, <2>3 DEF OneAtATime, SummaryGoes
<1>18. ASSUME NEW r \in Runs, Finish(r) PROVE alone' => OneAtATime'
  BY <1>18, OverIsState DEF Finish, OneAtATime, RunGoes, SummaryGoes, Goto, SummaryGoto, requestVars
<1>19. ASSUME NEW r \in Runs, TitleReads(r) PROVE alone' => OneAtATime'
  BY <1>19 DEF TitleReads, OneAtATime, RunGoes, SummaryGoes, Goto, SummaryGoto, requestVars
<1>20. ASSUME NEW r \in Runs, TitleSaves(r) PROVE alone' => OneAtATime'
  BY <1>20 DEF TitleSaves, OneAtATime, RunGoes, SummaryGoes, Goto, SummaryGoto, requestVars
<1>21. ASSUME NEW r \in Runs, TitleFails(r) PROVE alone' => OneAtATime'
  BY <1>21 DEF TitleFails, OneAtATime, RunGoes, SummaryGoes, Goto, SummaryGoto, requestVars
<1>22. ASSUME NEW k \in Summaries, Summarize(k) PROVE alone' => OneAtATime'
  BY <1>22 DEF Summarize, OneAtATime, RunGoes, SummaryGoes, Goto, SummaryGoto, requestVars, Processing
<1>23. ASSUME NEW k \in Summaries, SummaryGivesUp(k) PROVE alone' => OneAtATime'
  BY <1>23 DEF SummaryGivesUp, OneAtATime, RunGoes, SummaryGoes, Goto, SummaryGoto, requestVars
<1>24. ASSUME NEW k \in Summaries, SummaryLists(k) PROVE alone' => OneAtATime'
  BY <1>24 DEF SummaryLists, OneAtATime, RunGoes, SummaryGoes, Goto, SummaryGoto, requestVars
<1>25. ASSUME NEW k \in Summaries, SummaryAnswered(k) PROVE alone' => OneAtATime'
  BY <1>25 DEF SummaryAnswered, OneAtATime, RunGoes, SummaryGoes, Goto, SummaryGoto, requestVars
<1>26. ASSUME NEW k \in Summaries, SummaryReads(k) PROVE alone' => OneAtATime'
  BY <1>26 DEF SummaryReads, OneAtATime, RunGoes, SummaryGoes, Goto, SummaryGoto, requestVars
<1>27. ASSUME NEW k \in Summaries, SummaryCreates(k) PROVE alone' => OneAtATime'
  BY <1>27 DEF SummaryCreates, OneAtATime, RunGoes, SummaryGoes, Goto, SummaryGoto, requestVars
<1>28. ASSUME NEW k \in Summaries, SummarySaves(k) PROVE alone' => OneAtATime'
  BY <1>28 DEF SummarySaves, OneAtATime, RunGoes, SummaryGoes, Goto, SummaryGoto, requestVars
<1>29. ASSUME NEW k \in Summaries, SummaryFinishes(k) PROVE alone' => OneAtATime'
  BY <1>29 DEF SummaryFinishes, OneAtATime, RunGoes, SummaryGoes, Goto, SummaryGoto, requestVars, SummaryOver
<1>30. ASSUME UNCHANGED vars PROVE alone' => OneAtATime'
  BY <1>30 DEF vars, OneAtATime, RunGoes, SummaryGoes, Goto, SummaryGoto, requestVars
<1> QED
  BY <1>1, <1>2, <1>3, <1>4, <1>5, <1>6, <1>7, <1>8, <1>9, <1>10, <1>11, <1>12, <1>13, <1>14, <1>15,
     <1>16, <1>17, <1>18, <1>19, <1>20, <1>21, <1>22, <1>23, <1>24, <1>25, <1>26, <1>27, <1>28, <1>29,
     <1>30
    DEF Next, RunStep, TitleStep, SummaryStep

\* A charge that is saved is in the row, and in nobody else's copy.
LEMMA ChargeIsCounted ==
    ASSUME RowTypes, NEW w \in Writers, NEW new \in Row, SaveCharge(w, new),
           new.cost = held[w].cost + 1, charges <= held[w].cost + duringTitle
    PROVE  /\ charges' = charges + 1
           /\ charges' <= row'.cost + duringTitle'
           /\ \A v \in Writers : v # w => held'[v] = held[v]
           /\ duringTitle' = IF TitlePending THEN duringTitle + 1 ELSE duringTitle
  BY DEF SaveCharge, Drop, RowTypes, Row

\* A step of a run that neither reads the row nor saves it.
LEMMA CostsStay ==
    ASSUME CostsKept, UNCHANGED <<rowVars, summary>>, NEW r \in Runs,
           run'[r].at \notin {"save", "delegate"}, \A q \in Runs : q # r => run'[q] = run[q],
           \A q \in Runs : title'[q] = "asked" => title[q] = "asked"
    PROVE  CostsKept'
<1>1. /\ UNCHANGED <<row, held, charges, duringTitle>>
      /\ \A q \in Runs : run'[q].at \in {"save", "delegate"} => run[q].at \in {"save", "delegate"}
  BY DEF rowVars
<1> QED
  BY <1>1 DEF CostsKept

\* The charge of one leaves what the title generator holds as good as it was.
LEMMA TitleHolds ==
    ASSUME RowTypes, CostsKept, charges' = charges + 1, NEW w \in Writers,
           \A v \in Writers : v # w => held'[v] = held[v],
           duringTitle' = IF TitlePending THEN duringTitle + 1 ELSE duringTitle,
           NEW q \in Runs, title[q] = "asked", w # TitleOf(q)
    PROVE  charges' <= held'[TitleOf(q)].cost + duringTitle'
<1>1. TitlePending /\ charges <= held[TitleOf(q)].cost + duringTitle
  BY DEF CostsKept, TitlePending
<1>2. held'[TitleOf(q)] = held[TitleOf(q)] /\ held[TitleOf(q)].cost \in Nat
  BY WritersDiffer DEF RowTypes, Row
<1>3. charges \in Nat /\ duringTitle \in Nat
  BY DEF RowTypes
<1> QED
  BY <1>1, <1>2, <1>3

\* Whoever saves the row has seen all the charges, or a title generator has not.
LEMMA CostsKeptKept ==
    ASSUME RunTypes, SummaryTypes, OtherTypes, RowTypes, alone => OneAtATime /\ CostsKept, [Next]_vars
    PROVE  alone' => CostsKept'
<1> USE DEF RunTypes, RunState, SummaryTypes, SummaryState, OtherTypes
<1>1. ASSUME Cancel PROVE alone' => CostsKept'
  BY <1>1, WritersDiffer DEF Cancel, CostsKept, Goto, SummaryGoto, saved, rowVars, requestVars, RowTypes, Row
<1>2. ASSUME Crash PROVE alone' => CostsKept'
  BY <1>2, WritersDiffer, OverIsState
    DEF Crash, CostsKept, Goto, SummaryGoto, saved, rowVars, requestVars, RowTypes, Row,
        SummaryOver, RunGoes, SummaryGoes
<1>3. ASSUME NEW r \in Runs, Send(r) PROVE alone' => CostsKept'
  BY <1>3, WritersDiffer DEF Send, CostsKept, Goto, SummaryGoto, saved, rowVars, requestVars, RowTypes, Row
<1>4. ASSUME NEW r \in Runs, GiveUp(r) PROVE alone' => CostsKept'
  BY <1>4, WritersDiffer
    DEF GiveUp, CostsKept, Goto, SummaryGoto, saved, rowVars, requestVars, RowTypes, Row, Drop,
        OneAtATime, RunGoes, SummaryGoes
<1>5. ASSUME NEW r \in Runs, ListMessages(r) PROVE alone' => CostsKept'
  <2>1. run'[r].at \notin {"save", "delegate"} /\ \A q \in Runs : q # r => run'[q] = run[q]
    <3>1. WithHistory(r, "session", [i \in 1..Len(messages) |-> i])
      BY <1>5 DEF ListMessages, WithHistory
    <3> QED
      BY <3>1, HistoryAt
  <2>2. UNCHANGED <<rowVars, summary, alone>> /\ \A q \in Runs : title'[q] = "asked" => title[q] = "asked"
    BY <1>5 DEF ListMessages, requestVars
  <2> QED
    BY <2>1, <2>2, CostsStay
<1>6. ASSUME NEW r \in Runs, GetSession(r) PROVE alone' => CostsKept'
  <2>1. run'[r].at \notin {"save", "delegate"} /\ \A q \in Runs : q # r => run'[q] = run[q]
    <3>1. WithHistory(r, "prompt", FromSummary(run[r].history, row.summaryMessage))
      BY <1>6 DEF GetSession, WithHistory
    <3> QED
      BY <3>1, HistoryAt
  <2>2. UNCHANGED <<rowVars, summary, alone>> /\ \A q \in Runs : title'[q] = "asked" => title[q] = "asked"
    BY <1>6 DEF GetSession, requestVars
  <2> QED
    BY <2>1, <2>2, CostsStay
<1>7. ASSUME NEW r \in Runs, CreateUserMessage(r) PROVE alone' => CostsKept'
  <2>1. run'[r].at \notin {"save", "delegate"} /\ \A q \in Runs : q # r => run'[q] = run[q]
    <3>1. WithHistory(r, "iterate", Append(run[r].history, Len(messages) + 1))
      BY <1>7 DEF CreateUserMessage, WithHistory
    <3> QED
      BY <3>1, HistoryAt
  <2>2. UNCHANGED <<rowVars, summary, alone>> /\ \A q \in Runs : title'[q] = "asked" => title[q] = "asked"
    BY <1>7 DEF CreateUserMessage, requestVars
  <2> QED
    BY <2>1, <2>2, CostsStay
<1>8. ASSUME NEW r \in Runs, Iterate(r) PROVE alone' => CostsKept'
  <2>1. run'[r].at \notin {"save", "delegate"} /\ \A q \in Runs : q # r => run'[q] = run[q]
    <3>1. WithResponses(r, "create", run[r].responses + 1)
      BY <1>8 DEF Iterate, WithResponses
    <3> QED
      BY <3>1, ResponsesAt
  <2>2. UNCHANGED <<rowVars, summary, alone>> /\ \A q \in Runs : title'[q] = "asked" => title[q] = "asked"
    BY <1>8 DEF Iterate, requestVars
  <2> QED
    BY <2>1, <2>2, CostsStay
<1>9. ASSUME NEW r \in Runs, CreateAssistantMessage(r) PROVE alone' => CostsKept'
  <2>1. run'[r].at \notin {"save", "delegate"} /\ \A q \in Runs : q # r => run'[q] = run[q]
    <3>1. WithMessage(r, "stream", Len(messages) + 1)
      BY <1>9 DEF CreateAssistantMessage, WithMessage
    <3> QED
      BY <3>1, MessageAt
  <2>2. UNCHANGED <<rowVars, summary, alone>> /\ \A q \in Runs : title'[q] = "asked" => title[q] = "asked"
    BY <1>9 DEF CreateAssistantMessage, requestVars
  <2> QED
    BY <2>1, <2>2, CostsStay
<1>10. ASSUME NEW r \in Runs, StreamBreaks(r) PROVE alone' => CostsKept'
  <2>1. run'[r].at \notin {"save", "delegate"} /\ \A q \in Runs : q # r => run'[q] = run[q]
    BY <1>10, GotoAt DEF StreamBreaks
  <2>2. UNCHANGED <<rowVars, summary, alone>> /\ \A q \in Runs : title'[q] = "asked" => title[q] = "asked"
    BY <1>10 DEF StreamBreaks, requestVars
  <2> QED
    BY <2>1, <2>2, CostsStay
<1>11. ASSUME NEW r \in Runs, StreamCompletes(r) PROVE alone' => CostsKept'
  <2>1. run'[r].at \notin {"save", "delegate"} /\ \A q \in Runs : q # r => run'[q] = run[q]
    BY <1>11, GotoAt DEF StreamCompletes
  <2>2. UNCHANGED <<rowVars, summary, alone>> /\ \A q \in Runs : title'[q] = "asked" => title[q] = "asked"
    BY <1>11 DEF StreamCompletes, requestVars
  <2> QED
    BY <2>1, <2>2, CostsStay
<1>12. ASSUME NEW r \in Runs, TrackUsageReads(r) PROVE alone' => CostsKept'
  BY <1>12, WritersDiffer
    DEF TrackUsageReads, CostsKept, Goto, SummaryGoto, saved, rowVars, requestVars, RowTypes,
        Row, Get
<1>13. ASSUME NEW r \in Runs, TrackUsageSaves(r) PROVE alone' => CostsKept'
  <2> SUFFICES ASSUME alone PROVE CostsKept'
    BY <1>13 DEF TrackUsageSaves, requestVars
  <2>1. run[r].at = "save"
    BY <1>13 DEF TrackUsageSaves
  <2>2. charges <= held[RunOf(r)].cost + duringTitle
    BY <2>1 DEF CostsKept
  <2>3. SaveCharge(RunOf(r), Charged(RunOf(r))) /\ UNCHANGED <<title, summary>>
    BY <1>13 DEF TrackUsageSaves
  <2>4. /\ charges' = charges + 1
        /\ charges' <= row'.cost + duringTitle'
        /\ \A v \in Writers : v # RunOf(r) => held'[v] = held[v]
        /\ duringTitle' = IF TitlePending THEN duringTitle + 1 ELSE duringTitle
    BY <2>2, <2>3, WritersDiffer, ChargedAddsOne, ChargeIsCounted
  <2>5. \A q \in Runs : run'[q].at \notin {"save", "delegate"}
    <3>1. run'[r].at = "check" /\ \A q \in Runs : q # r => run'[q] = run[q]
      BY <1>13, GotoAt DEF TrackUsageSaves
    <3>2. \A q \in Runs : q # r => run[q].at \in {"idle", "over"}
      BY <2>1 DEF OneAtATime, RunGoes
    <3> QED
      BY <3>1, <3>2
  <2>6. ASSUME NEW q \in Runs, title[q] = "asked"
       PROVE  charges' <= held'[TitleOf(q)].cost + duringTitle'
    BY <2>4, <2>6, WritersDiffer, TitleHolds
  <2>7. \A k \in Summaries : summary[k].at \notin {"create", "save"}
    BY <2>1 DEF OneAtATime, RunGoes, SummaryGoes
  <2> QED
    BY <2>3, <2>4, <2>5, <2>6, <2>7 DEF CostsKept
<1>14. ASSUME NEW r \in Runs, CallTools(r) PROVE alone' => CostsKept'
  <2>1. run'[r].at \notin {"save", "delegate"} /\ \A q \in Runs : q # r => run'[q] = run[q]
    BY <1>14, GotoAt DEF CallTools
  <2>2. UNCHANGED <<rowVars, summary, alone>> /\ \A q \in Runs : title'[q] = "asked" => title[q] = "asked"
    BY <1>14 DEF CallTools, requestVars
  <2> QED
    BY <2>1, <2>2, CostsStay
<1>15. ASSUME NEW r \in Runs, DelegateReads(r) PROVE alone' => CostsKept'
  BY <1>15, WritersDiffer
    DEF DelegateReads, CostsKept, Goto, SummaryGoto, saved, rowVars, requestVars, RowTypes, Row,
        Get
<1>16. ASSUME NEW r \in Runs, DelegateSaves(r) PROVE alone' => CostsKept'
  <2>0. CASE run[r].cancelled
    BY <1>16, <2>0, WritersDiffer
      DEF DelegateSaves, Drop, CostsKept, OneAtATime, RunGoes, Goto, saved, requestVars,
          RowTypes, Row
  <2>1. CASE ~run[r].cancelled
    <3> SUFFICES ASSUME alone PROVE CostsKept'
      BY <1>16 DEF DelegateSaves, requestVars
    <3>1. run[r].at = "delegate"
      BY <1>16 DEF DelegateSaves
    <3>2. charges <= held[RunOf(r)].cost + duringTitle
      BY <3>1 DEF CostsKept
    <3>3. SaveCharge(RunOf(r), Charged(RunOf(r))) /\ UNCHANGED <<title, summary>>
      BY <1>16, <2>1 DEF DelegateSaves
    <3>4. /\ charges' = charges + 1
          /\ charges' <= row'.cost + duringTitle'
          /\ \A v \in Writers : v # RunOf(r) => held'[v] = held[v]
          /\ duringTitle' = IF TitlePending THEN duringTitle + 1 ELSE duringTitle
      BY <3>2, <3>3, WritersDiffer, ChargedAddsOne, ChargeIsCounted
    <3>5. \A q \in Runs : run'[q].at \notin {"save", "delegate"}
      <4>1. run'[r].at = "results" /\ \A q \in Runs : q # r => run'[q] = run[q]
        BY <1>16, GotoAt DEF DelegateSaves
      <4>2. \A q \in Runs : q # r => run[q].at \in {"idle", "over"}
        BY <3>1 DEF OneAtATime, RunGoes
      <4> QED
        BY <4>1, <4>2
    <3>6. ASSUME NEW q \in Runs, title[q] = "asked"
         PROVE  charges' <= held'[TitleOf(q)].cost + duringTitle'
      BY <3>4, <3>6, WritersDiffer, TitleHolds
    <3>7. \A k \in Summaries : summary[k].at \notin {"create", "save"}
      BY <3>1 DEF OneAtATime, RunGoes, SummaryGoes
    <3> QED
      BY <3>3, <3>4, <3>5, <3>6, <3>7 DEF CostsKept
  <2> QED
    BY <2>0, <2>1
<1>17. ASSUME NEW r \in Runs, CreateToolMessage(r) PROVE alone' => CostsKept'
  <2>1. run'[r].at \notin {"save", "delegate"} /\ \A q \in Runs : q # r => run'[q] = run[q]
    <3>1. \/ Goto(r, "end")
          \/ WithHistory(r, "iterate", run[r].history \o <<run[r].message, Len(messages) + 1>>)
      BY <1>17 DEF CreateToolMessage, WithHistory
    <3> QED
      BY <3>1, HistoryAt, GotoAt
  <2>2. UNCHANGED <<rowVars, summary, alone>> /\ \A q \in Runs : title'[q] = "asked" => title[q] = "asked"
    BY <1>17 DEF CreateToolMessage, requestVars
  <2> QED
    BY <2>1, <2>2, CostsStay
<1>18. ASSUME NEW r \in Runs, Finish(r) PROVE alone' => CostsKept'
  BY <1>18, WritersDiffer, OverIsState
    DEF Finish, CostsKept, Goto, SummaryGoto, saved, rowVars, requestVars, RowTypes, Row
<1>19. ASSUME NEW r \in Runs, TitleReads(r) PROVE alone' => CostsKept'
  BY <1>19, WritersDiffer
    DEF TitleReads, CostsKept, Goto, SummaryGoto, saved, rowVars, requestVars, RowTypes, Row, Get
<1>20. ASSUME NEW r \in Runs, TitleSaves(r) PROVE alone' => CostsKept'
  BY <1>20, WritersDiffer
    DEF TitleSaves, CostsKept, Goto, SummaryGoto, saved, rowVars, requestVars, RowTypes, Row,
        Drop, OneAtATime, RunGoes, SummaryGoes
<1>21. ASSUME NEW r \in Runs, TitleFails(r) PROVE alone' => CostsKept'
  BY <1>21, WritersDiffer
    DEF TitleFails, CostsKept, Goto, SummaryGoto, saved, rowVars, requestVars, RowTypes, Row,
        Drop, OneAtATime, RunGoes, SummaryGoes
<1>22. ASSUME NEW k \in Summaries, Summarize(k) PROVE alone' => CostsKept'
  BY <1>22, WritersDiffer
    DEF Summarize, CostsKept, Goto, SummaryGoto, saved, rowVars, requestVars, RowTypes, Row
<1>23. ASSUME NEW k \in Summaries, SummaryGivesUp(k) PROVE alone' => CostsKept'
  BY <1>23, WritersDiffer
    DEF SummaryGivesUp, CostsKept, Goto, SummaryGoto, saved, rowVars, requestVars, RowTypes, Row,
        Drop, OneAtATime, RunGoes, SummaryGoes
<1>24. ASSUME NEW k \in Summaries, SummaryLists(k) PROVE alone' => CostsKept'
  BY <1>24, WritersDiffer
    DEF SummaryLists, CostsKept, Goto, SummaryGoto, saved, rowVars, requestVars, RowTypes, Row
<1>25. ASSUME NEW k \in Summaries, SummaryAnswered(k) PROVE alone' => CostsKept'
  BY <1>25, WritersDiffer
    DEF SummaryAnswered, CostsKept, Goto, SummaryGoto, saved, rowVars, requestVars, RowTypes, Row
<1>26. ASSUME NEW k \in Summaries, SummaryReads(k) PROVE alone' => CostsKept'
  BY <1>26, WritersDiffer
    DEF SummaryReads, CostsKept, Goto, SummaryGoto, saved, rowVars, requestVars, RowTypes, Row,
        Get
<1>27. ASSUME NEW k \in Summaries, SummaryCreates(k) PROVE alone' => CostsKept'
  BY <1>27, WritersDiffer
    DEF SummaryCreates, CostsKept, Goto, SummaryGoto, saved, rowVars, requestVars, RowTypes, Row
<1>28. ASSUME NEW k \in Summaries, SummarySaves(k) PROVE alone' => CostsKept'
  <2> SUFFICES ASSUME alone PROVE CostsKept'
    BY <1>28 DEF SummarySaves, requestVars
  <2>1. summary[k].at = "save"
    BY <1>28 DEF SummarySaves
  <2>2. charges <= held[SummaryOf(k)].cost + duringTitle
    BY <2>1 DEF CostsKept
  <2>3. /\ SaveCharge(SummaryOf(k), [Charged(SummaryOf(k)) EXCEPT !.summaryMessage = summary[k].message])
        /\ summary[k].message \in Nat
        /\ UNCHANGED <<title, run>>
    BY <1>28 DEF SummarySaves
  <2>4. /\ charges' = charges + 1
        /\ charges' <= row'.cost + duringTitle'
        /\ \A v \in Writers : v # SummaryOf(k) => held'[v] = held[v]
        /\ duringTitle' = IF TitlePending THEN duringTitle + 1 ELSE duringTitle
    <3> PICK new : new = [Charged(SummaryOf(k)) EXCEPT !.summaryMessage = summary[k].message]
      OBVIOUS
    <3>1. SummaryOf(k) \in Writers
      BY WritersDiffer
    <3>2. new \in Row /\ new.cost = held[SummaryOf(k)].cost + 1
      BY <2>3, <3>1, ChargedAddsOne
    <3> QED
      BY <2>2, <2>3, <3>1, <3>2, ChargeIsCounted
  <2>5. \A l \in Summaries : summary'[l].at \notin {"create", "save"}
    <3>1. \A l \in Summaries : l # k => summary[l].at \in {"idle", "over"}
      BY <2>1 DEF OneAtATime, SummaryGoes
    <3>2. \A l \in Summaries : summary'[l] = IF l = k THEN [summary[k] EXCEPT !.at = "end"] ELSE summary[l]
      BY <1>28 DEF SummarySaves, SummaryGoto
    <3> QED
      BY <3>1, <3>2
  <2>6. ASSUME NEW q \in Runs, title[q] = "asked"
       PROVE  charges' <= held'[TitleOf(q)].cost + duringTitle'
    BY <2>4, <2>6, WritersDiffer, TitleHolds
  <2>7. \A q \in Runs : run[q].at \notin {"save", "delegate"}
    BY <2>1 DEF OneAtATime, RunGoes, SummaryGoes
  <2> QED
    BY <2>3, <2>4, <2>5, <2>6, <2>7 DEF CostsKept
<1>29. ASSUME NEW k \in Summaries, SummaryFinishes(k) PROVE alone' => CostsKept'
  BY <1>29, WritersDiffer
    DEF SummaryFinishes, CostsKept, Goto, SummaryGoto, saved, rowVars, requestVars, RowTypes,
        Row, SummaryOver
<1>30. ASSUME UNCHANGED vars PROVE alone' => CostsKept'
  BY <1>30, WritersDiffer DEF vars, CostsKept, Goto, SummaryGoto, saved, rowVars, requestVars, RowTypes, Row
<1> QED
  BY <1>1, <1>2, <1>3, <1>4, <1>5, <1>6, <1>7, <1>8, <1>9, <1>10, <1>11, <1>12, <1>13, <1>14, <1>15,
     <1>16, <1>17, <1>18, <1>19, <1>20, <1>21, <1>22, <1>23, <1>24, <1>25, <1>26, <1>27, <1>28, <1>29,
     <1>30
    DEF Next, RunStep, TitleStep, SummaryStep

-----------------------------------------------------------------------------
(* What messages say, and who names them *)

\* A message is updated.
Refined(r, c) ==
    /\ run[r].at = "stream"
    /\ messages' = [messages EXCEPT ![run[r].message].calls = c]

\* What a step may do to the messages.
MessageStep ==
    \/ UNCHANGED messages
    \/ \E role \in {"user", "assistant", "tool", "summary"}, answers \in Nat :
          Append1(role, answers) /\ (answers # 0 => role = "tool")
    \/ \E r \in Runs, c \in BOOLEAN : Refined(r, c)

\* A step leaves the messages as they are, adds one, or updates the message of a
\* run that streams.
LEMMA MessageSteps ==
    ASSUME messages \in Seq(Message), RunTypes, [Next]_vars
    PROVE  MessageStep
<1>1. ASSUME Cancel PROVE MessageStep
  BY <1>1 DEF Cancel, MessageStep, saved, rowVars, requestVars, vars
<1>2. ASSUME Crash PROVE MessageStep
  BY <1>2 DEF Crash, MessageStep, saved, rowVars, requestVars, vars
<1>3. ASSUME NEW r \in Runs, Send(r) PROVE MessageStep
  BY <1>3 DEF Send, MessageStep, saved, rowVars, requestVars, vars
<1>4. ASSUME NEW r \in Runs, GiveUp(r) PROVE MessageStep
  BY <1>4 DEF GiveUp, MessageStep, saved, rowVars, requestVars, vars
<1>5. ASSUME NEW r \in Runs, ListMessages(r) PROVE MessageStep
  BY <1>5 DEF ListMessages, MessageStep, saved, rowVars, requestVars, vars
<1>6. ASSUME NEW r \in Runs, GetSession(r) PROVE MessageStep
  BY <1>6 DEF GetSession, MessageStep, saved, rowVars, requestVars, vars
<1>7. ASSUME NEW r \in Runs, CreateUserMessage(r) PROVE MessageStep
  BY <1>7 DEF CreateUserMessage, MessageStep, saved, rowVars, requestVars, vars
<1>8. ASSUME NEW r \in Runs, Iterate(r) PROVE MessageStep
  BY <1>8 DEF Iterate, MessageStep, saved, rowVars, requestVars, vars
<1>9. ASSUME NEW r \in Runs, CreateAssistantMessage(r) PROVE MessageStep
  BY <1>9 DEF CreateAssistantMessage, MessageStep, saved, rowVars, requestVars, vars
<1>10. ASSUME NEW r \in Runs, StreamBreaks(r) PROVE MessageStep
  BY <1>10 DEF StreamBreaks, MessageStep, saved, rowVars, requestVars, vars, Refined
<1>11. ASSUME NEW r \in Runs, StreamCompletes(r) PROVE MessageStep
  BY <1>11 DEF StreamCompletes, MessageStep, saved, rowVars, requestVars, vars, Refined
<1>12. ASSUME NEW r \in Runs, TrackUsageReads(r) PROVE MessageStep
  BY <1>12 DEF TrackUsageReads, MessageStep, saved, rowVars, requestVars, vars
<1>13. ASSUME NEW r \in Runs, TrackUsageSaves(r) PROVE MessageStep
  BY <1>13 DEF TrackUsageSaves, MessageStep, saved, rowVars, requestVars, vars
<1>14. ASSUME NEW r \in Runs, CallTools(r) PROVE MessageStep
  BY <1>14 DEF CallTools, MessageStep, saved, rowVars, requestVars, vars
<1>15. ASSUME NEW r \in Runs, DelegateReads(r) PROVE MessageStep
  BY <1>15 DEF DelegateReads, MessageStep, saved, rowVars, requestVars, vars
<1>16. ASSUME NEW r \in Runs, DelegateSaves(r) PROVE MessageStep
  BY <1>16 DEF DelegateSaves, MessageStep, saved, rowVars, requestVars, vars
<1>17. ASSUME NEW r \in Runs, CreateToolMessage(r) PROVE MessageStep
  BY <1>17
    DEF CreateToolMessage, MessageStep, saved, rowVars, requestVars, vars, MayAnswer, RunTypes,
        RunState
<1>18. ASSUME NEW r \in Runs, Finish(r) PROVE MessageStep
  BY <1>18 DEF Finish, MessageStep, saved, rowVars, requestVars, vars
<1>19. ASSUME NEW r \in Runs, TitleReads(r) PROVE MessageStep
  BY <1>19 DEF TitleReads, MessageStep, saved, rowVars, requestVars, vars
<1>20. ASSUME NEW r \in Runs, TitleSaves(r) PROVE MessageStep
  BY <1>20 DEF TitleSaves, MessageStep, saved, rowVars, requestVars, vars
<1>21. ASSUME NEW r \in Runs, TitleFails(r) PROVE MessageStep
  BY <1>21 DEF TitleFails, MessageStep, saved, rowVars, requestVars, vars
<1>22. ASSUME NEW k \in Summaries, Summarize(k) PROVE MessageStep
  BY <1>22 DEF Summarize, MessageStep, saved, rowVars, requestVars, vars
<1>23. ASSUME NEW k \in Summaries, SummaryGivesUp(k) PROVE MessageStep
  BY <1>23 DEF SummaryGivesUp, MessageStep, saved, rowVars, requestVars, vars
<1>24. ASSUME NEW k \in Summaries, SummaryLists(k) PROVE MessageStep
  BY <1>24 DEF SummaryLists, MessageStep, saved, rowVars, requestVars, vars
<1>25. ASSUME NEW k \in Summaries, SummaryAnswered(k) PROVE MessageStep
  BY <1>25 DEF SummaryAnswered, MessageStep, saved, rowVars, requestVars, vars
<1>26. ASSUME NEW k \in Summaries, SummaryReads(k) PROVE MessageStep
  BY <1>26 DEF SummaryReads, MessageStep, saved, rowVars, requestVars, vars
<1>27. ASSUME NEW k \in Summaries, SummaryCreates(k) PROVE MessageStep
  BY <1>27 DEF SummaryCreates, MessageStep, saved, rowVars, requestVars, vars
<1>28. ASSUME NEW k \in Summaries, SummarySaves(k) PROVE MessageStep
  BY <1>28 DEF SummarySaves, MessageStep, saved, rowVars, requestVars, vars
<1>29. ASSUME NEW k \in Summaries, SummaryFinishes(k) PROVE MessageStep
  BY <1>29 DEF SummaryFinishes, MessageStep, saved, rowVars, requestVars, vars
<1>30. ASSUME UNCHANGED vars PROVE MessageStep
  BY <1>30 DEF vars, MessageStep, saved, rowVars, requestVars, vars
<1> QED
  BY <1>1, <1>2, <1>3, <1>4, <1>5, <1>6, <1>7, <1>8, <1>9, <1>10, <1>11, <1>12, <1>13, <1>14, <1>15,
     <1>16, <1>17, <1>18, <1>19, <1>20, <1>21, <1>22, <1>23, <1>24, <1>25, <1>26, <1>27, <1>28, <1>29,
     <1>30
    DEF Next, RunStep, TitleStep, SummaryStep

\* Only an assistant's message calls tools, and only a tool message answers.
LEMMA RolesKept ==
    ASSUME Types, CurrentOK, RolesOK, [Next]_vars
    PROVE  RolesOK'
<1>0. messages \in Seq(Message) /\ RunTypes /\ Len(messages) \in Nat
  BY LenProperties DEF Types, MessageTypes
<1>1. CASE UNCHANGED messages
  BY <1>1 DEF RolesOK
<1>2. ASSUME NEW role \in {"user", "assistant", "tool", "summary"}, NEW answers \in Nat,
             Append1(role, answers), answers # 0 => role = "tool"
      PROVE  RolesOK'
  <2>1. /\ Len(messages') = Len(messages) + 1
        /\ \A i \in 1..Len(messages) : messages'[i] = messages[i]
        /\ messages'[Len(messages) + 1].role = role
        /\ messages'[Len(messages) + 1].calls = FALSE
        /\ messages'[Len(messages) + 1].answers = answers
    BY <1>0, <1>2, Stores
  <2> SUFFICES ASSUME NEW i \in 1..Len(messages')
               PROVE  /\ messages'[i].calls => messages'[i].role = "assistant"
                      /\ messages'[i].answers # 0 => messages'[i].role = "tool"
    BY DEF RolesOK
  <2>2. CASE i \in 1..Len(messages)
    BY <2>1, <2>2 DEF RolesOK
  <2>3. CASE i = Len(messages) + 1
    BY <1>2, <2>1, <2>3
  <2> QED
    BY <1>0, <2>1, <2>2, <2>3
<1>3. ASSUME NEW r \in Runs, NEW c \in BOOLEAN, Refined(r, c)
      PROVE  RolesOK'
  <2>1. run[r].message \in 1..Len(messages) /\ messages[run[r].message].role = "assistant"
    BY <1>3 DEF Refined, CurrentOK, Writing
  <2>2. /\ Len(messages') = Len(messages)
        /\ \A i \in 1..Len(messages) : /\ messages'[i].role = messages[i].role
                                       /\ messages'[i].answers = messages[i].answers
                                       /\ i # run[r].message => messages'[i] = messages[i]
    BY <1>0, <1>3, <2>1, Updates, LenProperties DEF Refined
  <2> QED
    BY <2>1, <2>2 DEF RolesOK
<1> QED
  BY <1>0, <1>1, <1>2, <1>3, MessageSteps DEF MessageStep

\* A summary that was stored keeps its place and what it was made from.
SummariesStay ==
    \A k \in Summaries : Stored(k) => /\ summary'[k].message = summary[k].message
                                      /\ summary'[k].saw = summary[k].saw

\* No step takes back a summary that was stored.
LEMMA StoredStays ==
    ASSUME SummaryTypes, PlacesOK, [Next]_vars
    PROVE  SummariesStay
<1> USE DEF SummaryTypes, SummaryState
<1>1. ASSUME Cancel PROVE SummariesStay
  BY <1>1 DEF Cancel, SummariesStay, Stored, SummaryGoto, vars
<1>2. ASSUME Crash PROVE SummariesStay
  BY <1>2 DEF Crash, SummariesStay, Stored, SummaryGoto, vars, SummaryOver
<1>3. ASSUME NEW r \in Runs, Send(r) PROVE SummariesStay
  BY <1>3 DEF Send, SummariesStay, Stored, SummaryGoto, vars
<1>4. ASSUME NEW r \in Runs, GiveUp(r) PROVE SummariesStay
  BY <1>4 DEF GiveUp, SummariesStay, Stored, SummaryGoto, vars
<1>5. ASSUME NEW r \in Runs, ListMessages(r) PROVE SummariesStay
  BY <1>5 DEF ListMessages, SummariesStay, Stored, SummaryGoto, vars
<1>6. ASSUME NEW r \in Runs, GetSession(r) PROVE SummariesStay
  BY <1>6 DEF GetSession, SummariesStay, Stored, SummaryGoto, vars
<1>7. ASSUME NEW r \in Runs, CreateUserMessage(r) PROVE SummariesStay
  BY <1>7 DEF CreateUserMessage, SummariesStay, Stored, SummaryGoto, vars
<1>8. ASSUME NEW r \in Runs, Iterate(r) PROVE SummariesStay
  BY <1>8 DEF Iterate, SummariesStay, Stored, SummaryGoto, vars
<1>9. ASSUME NEW r \in Runs, CreateAssistantMessage(r) PROVE SummariesStay
  BY <1>9 DEF CreateAssistantMessage, SummariesStay, Stored, SummaryGoto, vars
<1>10. ASSUME NEW r \in Runs, StreamBreaks(r) PROVE SummariesStay
  BY <1>10 DEF StreamBreaks, SummariesStay, Stored, SummaryGoto, vars
<1>11. ASSUME NEW r \in Runs, StreamCompletes(r) PROVE SummariesStay
  BY <1>11 DEF StreamCompletes, SummariesStay, Stored, SummaryGoto, vars
<1>12. ASSUME NEW r \in Runs, TrackUsageReads(r) PROVE SummariesStay
  BY <1>12 DEF TrackUsageReads, SummariesStay, Stored, SummaryGoto, vars
<1>13. ASSUME NEW r \in Runs, TrackUsageSaves(r) PROVE SummariesStay
  BY <1>13 DEF TrackUsageSaves, SummariesStay, Stored, SummaryGoto, vars
<1>14. ASSUME NEW r \in Runs, CallTools(r) PROVE SummariesStay
  BY <1>14 DEF CallTools, SummariesStay, Stored, SummaryGoto, vars
<1>15. ASSUME NEW r \in Runs, DelegateReads(r) PROVE SummariesStay
  BY <1>15 DEF DelegateReads, SummariesStay, Stored, SummaryGoto, vars
<1>16. ASSUME NEW r \in Runs, DelegateSaves(r) PROVE SummariesStay
  BY <1>16 DEF DelegateSaves, SummariesStay, Stored, SummaryGoto, vars
<1>17. ASSUME NEW r \in Runs, CreateToolMessage(r) PROVE SummariesStay
  BY <1>17 DEF CreateToolMessage, SummariesStay, Stored, SummaryGoto, vars
<1>18. ASSUME NEW r \in Runs, Finish(r) PROVE SummariesStay
  BY <1>18 DEF Finish, SummariesStay, Stored, SummaryGoto, vars
<1>19. ASSUME NEW r \in Runs, TitleReads(r) PROVE SummariesStay
  BY <1>19 DEF TitleReads, SummariesStay, Stored, SummaryGoto, vars
<1>20. ASSUME NEW r \in Runs, TitleSaves(r) PROVE SummariesStay
  BY <1>20 DEF TitleSaves, SummariesStay, Stored, SummaryGoto, vars
<1>21. ASSUME NEW r \in Runs, TitleFails(r) PROVE SummariesStay
  BY <1>21 DEF TitleFails, SummariesStay, Stored, SummaryGoto, vars
<1>22. ASSUME NEW k \in Summaries, Summarize(k) PROVE SummariesStay
  BY <1>22 DEF Summarize, SummariesStay, Stored, SummaryGoto, vars, PlacesOK, Unstored
<1>23. ASSUME NEW k \in Summaries, SummaryGivesUp(k) PROVE SummariesStay
  BY <1>23 DEF SummaryGivesUp, SummariesStay, Stored, SummaryGoto, vars
<1>24. ASSUME NEW k \in Summaries, SummaryLists(k) PROVE SummariesStay
  BY <1>24 DEF SummaryLists, SummariesStay, Stored, SummaryGoto, vars, PlacesOK, Unstored
<1>25. ASSUME NEW k \in Summaries, SummaryAnswered(k) PROVE SummariesStay
  BY <1>25 DEF SummaryAnswered, SummariesStay, Stored, SummaryGoto, vars
<1>26. ASSUME NEW k \in Summaries, SummaryReads(k) PROVE SummariesStay
  BY <1>26 DEF SummaryReads, SummariesStay, Stored, SummaryGoto, vars
<1>27. ASSUME NEW k \in Summaries, SummaryCreates(k) PROVE SummariesStay
  BY <1>27 DEF SummaryCreates, SummariesStay, Stored, SummaryGoto, vars, PlacesOK, Unstored
<1>28. ASSUME NEW k \in Summaries, SummarySaves(k) PROVE SummariesStay
  BY <1>28 DEF SummarySaves, SummariesStay, Stored, SummaryGoto, vars
<1>29. ASSUME NEW k \in Summaries, SummaryFinishes(k) PROVE SummariesStay
  BY <1>29 DEF SummaryFinishes, SummariesStay, Stored, SummaryGoto, vars, SummaryOver
<1>30. ASSUME UNCHANGED vars PROVE SummariesStay
  BY <1>30 DEF vars, SummariesStay, Stored, SummaryGoto, vars
<1> QED
  BY <1>1, <1>2, <1>3, <1>4, <1>5, <1>6, <1>7, <1>8, <1>9, <1>10, <1>11, <1>12, <1>13, <1>14, <1>15,
     <1>16, <1>17, <1>18, <1>19, <1>20, <1>21, <1>22, <1>23, <1>24, <1>25, <1>26, <1>27, <1>28, <1>29,
     <1>30
    DEF Next, RunStep, TitleStep, SummaryStep

\* Whoever names a summary goes on to do so.
LEMMA NamesStay ==
    ASSUME SummaryTypes, PlacesOK, [Next]_vars
    PROVE  Names \subseteq Names'
<1> SUFFICES ASSUME NEW k \in Summaries PROVE summary[k].message \in Names'
  BY DEF Names
<1>1. CASE Stored(k)
  BY <1>1, StoredStays DEF SummariesStay, Names
<1>2. CASE ~Stored(k)
  BY <1>2 DEF Stored, Names
<1> QED
  BY <1>1, <1>2

\* A summary is a message that follows what it was made from.
LEMMA PlacesKept ==
    ASSUME Types, CurrentOK, PlacesOK, [Next]_vars
    PROVE  PlacesOK'
<1>0. MessagesStay /\ Len(messages) \in Nat /\ Len(messages') \in Nat /\ messages \in Seq(Message)
  BY TypesKept, MessagesAreStable, LenProperties DEF Types, MessageTypes
<1> USE DEF Types, SummaryTypes, SummaryState, MessagesStay, vars
<1>1. ASSUME Cancel PROVE PlacesOK'
  BY <1>1, <1>0 DEF Cancel, PlacesOK, Stored, Role, Unstored, SummaryGoto
<1>2. ASSUME Crash PROVE PlacesOK'
  BY <1>2, <1>0 DEF Crash, PlacesOK, Stored, Role, Unstored, SummaryGoto, SummaryOver
<1>3. ASSUME NEW r \in Runs, Send(r) PROVE PlacesOK'
  BY <1>3, <1>0 DEF Send, PlacesOK, Stored, Role, Unstored, SummaryGoto
<1>4. ASSUME NEW r \in Runs, GiveUp(r) PROVE PlacesOK'
  BY <1>4, <1>0 DEF GiveUp, PlacesOK, Stored, Role, Unstored, SummaryGoto
<1>5. ASSUME NEW r \in Runs, ListMessages(r) PROVE PlacesOK'
  BY <1>5, <1>0 DEF ListMessages, PlacesOK, Stored, Role, Unstored, SummaryGoto
<1>6. ASSUME NEW r \in Runs, GetSession(r) PROVE PlacesOK'
  BY <1>6, <1>0 DEF GetSession, PlacesOK, Stored, Role, Unstored, SummaryGoto
<1>7. ASSUME NEW r \in Runs, CreateUserMessage(r) PROVE PlacesOK'
  BY <1>7, <1>0 DEF CreateUserMessage, PlacesOK, Stored, Role, Unstored, SummaryGoto
<1>8. ASSUME NEW r \in Runs, Iterate(r) PROVE PlacesOK'
  BY <1>8, <1>0 DEF Iterate, PlacesOK, Stored, Role, Unstored, SummaryGoto
<1>9. ASSUME NEW r \in Runs, CreateAssistantMessage(r) PROVE PlacesOK'
  BY <1>9, <1>0 DEF CreateAssistantMessage, PlacesOK, Stored, Role, Unstored, SummaryGoto
<1>10. ASSUME NEW r \in Runs, StreamBreaks(r) PROVE PlacesOK'
  BY <1>10, <1>0 DEF StreamBreaks, PlacesOK, Stored, Role, Unstored, SummaryGoto
<1>11. ASSUME NEW r \in Runs, StreamCompletes(r) PROVE PlacesOK'
  BY <1>11, <1>0 DEF StreamCompletes, PlacesOK, Stored, Role, Unstored, SummaryGoto
<1>12. ASSUME NEW r \in Runs, TrackUsageReads(r) PROVE PlacesOK'
  BY <1>12, <1>0 DEF TrackUsageReads, PlacesOK, Stored, Role, Unstored, SummaryGoto
<1>13. ASSUME NEW r \in Runs, TrackUsageSaves(r) PROVE PlacesOK'
  BY <1>13, <1>0 DEF TrackUsageSaves, PlacesOK, Stored, Role, Unstored, SummaryGoto
<1>14. ASSUME NEW r \in Runs, CallTools(r) PROVE PlacesOK'
  BY <1>14, <1>0 DEF CallTools, PlacesOK, Stored, Role, Unstored, SummaryGoto
<1>15. ASSUME NEW r \in Runs, DelegateReads(r) PROVE PlacesOK'
  BY <1>15, <1>0 DEF DelegateReads, PlacesOK, Stored, Role, Unstored, SummaryGoto
<1>16. ASSUME NEW r \in Runs, DelegateSaves(r) PROVE PlacesOK'
  BY <1>16, <1>0 DEF DelegateSaves, PlacesOK, Stored, Role, Unstored, SummaryGoto
<1>17. ASSUME NEW r \in Runs, CreateToolMessage(r) PROVE PlacesOK'
  BY <1>17, <1>0 DEF CreateToolMessage, PlacesOK, Stored, Role, Unstored, SummaryGoto
<1>18. ASSUME NEW r \in Runs, Finish(r) PROVE PlacesOK'
  BY <1>18, <1>0 DEF Finish, PlacesOK, Stored, Role, Unstored, SummaryGoto
<1>19. ASSUME NEW r \in Runs, TitleReads(r) PROVE PlacesOK'
  BY <1>19, <1>0 DEF TitleReads, PlacesOK, Stored, Role, Unstored, SummaryGoto
<1>20. ASSUME NEW r \in Runs, TitleSaves(r) PROVE PlacesOK'
  BY <1>20, <1>0 DEF TitleSaves, PlacesOK, Stored, Role, Unstored, SummaryGoto
<1>21. ASSUME NEW r \in Runs, TitleFails(r) PROVE PlacesOK'
  BY <1>21, <1>0 DEF TitleFails, PlacesOK, Stored, Role, Unstored, SummaryGoto
<1>22. ASSUME NEW k \in Summaries, Summarize(k) PROVE PlacesOK'
  BY <1>22, <1>0 DEF Summarize, PlacesOK, Stored, Role, Unstored, SummaryGoto
<1>23. ASSUME NEW k \in Summaries, SummaryGivesUp(k) PROVE PlacesOK'
  BY <1>23, <1>0 DEF SummaryGivesUp, PlacesOK, Stored, Role, Unstored, SummaryGoto
<1>24. ASSUME NEW k \in Summaries, SummaryLists(k) PROVE PlacesOK'
  BY <1>24, <1>0 DEF SummaryLists, PlacesOK, Stored, Role, Unstored, SummaryGoto
<1>25. ASSUME NEW k \in Summaries, SummaryAnswered(k) PROVE PlacesOK'
  BY <1>25, <1>0 DEF SummaryAnswered, PlacesOK, Stored, Role, Unstored, SummaryGoto
<1>26. ASSUME NEW k \in Summaries, SummaryReads(k) PROVE PlacesOK'
  BY <1>26, <1>0 DEF SummaryReads, PlacesOK, Stored, Role, Unstored, SummaryGoto
<1>27. ASSUME NEW k \in Summaries, SummaryCreates(k) PROVE PlacesOK'
  <2> PICK n : n = Len(messages) + 1
    OBVIOUS
  <2>1. summary' = [summary EXCEPT ![k].at = "save", ![k].message = n] /\ Append1("summary", 0)
    BY <1>27 DEF SummaryCreates
  <2>2. Len(messages') = n /\ messages'[Len(messages) + 1].role = "summary"
    BY <1>0, <2>1, Stores
  <2>3. n \in Nat /\ n \in 1..Len(messages') /\ messages'[n].role = "summary" /\ summary[k].saw < n
    BY <1>0, <2>2 DEF PlacesOK
  <2> QED
    BY <1>0, <2>1, <2>2, <2>3 DEF PlacesOK, Stored, Role, Unstored
<1>28. ASSUME NEW k \in Summaries, SummarySaves(k) PROVE PlacesOK'
  BY <1>28, <1>0 DEF SummarySaves, PlacesOK, Stored, Role, Unstored, SummaryGoto
<1>29. ASSUME NEW k \in Summaries, SummaryFinishes(k) PROVE PlacesOK'
  BY <1>29, <1>0 DEF SummaryFinishes, PlacesOK, Stored, Role, Unstored, SummaryGoto, SummaryOver
<1>30. ASSUME UNCHANGED vars PROVE PlacesOK'
  BY <1>30, <1>0 DEF vars, PlacesOK, Stored, Role, Unstored, SummaryGoto
<1> QED
  BY <1>1, <1>2, <1>3, <1>4, <1>5, <1>6, <1>7, <1>8, <1>9, <1>10, <1>11, <1>12, <1>13, <1>14, <1>15,
     <1>16, <1>17, <1>18, <1>19, <1>20, <1>21, <1>22, <1>23, <1>24, <1>25, <1>26, <1>27, <1>28, <1>29,
     <1>30
    DEF Next, RunStep, TitleStep, SummaryStep

\* The row and its copies name summaries that were stored.
LEMMA NamesKept ==
    ASSUME Types, PlacesOK, NamesOK, [Next]_vars
    PROVE  NamesOK'
<1>0. Names \subseteq Names' /\ NoRow.summaryMessage = 0 /\ 0 \in Names'
  BY NamesStay DEF Types, NoRow, Names
<1> USE DEF Types, RowTypes, Row, vars
<1>1. ASSUME Cancel PROVE NamesOK'
  BY <1>1, <1>0, WritersDiffer DEF Cancel, NamesOK, saved, rowVars
<1>2. ASSUME Crash PROVE NamesOK'
  BY <1>2, <1>0, WritersDiffer DEF Crash, NamesOK, saved, rowVars
<1>3. ASSUME NEW r \in Runs, Send(r) PROVE NamesOK'
  BY <1>3, <1>0, WritersDiffer DEF Send, NamesOK, saved, rowVars
<1>4. ASSUME NEW r \in Runs, GiveUp(r) PROVE NamesOK'
  BY <1>4, <1>0, WritersDiffer DEF GiveUp, NamesOK, saved, rowVars, Drop
<1>5. ASSUME NEW r \in Runs, ListMessages(r) PROVE NamesOK'
  BY <1>5, <1>0, WritersDiffer DEF ListMessages, NamesOK, saved, rowVars
<1>6. ASSUME NEW r \in Runs, GetSession(r) PROVE NamesOK'
  BY <1>6, <1>0, WritersDiffer DEF GetSession, NamesOK, saved, rowVars
<1>7. ASSUME NEW r \in Runs, CreateUserMessage(r) PROVE NamesOK'
  BY <1>7, <1>0, WritersDiffer DEF CreateUserMessage, NamesOK, saved, rowVars
<1>8. ASSUME NEW r \in Runs, Iterate(r) PROVE NamesOK'
  BY <1>8, <1>0, WritersDiffer DEF Iterate, NamesOK, saved, rowVars
<1>9. ASSUME NEW r \in Runs, CreateAssistantMessage(r) PROVE NamesOK'
  BY <1>9, <1>0, WritersDiffer DEF CreateAssistantMessage, NamesOK, saved, rowVars
<1>10. ASSUME NEW r \in Runs, StreamBreaks(r) PROVE NamesOK'
  BY <1>10, <1>0, WritersDiffer DEF StreamBreaks, NamesOK, saved, rowVars
<1>11. ASSUME NEW r \in Runs, StreamCompletes(r) PROVE NamesOK'
  BY <1>11, <1>0, WritersDiffer DEF StreamCompletes, NamesOK, saved, rowVars
<1>12. ASSUME NEW r \in Runs, TrackUsageReads(r) PROVE NamesOK'
  BY <1>12, <1>0, WritersDiffer DEF TrackUsageReads, NamesOK, saved, rowVars, Get
<1>13. ASSUME NEW r \in Runs, TrackUsageSaves(r) PROVE NamesOK'
  BY <1>13, <1>0, WritersDiffer, ChargedAddsOne DEF TrackUsageSaves, NamesOK, saved, rowVars, SaveCharge, Drop
<1>14. ASSUME NEW r \in Runs, CallTools(r) PROVE NamesOK'
  BY <1>14, <1>0, WritersDiffer DEF CallTools, NamesOK, saved, rowVars
<1>15. ASSUME NEW r \in Runs, DelegateReads(r) PROVE NamesOK'
  BY <1>15, <1>0, WritersDiffer DEF DelegateReads, NamesOK, saved, rowVars, Get
<1>16. ASSUME NEW r \in Runs, DelegateSaves(r) PROVE NamesOK'
  BY <1>16, <1>0, WritersDiffer, ChargedAddsOne DEF DelegateSaves, NamesOK, saved, rowVars, SaveCharge, Drop
<1>17. ASSUME NEW r \in Runs, CreateToolMessage(r) PROVE NamesOK'
  BY <1>17, <1>0, WritersDiffer DEF CreateToolMessage, NamesOK, saved, rowVars
<1>18. ASSUME NEW r \in Runs, Finish(r) PROVE NamesOK'
  BY <1>18, <1>0, WritersDiffer DEF Finish, NamesOK, saved, rowVars
<1>19. ASSUME NEW r \in Runs, TitleReads(r) PROVE NamesOK'
  BY <1>19, <1>0, WritersDiffer DEF TitleReads, NamesOK, saved, rowVars, Get
<1>20. ASSUME NEW r \in Runs, TitleSaves(r) PROVE NamesOK'
  BY <1>20, <1>0, WritersDiffer DEF TitleSaves, NamesOK, saved, rowVars, Drop
<1>21. ASSUME NEW r \in Runs, TitleFails(r) PROVE NamesOK'
  BY <1>21, <1>0, WritersDiffer DEF TitleFails, NamesOK, saved, rowVars, Drop
<1>22. ASSUME NEW k \in Summaries, Summarize(k) PROVE NamesOK'
  BY <1>22, <1>0, WritersDiffer DEF Summarize, NamesOK, saved, rowVars
<1>23. ASSUME NEW k \in Summaries, SummaryGivesUp(k) PROVE NamesOK'
  BY <1>23, <1>0, WritersDiffer DEF SummaryGivesUp, NamesOK, saved, rowVars, Drop
<1>24. ASSUME NEW k \in Summaries, SummaryLists(k) PROVE NamesOK'
  BY <1>24, <1>0, WritersDiffer DEF SummaryLists, NamesOK, saved, rowVars
<1>25. ASSUME NEW k \in Summaries, SummaryAnswered(k) PROVE NamesOK'
  BY <1>25, <1>0, WritersDiffer DEF SummaryAnswered, NamesOK, saved, rowVars
<1>26. ASSUME NEW k \in Summaries, SummaryReads(k) PROVE NamesOK'
  BY <1>26, <1>0, WritersDiffer DEF SummaryReads, NamesOK, saved, rowVars, Get
<1>27. ASSUME NEW k \in Summaries, SummaryCreates(k) PROVE NamesOK'
  BY <1>27, <1>0, WritersDiffer DEF SummaryCreates, NamesOK, saved, rowVars
<1>28. ASSUME NEW k \in Summaries, SummarySaves(k) PROVE NamesOK'
  <2>1. summary[k].message \in Nat /\ summary[k].message \in Names
    BY DEF SummaryTypes, SummaryState, Names
  <2> QED
    BY <1>28, <2>1, <1>0, WritersDiffer, ChargedAddsOne DEF SummarySaves, SaveCharge, Drop, NamesOK
<1>29. ASSUME NEW k \in Summaries, SummaryFinishes(k) PROVE NamesOK'
  BY <1>29, <1>0, WritersDiffer DEF SummaryFinishes, NamesOK, saved, rowVars
<1>30. ASSUME UNCHANGED vars PROVE NamesOK'
  BY <1>30, <1>0, WritersDiffer DEF vars, NamesOK, saved, rowVars
<1> QED
  BY <1>1, <1>2, <1>3, <1>4, <1>5, <1>6, <1>7, <1>8, <1>9, <1>10, <1>11, <1>12, <1>13, <1>14, <1>15,
     <1>16, <1>17, <1>18, <1>19, <1>20, <1>21, <1>22, <1>23, <1>24, <1>25, <1>26, <1>27, <1>28, <1>29,
     <1>30
    DEF Next, RunStep, TitleStep, SummaryStep

-----------------------------------------------------------------------------
(* What a run has added to its history *)

\* Phases before the prompt.
Unprompted == {"idle", "list", "session", "prompt"}

\* What a step means for the history of q.
OwnStep(q) ==
    /\ run'[q].at \in Prompted =>
          \/ CreateUserMessage(q)
          \/ CreateToolMessage(q) /\ run'[q].at = "iterate"
          \/ /\ run[q].at \in Prompted /\ run'[q].history = run[q].history
             /\ Completed(q)' = Completed(q)
    /\ run'[q].at \in Unprompted =>
          run[q].at \in Unprompted /\ run'[q].responses = run[q].responses

\* Only a prompt and results change the part of the history a run adds.
LEMMA OwnSteps ==
    ASSUME RunTypes, [Next]_vars
    PROVE  \A q \in Runs : OwnStep(q)
<1> USE DEF RunTypes, RunState
<1>1. ASSUME Cancel PROVE \A q \in Runs : OwnStep(q)
  BY <1>1 DEF Cancel, OwnStep, Completed, Prompted, Writing, Pending, Unprompted, Goto, vars
<1>2. ASSUME Crash PROVE \A q \in Runs : OwnStep(q)
  BY <1>2, OverIsState DEF Crash, OwnStep, Completed, Prompted, Writing, Pending, Unprompted, Goto, vars
<1>3. ASSUME NEW r \in Runs, Send(r) PROVE \A q \in Runs : OwnStep(q)
  BY <1>3 DEF Send, OwnStep, Completed, Prompted, Writing, Pending, Unprompted, Goto, vars
<1>4. ASSUME NEW r \in Runs, GiveUp(r) PROVE \A q \in Runs : OwnStep(q)
  BY <1>4 DEF GiveUp, OwnStep, Completed, Prompted, Writing, Pending, Unprompted, Goto, vars
<1>5. ASSUME NEW r \in Runs, ListMessages(r) PROVE \A q \in Runs : OwnStep(q)
  BY <1>5 DEF ListMessages, OwnStep, Completed, Prompted, Writing, Pending, Unprompted, Goto, vars
<1>6. ASSUME NEW r \in Runs, GetSession(r) PROVE \A q \in Runs : OwnStep(q)
  BY <1>6 DEF GetSession, OwnStep, Completed, Prompted, Writing, Pending, Unprompted, Goto, vars
<1>7. ASSUME NEW r \in Runs, CreateUserMessage(r) PROVE \A q \in Runs : OwnStep(q)
  <2> PICK h : h = Append(run[r].history, Len(messages) + 1)
    OBVIOUS
  <2>1. run' = [run EXCEPT ![r].at = "iterate", ![r].history = h]
    BY <1>7 DEF CreateUserMessage
  <2>2. \A q \in Runs : q # r => run'[q] = run[q]
    BY <2>1
  <2>3. run'[r].at = "iterate"
    BY <2>1
  <2> QED
    BY <1>7, <2>2, <2>3 DEF OwnStep, Completed, Unprompted
<1>8. ASSUME NEW r \in Runs, Iterate(r) PROVE \A q \in Runs : OwnStep(q)
  <2>1. /\ \A q \in Runs : q # r => run'[q] = run[q]
        /\ run[r].at = "iterate" /\ run'[r].at = "create" /\ run'[r].history = run[r].history
        /\ run'[r].responses = run[r].responses + 1 /\ run[r].responses \in Nat
    BY <1>8 DEF Iterate
  <2>2. Completed(r)' = Completed(r)
    BY <2>1 DEF Completed
  <2>3. \A q \in Runs : q # r => Completed(q)' = Completed(q)
    BY <2>1 DEF Completed
  <2> QED
    BY <2>1, <2>2, <2>3 DEF OwnStep, Prompted, Unprompted
<1>9. ASSUME NEW r \in Runs, CreateAssistantMessage(r) PROVE \A q \in Runs : OwnStep(q)
  BY <1>9 DEF CreateAssistantMessage, OwnStep, Completed, Prompted, Writing, Pending, Unprompted, Goto, vars
<1>10. ASSUME NEW r \in Runs, StreamBreaks(r) PROVE \A q \in Runs : OwnStep(q)
  BY <1>10 DEF StreamBreaks, OwnStep, Completed, Prompted, Writing, Pending, Unprompted, Goto, vars
<1>11. ASSUME NEW r \in Runs, StreamCompletes(r) PROVE \A q \in Runs : OwnStep(q)
  BY <1>11 DEF StreamCompletes, OwnStep, Completed, Prompted, Writing, Pending, Unprompted, Goto, vars
<1>12. ASSUME NEW r \in Runs, TrackUsageReads(r) PROVE \A q \in Runs : OwnStep(q)
  BY <1>12 DEF TrackUsageReads, OwnStep, Completed, Prompted, Writing, Pending, Unprompted, Goto, vars
<1>13. ASSUME NEW r \in Runs, TrackUsageSaves(r) PROVE \A q \in Runs : OwnStep(q)
  BY <1>13 DEF TrackUsageSaves, OwnStep, Completed, Prompted, Writing, Pending, Unprompted, Goto, vars
<1>14. ASSUME NEW r \in Runs, CallTools(r) PROVE \A q \in Runs : OwnStep(q)
  BY <1>14 DEF CallTools, OwnStep, Completed, Prompted, Writing, Pending, Unprompted, Goto, vars
<1>15. ASSUME NEW r \in Runs, DelegateReads(r) PROVE \A q \in Runs : OwnStep(q)
  BY <1>15 DEF DelegateReads, OwnStep, Completed, Prompted, Writing, Pending, Unprompted, Goto, vars
<1>16. ASSUME NEW r \in Runs, DelegateSaves(r) PROVE \A q \in Runs : OwnStep(q)
  BY <1>16 DEF DelegateSaves, OwnStep, Completed, Prompted, Writing, Pending, Unprompted, Goto, vars
<1>17. ASSUME NEW r \in Runs, CreateToolMessage(r) PROVE \A q \in Runs : OwnStep(q)
  <2> PICK h : h = run[r].history \o <<run[r].message, Len(messages) + 1>>
    OBVIOUS
  <2>1. \/ run' = [run EXCEPT ![r].at = "iterate", ![r].history = h]
        \/ run' = [run EXCEPT ![r].at = "end"]
    BY <1>17 DEF CreateToolMessage, Goto
  <2>2. \A q \in Runs : q # r => run'[q] = run[q]
    BY <2>1
  <2>3. run'[r].at = "iterate" \/ run'[r].at = "end"
    BY <2>1
  <2> QED
    BY <1>17, <2>2, <2>3 DEF OwnStep, Completed, Unprompted, Prompted, Writing, Pending
<1>18. ASSUME NEW r \in Runs, Finish(r) PROVE \A q \in Runs : OwnStep(q)
  BY <1>18, OverIsState DEF Finish, OwnStep, Completed, Prompted, Writing, Pending, Unprompted, Goto, vars
<1>19. ASSUME NEW r \in Runs, TitleReads(r) PROVE \A q \in Runs : OwnStep(q)
  BY <1>19 DEF TitleReads, OwnStep, Completed, Prompted, Writing, Pending, Unprompted, Goto, vars
<1>20. ASSUME NEW r \in Runs, TitleSaves(r) PROVE \A q \in Runs : OwnStep(q)
  BY <1>20 DEF TitleSaves, OwnStep, Completed, Prompted, Writing, Pending, Unprompted, Goto, vars
<1>21. ASSUME NEW r \in Runs, TitleFails(r) PROVE \A q \in Runs : OwnStep(q)
  BY <1>21 DEF TitleFails, OwnStep, Completed, Prompted, Writing, Pending, Unprompted, Goto, vars
<1>22. ASSUME NEW k \in Summaries, Summarize(k) PROVE \A q \in Runs : OwnStep(q)
  BY <1>22 DEF Summarize, OwnStep, Completed, Prompted, Writing, Pending, Unprompted, Goto, vars
<1>23. ASSUME NEW k \in Summaries, SummaryGivesUp(k) PROVE \A q \in Runs : OwnStep(q)
  BY <1>23 DEF SummaryGivesUp, OwnStep, Completed, Prompted, Writing, Pending, Unprompted, Goto, vars
<1>24. ASSUME NEW k \in Summaries, SummaryLists(k) PROVE \A q \in Runs : OwnStep(q)
  BY <1>24 DEF SummaryLists, OwnStep, Completed, Prompted, Writing, Pending, Unprompted, Goto, vars
<1>25. ASSUME NEW k \in Summaries, SummaryAnswered(k) PROVE \A q \in Runs : OwnStep(q)
  BY <1>25 DEF SummaryAnswered, OwnStep, Completed, Prompted, Writing, Pending, Unprompted, Goto, vars
<1>26. ASSUME NEW k \in Summaries, SummaryReads(k) PROVE \A q \in Runs : OwnStep(q)
  BY <1>26 DEF SummaryReads, OwnStep, Completed, Prompted, Writing, Pending, Unprompted, Goto, vars
<1>27. ASSUME NEW k \in Summaries, SummaryCreates(k) PROVE \A q \in Runs : OwnStep(q)
  BY <1>27 DEF SummaryCreates, OwnStep, Completed, Prompted, Writing, Pending, Unprompted, Goto, vars
<1>28. ASSUME NEW k \in Summaries, SummarySaves(k) PROVE \A q \in Runs : OwnStep(q)
  BY <1>28 DEF SummarySaves, OwnStep, Completed, Prompted, Writing, Pending, Unprompted, Goto, vars
<1>29. ASSUME NEW k \in Summaries, SummaryFinishes(k) PROVE \A q \in Runs : OwnStep(q)
  BY <1>29 DEF SummaryFinishes, OwnStep, Completed, Prompted, Writing, Pending, Unprompted, Goto, vars
<1>30. ASSUME UNCHANGED vars PROVE \A q \in Runs : OwnStep(q)
  BY <1>30 DEF vars, OwnStep, Completed, Prompted, Writing, Pending, Unprompted, Goto, vars
<1> QED
  BY <1>1, <1>2, <1>3, <1>4, <1>5, <1>6, <1>7, <1>8, <1>9, <1>10, <1>11, <1>12, <1>13, <1>14, <1>15,
     <1>16, <1>17, <1>18, <1>19, <1>20, <1>21, <1>22, <1>23, <1>24, <1>25, <1>26, <1>27, <1>28, <1>29,
     <1>30
    DEF Next, RunStep, TitleStep, SummaryStep

\* What was added stays as it is while messages are added and updated.
LEMMA OwnStays ==
    ASSUME MessagesStay, NEW h \in Seq(Nat), NEW c, Own(h, c),
           \A i \in 1..Len(h) : h[i] \in 1..Len(messages)
    PROVE  Own(h, c)'
<1> PICK f : f = First(h, c)
  OBVIOUS
<1>1. c \in Nat /\ f >= 1 /\ f = Len(h) - 2 * c /\ Len(h) \in Nat
  BY LenProperties DEF Own, First
<1>2. f \in 1..Len(h) /\ \A j \in 1..c : f + 2 * j - 1 \in 1..Len(h) /\ f + 2 * j \in 1..Len(h)
  BY <1>1
<1>3. First(h, c)' = f
  BY DEF First
<1>4. messages'[h[f]].role = "user"
  BY <1>2 DEF Own, Role, MessagesStay
<1>5. ASSUME NEW j \in 1..c
      PROVE  /\ messages'[h[f + 2 * j - 1]].role = "assistant"
             /\ messages'[h[f + 2 * j]].role = "tool"
             /\ messages'[h[f + 2 * j]].answers = h[f + 2 * j - 1]
  BY <1>2 DEF Own, Role, MessagesStay
<1> QED
  BY <1>1, <1>3, <1>4, <1>5 DEF Own, Role

\* A prompt begins the part of the history that is the run's own.
LEMMA PromptBegins ==
    ASSUME Types, OwnOK, NEW r \in Runs, CreateUserMessage(r)
    PROVE  Own(run[r].history, Completed(r))'
<1> PICK h, n : h = run[r].history /\ n = Len(messages) + 1
  OBVIOUS
<1>1. h \in Seq(Nat) /\ n \in Nat /\ messages \in Seq(Message) /\ run[r].responses = 0
      /\ run \in [Runs -> RunState]
  BY LenProperties DEF Types, MessageTypes, RunTypes, RunState, OwnOK, CreateUserMessage
<1>2. Append1("user", 0) /\ run' = [run EXCEPT ![r].at = "iterate", ![r].history = Append(h, n)]
  BY DEF CreateUserMessage
<1>3. messages'[Len(messages) + 1].role = "user"
  <2>1. messages \in Seq(Message) /\ Append1("user", 0)
    BY <1>1, <1>2
  <2> QED
    BY <2>1, Stores
<1>4. Len(Append(h, n)) = Len(h) + 1 /\ Append(h, n)[Len(h) + 1] = n /\ Len(h) \in Nat
  BY <1>1, AppendProperties, LenProperties
<1> PICK g : g = Append(h, n)
  OBVIOUS
<1>5. run'[r].history = g /\ run'[r].at = "iterate" /\ run'[r].responses = 0
  BY <1>1, <1>2 DEF RunState
<1>6. Completed(r)' = 0
  BY <1>5 DEF Completed
<1>7. Len(g) - 2 * 0 = Len(h) + 1 /\ g[Len(h) + 1] = n /\ messages'[n].role = "user"
  BY <1>3, <1>4
<1>8. Own(g, 0)'
  BY <1>4, <1>7 DEF Own, First, Role
<1> QED
  BY <1>5, <1>6, <1>8 DEF Own, First, Role

\* Arithmetic of the places of exchanges.
LEMMA ExchangePlaces ==
    ASSUME NEW l \in Nat, NEW c \in Nat, NEW f \in Nat, f >= 1, f = l - 2 * c
    PROVE  /\ (l + 2) - 2 * (c + 1) = f
           /\ f + 2 * (c + 1) - 1 = l + 1
           /\ f + 2 * (c + 1) = l + 2
           /\ \A j \in 1..c : f + 2 * j - 1 \in 1..l /\ f + 2 * j \in 1..l
           /\ \A j \in 1..(c + 1) : j = c + 1 \/ j \in 1..c
<1>1. l = f + 2 * c
  OBVIOUS
<1>2. 2 * (c + 1) = 2 * c + 2
  OBVIOUS
<1>3. \A j \in 1..c : j \in Nat /\ j >= 1 /\ 2 * j <= 2 * c
  OBVIOUS
<1> QED
  BY <1>1, <1>2, <1>3

\* A message of the model and its results make one more exchange.
LEMMA ExchangeExtends ==
    ASSUME MessagesStay, NEW h \in Seq(Nat), NEW c \in Nat, Own(h, c),
           \A i \in 1..Len(h) : h[i] \in 1..Len(messages),
           NEW l \in Nat, l = Len(h), NEW f \in Nat, f = l - 2 * c, f >= 1,
           NEW m \in Nat, messages'[m].role = "assistant",
           NEW n \in Nat, messages'[n].role = "tool", messages'[n].answers = m
    PROVE  Own(h \o <<m, n>>, c + 1)'
<1> DEFINE more == <<m, n>>
<1>1. more \in Seq(Nat) /\ Len(more) = 2 /\ more[1] = m /\ more[2] = n
  OBVIOUS
<1> HIDE DEF more
<1> PICK g : g = h \o more
  OBVIOUS
<1>2. Len(g) = l + 2 /\ \A i \in 1..(l + 2) : g[i] = IF i <= l THEN h[i] ELSE more[i - l]
  <2>1. /\ Len(g) = Len(h) + Len(more)
        /\ \A i \in 1..(Len(h) + Len(more)) : g[i] = IF i <= Len(h) THEN h[i] ELSE more[i - Len(h)]
    BY <1>1, ConcatProperties
  <2> QED
    BY <1>1, <2>1
<1>3. (\A i \in 1..l : g[i] = h[i]) /\ g[l + 1] = m /\ g[l + 2] = n
  BY <1>1, <1>2
<1>4. /\ (l + 2) - 2 * (c + 1) = f
      /\ f + 2 * (c + 1) - 1 = l + 1
      /\ f + 2 * (c + 1) = l + 2
      /\ \A j \in 1..c : f + 2 * j - 1 \in 1..l /\ f + 2 * j \in 1..l
      /\ \A j \in 1..(c + 1) : j = c + 1 \/ j \in 1..c
  BY ExchangePlaces
<1>5. Own(h, c)'
  BY OwnStays
<1>6. messages'[g[f]].role = "user"
  <2>1. f \in 1..l
    OBVIOUS
  <2>2. messages'[h[f]].role = "user"
    BY <1>5 DEF Own, First, Role
  <2> QED
    BY <1>3, <2>1, <2>2
<1>7. ASSUME NEW j \in 1..(c + 1)
      PROVE  /\ messages'[g[f + 2 * j - 1]].role = "assistant"
             /\ messages'[g[f + 2 * j]].role = "tool"
             /\ messages'[g[f + 2 * j]].answers = g[f + 2 * j - 1]
  <2>1. CASE j = c + 1
    BY <1>3, <1>4, <2>1
  <2>2. CASE j \in 1..c
    <3>1. /\ messages'[h[f + 2 * j - 1]].role = "assistant"
          /\ messages'[h[f + 2 * j]].role = "tool"
          /\ messages'[h[f + 2 * j]].answers = h[f + 2 * j - 1]
      BY <1>5, <2>2 DEF Own, First, Role
    <3>2. g[f + 2 * j - 1] = h[f + 2 * j - 1] /\ g[f + 2 * j] = h[f + 2 * j]
      BY <1>3, <1>4, <2>2
    <3> QED
      BY <3>1, <3>2
  <2> QED
    BY <1>4, <2>1, <2>2
<1>8. c + 1 \in Nat /\ Len(g) - 2 * (c + 1) = f
  <2>1. c + 1 \in Nat
    OBVIOUS
  <2>2. Len(g) = l + 2
    BY <1>2
  <2>3. (l + 2) - 2 * (c + 1) = f
    BY <1>4
  <2> QED
    BY <2>1, <2>2, <2>3, Zenon
<1>9. Own(g, c + 1)'
  BY <1>6, <1>7, <1>8 DEF Own, First, Role
<1> QED
  BY <1>9 DEF more

\* Results make one more exchange.
LEMMA ResultsExtend ==
    ASSUME Types, CurrentOK, OwnOK, NEW r \in Runs, CreateToolMessage(r),
           run'[r].at = "iterate", MessagesStay
    PROVE  Own(run[r].history, Completed(r))'
<1> PICK h, m, n, c : /\ h = run[r].history /\ m = run[r].message /\ n = Len(messages) + 1
                      /\ c = run[r].responses - 1
  OBVIOUS
<1>1. /\ h \in Seq(Nat) /\ n \in Nat /\ messages \in Seq(Message) /\ run \in [Runs -> RunState]
      /\ run[r].at = "results" /\ Len(h) \in Nat
  BY LenProperties DEF Types, MessageTypes, RunTypes, RunState, CreateToolMessage
<1>2. m \in 1..Len(messages) /\ messages[m].role = "assistant" /\ m \in Nat
  BY <1>1, LenProperties DEF CurrentOK, Writing, Pending
<1>3. Own(h, c) /\ c \in Nat
  BY <1>1 DEF OwnOK, Prompted, Writing, Pending, Completed, Own
<1>4. Append1("tool", m)
  BY DEF CreateToolMessage, MayAnswer
<1>5. messages'[n].role = "tool" /\ messages'[n].answers = m
  BY <1>1, <1>2, <1>4, Stores
<1>6. messages'[m].role = "assistant"
  BY <1>2 DEF MessagesStay
<1>7. \A i \in 1..Len(h) : h[i] \in 1..Len(messages)
  BY DEF Types, MessageTypes
<1> PICK g : g = h \o <<m, n>>
  OBVIOUS
<1>8. run' = [run EXCEPT ![r].at = "iterate", ![r].history = g]
  <2>1. ~(Goto(r, "end"))
    BY <1>1, GotoAt DEF Types
  <2> QED
    BY <2>1 DEF CreateToolMessage
<1>9. run'[r].at = "iterate" /\ run'[r].history = g /\ Completed(r)' = c + 1
  BY <1>1, <1>8 DEF RunState, Completed
<1>10. Own(g, c + 1)'
  <2> PICK l, f : l = Len(h) /\ f = First(h, c)
    OBVIOUS
  <2>1. l \in Nat /\ f >= 1 /\ f = l - 2 * c
    BY <1>1, <1>3 DEF Own, First
  <2>2. f \in Nat
    BY <1>3, <2>1
  <2> QED
    BY <1>1, <1>2, <1>3, <1>5, <1>6, <1>7, <2>1, <2>2, ExchangeExtends
<1> QED
  BY ZenonT(60), <1>9, <1>10 DEF Own, First, Role

\* The part of its history that a run adds is always a prompt and exchanges.
LEMMA OwnKept ==
    ASSUME Types, CurrentOK, OwnOK, [Next]_vars
    PROVE  OwnOK'
<1>1. MessagesStay
  BY MessagesAreStable DEF Types, MessageTypes
<1> SUFFICES ASSUME NEW q \in Runs
             PROVE  /\ run'[q].at \in Prompted => Own(run[q].history, Completed(q))'
                    /\ run'[q].at \in Unprompted => run'[q].responses = 0
  BY DEF OwnOK, Unprompted
<1>2. OwnStep(q)
  BY OwnSteps DEF Types
<1>3. ASSUME run'[q].at \in Unprompted PROVE run'[q].responses = 0
  BY <1>2, <1>3 DEF OwnStep, OwnOK, Unprompted
<1>4. CASE CreateUserMessage(q)
  BY <1>3, <1>4, PromptBegins
<1>5. CASE CreateToolMessage(q) /\ run'[q].at = "iterate"
  BY <1>1, <1>3, <1>5, ResultsExtend
<1>6. CASE /\ run[q].at \in Prompted /\ run'[q].history = run[q].history
           /\ Completed(q)' = Completed(q)
  <2> PICK h, c : h = run[q].history /\ c = Completed(q)
    OBVIOUS
  <2>1. Own(h, c) /\ h \in Seq(Nat) /\ \A i \in 1..Len(h) : h[i] \in 1..Len(messages)
    BY <1>6 DEF OwnOK, Types, RunTypes, RunState, MessageTypes
  <2>2. Own(h, c)'
    BY <1>1, <2>1, OwnStays
  <2> QED
    BY <1>3, <1>6, <2>2 DEF Own, First, Role
<1> QED
  BY <1>2, <1>3, <1>4, <1>5, <1>6 DEF OwnStep

-----------------------------------------------------------------------------
(* The whole history, while there is one request at a time *)

\* Intervals end where they end, and go on with the next messages.
LEMMA Intervals ==
    ASSUME NEW n \in Nat, NEW s \in 1..(n + 1)
    PROVE  /\ Interval(s, n) \in Seq(Nat) /\ Len(Interval(s, n)) = n - s + 1
           /\ n - s + 1 \in Nat
           /\ \A i \in 1..(n - s + 1) : Interval(s, n)[i] = s + i - 1
           /\ Append(Interval(s, n), n + 1) = Interval(s, n + 1)
<1>1. n - s + 1 \in Nat /\ (n + 1) - s + 1 = (n - s + 1) + 1
      /\ \A i \in 1..(n - s + 1) : s + i - 1 \in Nat
  OBVIOUS
<1> PICK l : l = n - s + 1
  OBVIOUS
<1>2. Interval(s, n) = [i \in 1..l |-> s + i - 1] /\ l \in Nat
  BY <1>1 DEF Interval
<1>3. Interval(s, n) \in Seq(Nat) /\ Len(Interval(s, n)) = l
      /\ \A i \in 1..l : Interval(s, n)[i] = s + i - 1
  BY <1>1, <1>2
<1>4. Append(Interval(s, n), n + 1) = Interval(s, n + 1)
  <2> PICK h, g : h = Interval(s, n) /\ g = Append(h, n + 1)
    OBVIOUS
  <2>1. /\ g \in Seq(Nat) /\ Len(g) = l + 1
        /\ \A i \in 1..l : g[i] = s + i - 1
        /\ g[l + 1] = n + 1
    BY <1>2, <1>3, AppendProperties
  <2>2. g = [i \in 1..(l + 1) |-> g[i]]
    BY <2>1
  <2>3. \A i \in 1..(l + 1) : g[i] = s + i - 1
    BY <1>2, <2>1
  <2>4. Interval(s, n + 1) = [i \in 1..(l + 1) |-> s + i - 1]
    BY <1>1 DEF Interval
  <2> QED
    BY <2>2, <2>3, <2>4
<1> QED
  BY <1>1, <1>3, <1>4

\* A history that is up to date stays so with a message more.
LEMMA UpToGrows ==
    ASSUME NEW n \in Nat, NEW h, UpTo(h, n)
    PROVE  h \in Seq(Nat) /\ UpTo(Append(h, n + 1), n + 1)
<1>1. PICK s \in 1..(n + 1) : s \in {1} \cup Names /\ h = Interval(s, n)
  BY DEF UpTo
<1>2. s \in 1..((n + 1) + 1) /\ Append(h, n + 1) = Interval(s, n + 1) /\ h \in Seq(Nat)
  BY <1>1, Intervals
<1> QED
  BY <1>1, <1>2 DEF UpTo

\* Or with two.
LEMMA UpToGrowsByTwo ==
    ASSUME NEW n \in Nat, NEW h, UpTo(h, n)
    PROVE  UpTo(h \o <<n + 1, n + 2>>, n + 2)
<1>1. h \in Seq(Nat) /\ UpTo(Append(h, n + 1), n + 1)
  BY UpToGrows
<1>2. UpTo(Append(Append(h, n + 1), (n + 1) + 1), (n + 1) + 1)
  BY <1>1, UpToGrows
<1>3. (n + 1) + 1 = n + 2 /\ n + 1 \in Nat /\ n + 2 \in Nat
  OBVIOUS
<1>4. Append(Append(h, n + 1), n + 2) = h \o <<n + 1, n + 2>>
  BY <1>1, <1>3
<1> QED
  BY <1>2, <1>3, <1>4

\* A new summary puts no history out of date.
LEMMA UpToStays ==
    ASSUME Names \subseteq Names', NEW n, NEW h, UpTo(h, n)
    PROVE  UpTo(h, n)'
  BY DEF UpTo, Interval

\* What the model is shown of an up to date list is up to date.
LEMMA UpToFromSummary ==
    ASSUME NEW n \in Nat, NEW m \in Nat, m \in Names
    PROVE  UpTo(FromSummary(Interval(1, n), m), n)
<1> PICK h : h = Interval(1, n)
  OBVIOUS
<1>1. h \in Seq(Nat) /\ Len(h) = n /\ \A i \in 1..n : h[i] = i
  <2>1. 1 \in 1..(n + 1) /\ n - 1 + 1 = n
    OBVIOUS
  <2> QED
    BY <2>1, Intervals
<1>2. CASE m \notin 1..n
  BY <1>1, <1>2, FromSummaryIsEnd DEF UpTo
<1>3. CASE m \in 1..n
  <2> PICK g : g = FromSummary(h, m)
    OBVIOUS
  <2>1. g \in Seq(Nat) /\ Len(g) = n - m + 1 /\ \A i \in 1..(n - m + 1) : g[i] = h[m + i - 1]
    BY ZenonT(60), <1>1, <1>3, FromSummaryIsEnd
  <2>2. \A i \in 1..(n - m + 1) : m + i - 1 \in 1..n
    BY <1>3
  <2> PICK l : l = n - m + 1
    OBVIOUS
  <2>3. \A i \in 1..l : g[i] = m + i - 1
    BY <1>1, <2>1, <2>2
  <2>4. g = [i \in 1..l |-> g[i]]
    BY <2>1
  <2>5. g = Interval(m, n)
    BY <2>3, <2>4 DEF Interval
  <2>6. m \in 1..(n + 1)
    BY <1>3
  <2> QED
    BY <2>5, <2>6 DEF UpTo
<1> QED
  BY <1>2, <1>3

\* A step of a run, while there is no other request under way.
LEMMA OthersRest ==
    ASSUME OneAtATime, NEW r \in Runs, RunGoes(r)
    PROVE  /\ \A q \in Runs : q # r => ~RunGoes(q)
           /\ \A k \in Summaries : ~SummaryGoes(k)
  BY DEF OneAtATime

\* A history that speaks of a run that goes is all there is to keep.
LEMMA HistoryOfOne ==
    ASSUME NEW r \in Runs, HistoryKept(r)',
           \A q \in Runs : q # r => ~RunGoes(q)'
    PROVE  HistoriesKept'
<1> SUFFICES ASSUME NEW q \in Runs, q # r PROVE HistoryKept(q)'
  BY DEF HistoriesKept
<1>1. run'[q].at \in {"idle", "over"}
  BY DEF RunGoes
<1> QED
  BY <1>1 DEF HistoryKept, Writing, Pending

\* A step of a run is of a run that goes, and leaves the other requests alone.
LEMMA RunStepTouches ==
    ASSUME RunTypes, NEW r \in Runs, RunStep(r)
    PROVE  /\ RunGoes(r) /\ \A q \in Runs : q # r => run'[q] = run[q]
           /\ UNCHANGED <<summary, alone>>
<1>1. CASE GiveUp(r)
  BY <1>1 DEF GiveUp, RunGoes, Goto, requestVars, RunTypes, RunState
<1>2. CASE ListMessages(r)
  BY <1>2 DEF ListMessages, RunGoes, Goto, requestVars, RunTypes, RunState
<1>3. CASE GetSession(r)
  BY <1>3 DEF GetSession, RunGoes, Goto, requestVars, RunTypes, RunState
<1>4. CASE CreateUserMessage(r)
  BY <1>4 DEF CreateUserMessage, RunGoes, Goto, requestVars, RunTypes, RunState
<1>5. CASE Iterate(r)
  BY <1>5 DEF Iterate, RunGoes, Goto, requestVars, RunTypes, RunState
<1>6. CASE CreateAssistantMessage(r)
  BY <1>6 DEF CreateAssistantMessage, RunGoes, Goto, requestVars, RunTypes, RunState
<1>7. CASE StreamBreaks(r)
  BY <1>7 DEF StreamBreaks, RunGoes, Goto, requestVars, RunTypes, RunState
<1>8. CASE StreamCompletes(r)
  BY <1>8 DEF StreamCompletes, RunGoes, Goto, requestVars, RunTypes, RunState
<1>9. CASE TrackUsageReads(r)
  BY <1>9 DEF TrackUsageReads, RunGoes, Goto, requestVars, RunTypes, RunState
<1>10. CASE TrackUsageSaves(r)
  BY <1>10 DEF TrackUsageSaves, RunGoes, Goto, requestVars, RunTypes, RunState
<1>11. CASE CallTools(r)
  BY <1>11 DEF CallTools, RunGoes, Goto, requestVars, RunTypes, RunState
<1>12. CASE DelegateReads(r)
  BY <1>12 DEF DelegateReads, RunGoes, Goto, requestVars, RunTypes, RunState
<1>13. CASE DelegateSaves(r)
  BY <1>13 DEF DelegateSaves, RunGoes, Goto, requestVars, RunTypes, RunState
<1>14. CASE CreateToolMessage(r)
  <2> PICK h : h = run[r].history \o <<run[r].message, Len(messages) + 1>>
    OBVIOUS
  <2>1. \/ run' = [run EXCEPT ![r].at = "iterate", ![r].history = h]
        \/ run' = [run EXCEPT ![r].at = "end"]
    BY <1>14 DEF CreateToolMessage, Goto
  <2> QED
    BY <1>14, <2>1 DEF CreateToolMessage, RunGoes, requestVars, RunTypes, RunState
<1>15. CASE Finish(r)
  BY <1>15 DEF Finish, RunGoes, Goto, requestVars, RunTypes, RunState
<1> QED
  BY <1>1, <1>2, <1>3, <1>4, <1>5, <1>6, <1>7, <1>8, <1>9, <1>10, <1>11, <1>12, <1>13, <1>14, <1>15
    DEF RunStep

\* The same for a summary.
LEMMA SummaryStepTouches ==
    ASSUME SummaryTypes, NEW k \in Summaries, SummaryStep(k)
    PROVE  /\ SummaryGoes(k) /\ \A l \in Summaries : l # k => summary'[l] = summary[l]
           /\ UNCHANGED <<run, alone>>
<1>1. CASE SummaryGivesUp(k)
  BY <1>1 DEF SummaryGivesUp, SummaryGoes, SummaryGoto, requestVars, SummaryTypes, SummaryState
<1>2. CASE SummaryLists(k)
  BY <1>2 DEF SummaryLists, SummaryGoes, SummaryGoto, requestVars, SummaryTypes, SummaryState
<1>3. CASE SummaryAnswered(k)
  BY <1>3 DEF SummaryAnswered, SummaryGoes, SummaryGoto, requestVars, SummaryTypes, SummaryState
<1>4. CASE SummaryReads(k)
  BY <1>4 DEF SummaryReads, SummaryGoes, SummaryGoto, requestVars, SummaryTypes, SummaryState
<1>5. CASE SummaryCreates(k)
  BY <1>5 DEF SummaryCreates, SummaryGoes, SummaryGoto, requestVars, SummaryTypes, SummaryState
<1>6. CASE SummarySaves(k)
  BY <1>6 DEF SummarySaves, SummaryGoes, SummaryGoto, requestVars, SummaryTypes, SummaryState
<1>7. CASE SummaryFinishes(k)
  BY <1>7 DEF SummaryFinishes, SummaryGoes, SummaryGoto, requestVars, SummaryTypes, SummaryState
<1> QED
  BY <1>1, <1>2, <1>3, <1>4, <1>5, <1>6, <1>7 DEF SummaryStep

\* A step of a run keeps its history up to date.
LEMMA RunKeepsHistory ==
    ASSUME Types, CurrentOK, NamesOK, Names \subseteq Names', NEW r \in Runs, HistoryKept(r), RunStep(r)
    PROVE  HistoryKept(r)'
<1>0. /\ Len(messages) \in Nat /\ messages \in Seq(Message) /\ RunTypes
  BY LenProperties DEF Types, MessageTypes
<1>1. CASE GiveUp(r)
  BY <1>0, <1>1 DEF GiveUp, HistoryKept, Writing, Pending, Goto, RunTypes, RunState, rowVars, saved
<1>2. CASE ListMessages(r)
  <2> DEFINE h == [i \in 1..Len(messages) |-> i]
  <2>1. h = Interval(1, Len(messages))
    <3>1. Len(messages) - 1 + 1 = Len(messages) /\ \A i \in 1..Len(messages) : 1 + i - 1 = i
      BY <1>0
    <3> QED
      BY <3>1 DEF Interval
  <2>2. run' = [run EXCEPT ![r].at = "session", ![r].history = h] /\ UNCHANGED messages
    BY <1>2 DEF ListMessages
  <2> HIDE DEF h
  <2> QED
    BY <1>0, <2>1, <2>2 DEF HistoryKept, Writing, Pending, RunTypes, RunState, Interval
<1>3. CASE GetSession(r)
  <2> PICK h : h = FromSummary(run[r].history, row.summaryMessage)
    OBVIOUS
  <2>1. run[r].history = Interval(1, Len(messages)) /\ row.summaryMessage \in Nat
    BY <1>3 DEF GetSession, HistoryKept, Types, RowTypes, Row
  <2>2. UpTo(h, Len(messages))
    BY <1>0, <2>1, UpToFromSummary DEF NamesOK
  <2>3. run' = [run EXCEPT ![r].at = "prompt", ![r].history = h] /\ UNCHANGED messages
    BY <1>3 DEF GetSession
  <2>4. UpTo(h, Len(messages))'
    BY <2>2, <2>3 DEF UpTo, Interval
  <2>5. run'[r].history = h /\ run'[r].at = "prompt"
    BY <1>0, <2>3 DEF RunTypes, RunState
  <2> QED
    BY <2>4, <2>5 DEF HistoryKept, Writing, Pending, UpTo
<1>4. CASE CreateUserMessage(r)
  <2> PICK h, n : h = Append(run[r].history, Len(messages) + 1) /\ n = Len(messages)
    OBVIOUS
  <2>1. UpTo(run[r].history, n) /\ n \in Nat
    BY <1>0, <1>4 DEF CreateUserMessage, HistoryKept
  <2>2. UpTo(h, n + 1)
    BY <2>1, UpToGrows
  <2>3. run' = [run EXCEPT ![r].at = "iterate", ![r].history = h] /\ Append1("user", 0)
    BY <1>4 DEF CreateUserMessage
  <2>4. Len(messages') = n + 1
    BY <1>0, <2>3, Stores
  <2>5. run'[r].history = h /\ run'[r].at = "iterate"
    BY <1>0, <2>3 DEF RunTypes, RunState
  <2>6. UpTo(h, n + 1)'
    BY <2>2, UpToStays
  <2> QED
    BY <2>4, <2>5, <2>6 DEF HistoryKept, Writing, Pending, UpTo
<1>5. CASE Iterate(r)
  <2> PICK h, n : h = run[r].history /\ n = Len(messages)
    OBVIOUS
  <2>1. UpTo(h, n) /\ UNCHANGED messages
    BY <1>5 DEF Iterate, HistoryKept
  <2>2. run'[r].history = h /\ run'[r].at = "create"
    BY <1>0, <1>5 DEF Iterate, RunTypes, RunState
  <2>3. UpTo(h, n)'
    BY <2>1, UpToStays
  <2> QED
    BY <2>1, <2>2, <2>3 DEF HistoryKept, Writing, Pending, UpTo
<1>6. CASE CreateAssistantMessage(r)
  <2> PICK h, n : h = run[r].history /\ n = Len(messages)
    OBVIOUS
  <2>1. UpTo(h, n) /\ n \in Nat
    BY <1>0, <1>6 DEF CreateAssistantMessage, HistoryKept
  <2>2. run' = [run EXCEPT ![r].at = "stream", ![r].message = n + 1] /\ Append1("assistant", 0)
    BY <1>6 DEF CreateAssistantMessage
  <2>3. Len(messages') = n + 1 /\ messages'[n + 1].calls = FALSE
    BY <1>0, <2>2, Stores
  <2>4. run'[r].history = h /\ run'[r].at = "stream" /\ run'[r].message = n + 1
    BY <1>0, <2>2 DEF RunTypes, RunState
  <2>5. UpTo(h, n)' /\ n = Len(messages') - 1
    BY <2>1, <2>3, UpToStays
  <2> QED
    BY <2>3, <2>4, <2>5 DEF HistoryKept, UpTo
<1>7. CASE StreamBreaks(r)
  <2>1. run'[r].at = "end"
    BY <1>0, <1>7 DEF StreamBreaks, Goto, RunTypes, RunState
  <2> QED
    BY <2>1 DEF HistoryKept, Writing, Pending
<1>8. CASE StreamCompletes(r)
  <2> PICK h, n : h = run[r].history /\ n = Len(messages)
    OBVIOUS
  <2>1. run[r].message \in 1..n /\ UpTo(h, n - 1) /\ run[r].message = n
    BY <1>0, <1>8 DEF StreamCompletes, HistoryKept, CurrentOK, Writing
  <2>2. Len(messages') = n
    BY <1>0, <1>8, <2>1, Updates, LenProperties DEF StreamCompletes
  <2>3. run'[r].history = h /\ run'[r].at = "usage" /\ run'[r].message = n
    BY <1>0, <1>8, <2>1 DEF StreamCompletes, Goto, RunTypes, RunState
  <2>4. UpTo(h, n - 1)'
    BY <2>1, UpToStays
  <2> QED
    BY <2>2, <2>3, <2>4 DEF HistoryKept, UpTo
<1>9. CASE TrackUsageReads(r)
  BY <1>9, <1>0, UpToStays
    DEF TrackUsageReads, HistoryKept, Writing, Pending, Goto, RunTypes, RunState, rowVars, saved
<1>10. CASE TrackUsageSaves(r)
  BY <1>10, <1>0, UpToStays
    DEF TrackUsageSaves, HistoryKept, Writing, Pending, Goto, RunTypes, RunState, rowVars, saved
<1>11. CASE CallTools(r)
  BY <1>11, <1>0, UpToStays
    DEF CallTools, HistoryKept, Writing, Pending, Goto, RunTypes, RunState, rowVars, saved
<1>12. CASE DelegateReads(r)
  BY <1>12, <1>0, UpToStays
    DEF DelegateReads, HistoryKept, Writing, Pending, Goto, RunTypes, RunState, rowVars, saved
<1>13. CASE DelegateSaves(r)
  BY <1>13, <1>0, UpToStays
    DEF DelegateSaves, HistoryKept, Writing, Pending, Goto, RunTypes, RunState, rowVars, saved
<1>14. CASE CreateToolMessage(r)
  <2> PICK g, n : g = run[r].history /\ n = Len(messages) - 1
    OBVIOUS
  <2>1. /\ run[r].message = n + 1 /\ UpTo(g, n) /\ n \in Nat /\ Len(messages) + 1 = n + 2
    BY <1>0, <1>14 DEF CreateToolMessage, HistoryKept, CurrentOK, Writing, Pending
  <2> PICK h : h = g \o <<n + 1, n + 2>>
    OBVIOUS
  <2>2. UpTo(h, n + 2)'
    BY <2>1, UpToGrowsByTwo, UpToStays
  <2>3. \/ run' = [run EXCEPT ![r].at = "iterate", ![r].history = h]
        \/ run' = [run EXCEPT ![r].at = "end"]
    BY <1>14, <2>1 DEF CreateToolMessage, Goto
  <2>4. Append1("tool", n + 1)
    BY <1>14, <2>1 DEF CreateToolMessage, MayAnswer
  <2>5. Len(messages') = n + 2
    <3>1. messages \in Seq(Message) /\ n + 1 \in Nat
      BY <1>0, <2>1
    <3>2. Len(messages') = Len(messages) + 1
      BY <2>4, <3>1, Stores
    <3> QED
      BY <2>1, <3>2
  <2>6. (run'[r].at = "iterate" /\ run'[r].history = h) \/ run'[r].at = "end"
    BY <1>0, <2>3 DEF RunTypes, RunState
  <2> QED
    BY <2>2, <2>5, <2>6 DEF HistoryKept, Writing, Pending, UpTo
<1>15. CASE Finish(r)
  BY <1>15, OverIsState DEF Finish, HistoryKept, Writing, Pending, Goto, RunTypes, RunState, rowVars, saved
<1> QED
  BY <1>1, <1>2, <1>3, <1>4, <1>5, <1>6, <1>7, <1>8, <1>9, <1>10, <1>11, <1>12, <1>13, <1>14, <1>15
    DEF RunStep

\* A session that has not been alone will not be.
LEMMA AloneBefore ==
    ASSUME [Next]_vars, alone'
    PROVE  alone
<1> USE DEF requestVars, vars
<1>1. ASSUME NEW r \in Runs, RunStep(r) PROVE alone
  BY <1>1 DEF RunStep, GiveUp, ListMessages, GetSession, CreateUserMessage, Iterate,
     CreateAssistantMessage, StreamBreaks, StreamCompletes, TrackUsageReads, TrackUsageSaves,
     CallTools, DelegateReads, DelegateSaves, CreateToolMessage, Finish
<1>2. ASSUME NEW r \in Runs, TitleStep(r) PROVE alone
  BY <1>2 DEF TitleStep, TitleReads, TitleSaves, TitleFails
<1>3. ASSUME NEW k \in Summaries, SummaryStep(k) PROVE alone
  BY <1>3 DEF SummaryStep, SummaryGivesUp, SummaryLists, SummaryAnswered, SummaryReads,
     SummaryCreates, SummarySaves, SummaryFinishes
<1> QED
  BY <1>1, <1>2, <1>3 DEF Next, Cancel, Crash, Send, Summarize

\* A run in no other phase keeps its history.
LEMMA HistoryStays ==
    ASSUME NEW r \in Runs, HistoryKept(r), Names \subseteq Names', UNCHANGED messages,
           run'[r].at = run[r].at, run'[r].history = run[r].history,
           run'[r].message = run[r].message
    PROVE  HistoryKept(r)'
<1> PICK h, n, m : h = run[r].history /\ n = Len(messages) /\ m = n - 1
  OBVIOUS
<1>1. (UpTo(h, n) => UpTo(h, n)') /\ (UpTo(h, m) => UpTo(h, m)')
  BY UpToStays
<1>2. (UpTo(h, n) => UpTo(run[r].history, Len(messages))')
  BY <1>1 DEF UpTo
<1>3. (UpTo(h, m) => UpTo(run[r].history, Len(messages) - 1)')
  BY <1>1 DEF UpTo
<1> QED
  BY <1>2, <1>3 DEF HistoryKept

\* A title generator touches neither messages nor requests.
LEMMA TitleStepTouches ==
    ASSUME NEW r \in Runs, TitleStep(r)
    PROVE  UNCHANGED <<messages, severed, activeRun, activeSummary, run, summary, alone>>
  BY DEF TitleStep, TitleReads, TitleSaves, TitleFails, requestVars

\* Every history stays up to date as long as the session is alone.
LEMMA HistoriesAreKept ==
    ASSUME Base, Kept, Names \subseteq Names', [Next]_vars, alone'
    PROVE  HistoriesKept'
<1>0. Types /\ CurrentOK /\ NamesOK /\ OneAtATime /\ HistoriesKept /\ RunTypes /\ SummaryTypes
  BY DEF Base, Kept, SummariesOK, Types
<1>1. CASE UNCHANGED vars
  BY <1>0, <1>1, HistoryStays DEF HistoriesKept, vars
<1>2. CASE Cancel
  <2> SUFFICES ASSUME NEW r \in Runs PROVE HistoryKept(r)'
    BY DEF HistoriesKept
  <2>1. /\ run'[r].at = run[r].at /\ run'[r].history = run[r].history
        /\ run'[r].message = run[r].message /\ UNCHANGED messages
    BY <1>0, <1>2 DEF Cancel, RunTypes, RunState
  <2> QED
    BY <1>0, <2>1, HistoryStays DEF HistoriesKept
<1>3. CASE Crash
  <2> SUFFICES ASSUME NEW r \in Runs PROVE HistoryKept(r)'
    BY DEF HistoriesKept
  <2>1. run'[r].at \in {"idle", "over"}
    BY <1>3, OverIsState DEF Crash, RunGoes
  <2> QED
    BY <2>1 DEF HistoryKept, Writing, Pending
<1>4. ASSUME NEW r \in Runs, Send(r) PROVE HistoriesKept'
  <2> SUFFICES ASSUME NEW q \in Runs PROVE HistoryKept(q)'
    BY DEF HistoriesKept
  <2>1. ~RunGoes(q)
    BY <1>4 DEF Send, Processing
  <2>2. run'[q].at \in {"idle", "over", "list"}
    BY <1>0, <1>4, <2>1 DEF Send, RunGoes, Goto, RunTypes, RunState
  <2> QED
    BY <2>2 DEF HistoryKept, Writing, Pending
<1>5. ASSUME NEW r \in Runs, RunStep(r) PROVE HistoriesKept'
  <2>1. /\ RunGoes(r) /\ \A q \in Runs : q # r => run'[q] = run[q]
    BY <1>0, <1>5, RunStepTouches
  <2>2. \A q \in Runs : q # r => ~RunGoes(q)
    BY <1>0, <2>1, OthersRest
  <2>3. \A q \in Runs : q # r => ~RunGoes(q)'
    BY <2>1, <2>2 DEF RunGoes
  <2>4. HistoryKept(r)
    BY <1>0 DEF HistoriesKept
  <2>5. HistoryKept(r)'
    BY <1>0, <1>5, <2>4, RunKeepsHistory
  <2> QED
    BY <2>3, <2>5, HistoryOfOne
<1>6. ASSUME NEW r \in Runs, TitleStep(r) PROVE HistoriesKept'
  <2>1. UNCHANGED <<messages, run>>
    BY <1>6, TitleStepTouches
  <2> QED
    BY <1>0, <2>1, HistoryStays DEF HistoriesKept
<1>7. ASSUME NEW k \in Summaries, Summarize(k) PROVE HistoriesKept'
  <2>1. UNCHANGED <<messages, run>>
    BY <1>7 DEF Summarize
  <2> QED
    BY <1>0, <2>1, HistoryStays DEF HistoriesKept
<1>8. ASSUME NEW k \in Summaries, SummaryStep(k) PROVE HistoriesKept'
  <2> SUFFICES ASSUME NEW q \in Runs PROVE HistoryKept(q)'
    BY DEF HistoriesKept
  <2>1. SummaryGoes(k) /\ run' = run
    BY <1>0, <1>8, SummaryStepTouches
  <2>2. ~RunGoes(q)
    BY <1>0, <2>1 DEF OneAtATime
  <2>3. run'[q].at \in {"idle", "over"}
    BY <2>1, <2>2 DEF RunGoes
  <2> QED
    BY <2>3 DEF HistoryKept, Writing, Pending
<1> QED
  BY <1>1, <1>2, <1>3, <1>4, <1>5, <1>6, <1>7, <1>8 DEF Next

\* As long as the session is alone, what is being summarized is all there is,
\* and what was summarized is all there was.
LEMMA SummariesAreKept ==
    ASSUME Base, Kept, [Next]_vars, alone'
    PROVE  SummariesKept'
<1>0. /\ Types /\ PlacesOK /\ OneAtATime /\ SummariesKept /\ RunTypes /\ SummaryTypes
      /\ messages \in Seq(Message) /\ Len(messages) \in Nat
  BY LenProperties DEF Base, Kept, SummariesOK, Types, MessageTypes
<1>1. CASE UNCHANGED <<messages, summary>>
  BY <1>0, <1>1 DEF SummariesKept, Stored
<1>2. CASE Cancel
  <2> SUFFICES ASSUME NEW k \in Summaries
               PROVE  /\ summary'[k].at = summary[k].at /\ summary'[k].saw = summary[k].saw
                      /\ summary'[k].message = summary[k].message /\ UNCHANGED messages
    BY <1>0 DEF SummariesKept, Stored
  <2> QED
    BY <1>0, <1>2 DEF Cancel, SummaryTypes, SummaryState
<1>3. CASE Crash
  <2> SUFFICES ASSUME NEW k \in Summaries
               PROVE  /\ summary'[k].at \in {"idle", "over"} /\ summary'[k].saw = summary[k].saw
                      /\ summary'[k].message = summary[k].message
    BY <1>0 DEF SummariesKept, Stored
  <2> QED
    BY <1>0, <1>3 DEF Crash, SummaryOver, SummaryGoes, SummaryTypes, SummaryState
<1>4. ASSUME NEW k \in Summaries, Summarize(k) PROVE SummariesKept'
  BY <1>0, <1>4 DEF Summarize, SummaryGoto, SummariesKept, Stored, SummaryTypes, SummaryState
<1>5. ASSUME NEW r \in Runs, RunStep(r) PROVE SummariesKept'
  <2>1. RunGoes(r) /\ UNCHANGED summary
    BY <1>0, <1>5, RunStepTouches
  <2>2. \A k \in Summaries : summary[k].at \in {"idle", "over"}
    BY <1>0, <2>1 DEF OneAtATime, SummaryGoes
  <2> QED
    BY <1>0, <2>1, <2>2 DEF SummariesKept, Stored
<1>6. ASSUME NEW k \in Summaries, SummaryStep(k) PROVE SummariesKept'
  <2>1. SummaryGoes(k) /\ \A l \in Summaries : l # k => summary'[l] = summary[l]
    BY <1>0, <1>6, SummaryStepTouches
  <2>2. \A l \in Summaries : l # k => summary[l].at \in {"idle", "over"}
    BY <1>0, <2>1 DEF OneAtATime, SummaryGoes
  <2>3. SUFFICES /\ summary'[k].at \in {"model", "session", "create"} => summary'[k].saw = Len(messages')
                 /\ Stored(k)' => summary'[k].saw + 1 = summary'[k].message
    BY <1>0, <2>1, <2>2 DEF SummariesKept, Stored
  <2> USE DEF SummariesKept, Stored, SummaryTypes, SummaryState, SummaryGoto
  <2>4. CASE SummaryGivesUp(k)
    BY <1>0, <2>4 DEF SummaryGivesUp
  <2>5. CASE SummaryLists(k)
    BY <1>0, <2>5 DEF SummaryLists, PlacesOK, Unstored
  <2>6. CASE SummaryAnswered(k)
    BY <1>0, <2>6 DEF SummaryAnswered
  <2>7. CASE SummaryReads(k)
    BY <1>0, <2>7 DEF SummaryReads
  <2>8. CASE SummaryCreates(k)
    BY <1>0, <2>8 DEF SummaryCreates
  <2>9. CASE SummarySaves(k)
    BY <1>0, <2>9 DEF SummarySaves
  <2>10. CASE SummaryFinishes(k)
    BY <1>0, <2>10 DEF SummaryFinishes, SummaryOver
  <2> QED
    BY <1>6, <2>4, <2>5, <2>6, <2>7, <2>8, <2>9, <2>10 DEF SummaryStep
<1>7. ASSUME NEW r \in Runs, TitleStep(r) PROVE SummariesKept'
  BY <1>1, <1>7, TitleStepTouches
<1> QED
  BY <1>1, <1>2, <1>3, <1>4, <1>5, <1>6, <1>7 DEF Next, Send, vars

\* Calls that wait for their results go on to, were none, are answered or will
\* never be.
Waits(r) ==
    run[r].at \in Pending =>
        \/ run'[r].at \in Pending /\ run'[r].message = run[r].message
        \/ run[r].message \in severed'
        \/ ~messages[run[r].message].calls
        \/ run[r].message < Len(messages') /\ messages'[run[r].message + 1].answers = run[r].message

\* Calls and results stay paired when no message changes,
LEMMA CallsRest ==
    ASSUME CallsKept, UNCHANGED messages, severed \subseteq severed', \A r \in Runs : Waits(r)
    PROVE  CallsKept'
<1> SUFFICES ASSUME NEW i \in 1..Len(messages)
             PROVE  /\ messages[i].calls =>
                          \/ i \in severed'
                          \/ i < Len(messages) /\ messages[i + 1].answers = i
                          \/ \E r \in Runs : run'[r].at \in Pending /\ run'[r].message = i
                    /\ messages[i].role = "tool" => i > 1 /\ messages[i].answers = i - 1
  BY DEF CallsKept
<1>1. CASE \E r \in Runs : run[r].at \in Pending /\ run[r].message = i
  BY <1>1 DEF Waits, CallsKept
<1>2. CASE ~\E r \in Runs : run[r].at \in Pending /\ run[r].message = i
  BY <1>2 DEF CallsKept
<1> QED
  BY <1>1, <1>2

\* when one is added that answers none but the last,
LEMMA CallsGrow ==
    ASSUME Types, CallsKept, NEW role \in {"user", "assistant", "tool", "summary"},
           NEW answers \in Nat, Append1(role, answers),
           role = "tool" => answers = Len(messages) /\ answers > 0,
           severed \subseteq severed', \A r \in Runs : Waits(r)
    PROVE  CallsKept'
<1> PICK n : n = Len(messages)
  OBVIOUS
<1>1. /\ Len(messages') = n + 1 /\ n \in Nat
      /\ \A i \in 1..n : messages'[i] = messages[i]
      /\ messages'[n + 1].role = role /\ messages'[n + 1].calls = FALSE
      /\ messages'[n + 1].answers = answers
  BY Stores, LenProperties DEF Types, MessageTypes
<1> SUFFICES ASSUME NEW i \in 1..(n + 1)
             PROVE  /\ messages'[i].calls =>
                          \/ i \in severed'
                          \/ i < n + 1 /\ messages'[i + 1].answers = i
                          \/ \E r \in Runs : run'[r].at \in Pending /\ run'[r].message = i
                    /\ messages'[i].role = "tool" => i > 1 /\ messages'[i].answers = i - 1
  BY <1>1 DEF CallsKept
<1>2. CASE i = n + 1
  BY <1>1, <1>2
<1>3. CASE i \in 1..n
  <2>1. messages'[i] = messages[i]
    BY <1>1, <1>3
  <2>2. messages[i].role = "tool" => i > 1 /\ messages[i].answers = i - 1
    BY <1>3 DEF CallsKept
  <2>3. ASSUME NEW r \in Runs, run[r].at \in Pending, run[r].message = i, messages[i].calls
        PROVE  \/ i \in severed'
               \/ i < n + 1 /\ messages'[i + 1].answers = i
               \/ \E q \in Runs : run'[q].at \in Pending /\ run'[q].message = i
    BY <1>1, <2>3 DEF Waits
  <2>4. ASSUME i < n, messages[i + 1].answers = i
        PROVE  i < n + 1 /\ messages'[i + 1].answers = i
    BY <1>1, <2>4
  <2> QED
    BY <1>3, <2>1, <2>2, <2>3, <2>4 DEF CallsKept
<1> QED
  BY <1>1, <1>2, <1>3

\* and when the calls of the message of a run are stored that waits for their
\* results or is cut.
LEMMA CallsAreStored ==
    ASSUME Types, CallsKept, NEW r \in Runs, run[r].message \in 1..Len(messages),
           NEW c \in BOOLEAN, messages' = [messages EXCEPT ![run[r].message].calls = c],
           \/ run[r].message \in severed'
           \/ run'[r].at \in Pending /\ run'[r].message = run[r].message,
           severed \subseteq severed', \A q \in Runs : q # r => run'[q] = run[q],
           run[r].at \notin Pending
    PROVE  CallsKept'
<1> PICK n, m : n = Len(messages) /\ m = run[r].message
  OBVIOUS
<1>1. /\ Len(messages') = n /\ n \in Nat /\ m \in 1..n
      /\ \A i \in 1..n : /\ messages'[i].role = messages[i].role
                         /\ messages'[i].answers = messages[i].answers
                         /\ i # m => messages'[i] = messages[i]
  BY Updates, LenProperties DEF Types, MessageTypes
<1> SUFFICES ASSUME NEW i \in 1..n
             PROVE  /\ messages'[i].calls =>
                          \/ i \in severed'
                          \/ i < n /\ messages'[i + 1].answers = i
                          \/ \E q \in Runs : run'[q].at \in Pending /\ run'[q].message = i
                    /\ messages'[i].role = "tool" => i > 1 /\ messages'[i].answers = i - 1
  BY <1>1 DEF CallsKept
<1>2. messages'[i].role = "tool" => i > 1 /\ messages'[i].answers = i - 1
  BY <1>1 DEF CallsKept
<1>3. CASE i = m
  BY <1>2, <1>3
<1>4. CASE i # m
  <2>1. messages'[i] = messages[i] /\ (i < n => messages'[i + 1].answers = messages[i + 1].answers)
    BY <1>1, <1>4
  <2>2. ASSUME NEW q \in Runs, run[q].at \in Pending, run[q].message = i
        PROVE  run'[q].at \in Pending /\ run'[q].message = i
    BY <2>2
  <2> QED
    BY <1>2, <2>1, <2>2 DEF CallsKept
<1> QED
  BY <1>3, <1>4

\* A run that ends with the process leaves its calls answered or severed.
LEMMA CrashWaits ==
    ASSUME Base, CallsKept, Crash, NEW r \in Runs
    PROVE  Waits(r)
<1> PICK m, n : m = run[r].message /\ n = Len(messages)
  OBVIOUS
<1> SUFFICES ASSUME run[r].at \in Pending, m \notin severed'
             PROVE  m < n /\ messages[m + 1].answers = m
  BY DEF Waits, Crash
<1>1. /\ m \in 1..n /\ n \in Nat /\ messages \in Seq(Message) /\ DOMAIN messages = 1..n
      /\ severed' = severed \cup UNION {Unanswered(q) : q \in {p \in Runs : RunGoes(p)}}
      /\ RunGoes(r)
  BY LenProperties DEF Base, CurrentOK, Writing, Pending, Types, MessageTypes, Crash, RunGoes
<1>2. m \notin Unanswered(r)
  BY <1>1
<1>3. PICK i \in 1..n : messages[i].answers = m
  BY <1>1, <1>2 DEF Unanswered
<1>4. messages[i].role = "tool" /\ i > 1 /\ messages[i].answers = i - 1
  BY <1>1, <1>3 DEF Base, RolesOK, CallsKept
<1> QED
  BY <1>1, <1>3, <1>4

\* A run that has no calls, or goes on, does not lose any.
LEMMA RunWaits ==
    ASSUME RunTypes, NEW r \in Runs, RunStep(r), ~StreamBreaks(r), ~StreamCompletes(r), ~CreateToolMessage(r)
    PROVE  Waits(r) /\ severed \subseteq severed'
<1> USE DEF Waits, Pending, RunTypes, RunState, Goto, requestVars
<1>1. CASE GiveUp(r)
  BY <1>1 DEF GiveUp
<1>2. CASE ListMessages(r)
  BY <1>2 DEF ListMessages
<1>3. CASE GetSession(r)
  BY <1>3 DEF GetSession
<1>4. CASE CreateUserMessage(r)
  BY <1>4 DEF CreateUserMessage
<1>5. CASE Iterate(r)
  BY <1>5 DEF Iterate
<1>6. CASE CreateAssistantMessage(r)
  BY <1>6 DEF CreateAssistantMessage
<1>7. CASE TrackUsageReads(r)
  BY <1>7 DEF TrackUsageReads
<1>8. CASE TrackUsageSaves(r)
  BY <1>8 DEF TrackUsageSaves
<1>9. CASE CallTools(r)
  BY <1>9 DEF CallTools
<1>10. CASE DelegateReads(r)
  BY <1>10 DEF DelegateReads
<1>11. CASE DelegateSaves(r)
  BY <1>11 DEF DelegateSaves
<1>12. CASE Finish(r)
  BY <1>12 DEF Finish
<1> QED
  BY <1>1, <1>2, <1>3, <1>4, <1>5, <1>6, <1>7, <1>8, <1>9, <1>10, <1>11, <1>12 DEF RunStep

\* As long as the session is alone, results follow their calls.
LEMMA CallsAreKept ==
    ASSUME Base, Kept, [Next]_vars, alone'
    PROVE  CallsKept'
<1>0. /\ Types /\ CurrentOK /\ OneAtATime /\ CallsKept /\ RunTypes /\ HistoriesKept
      /\ messages \in Seq(Message) /\ Len(messages) \in Nat
  BY LenProperties DEF Base, Kept, Types, MessageTypes
<1>1. ASSUME UNCHANGED <<messages, severed>>, \A r \in Runs : run'[r].at = run[r].at /\ run'[r].message = run[r].message
      PROVE  CallsKept'
  BY <1>0, <1>1, CallsRest DEF Waits
<1>2. CASE UNCHANGED vars
  BY <1>1, <1>2 DEF vars
<1>3. CASE Cancel
  BY <1>0, <1>1, <1>3 DEF Cancel, RunTypes, RunState
<1>4. CASE Crash
  BY <1>0, <1>4, CrashWaits, CallsRest DEF Crash
<1>5. ASSUME NEW r \in Runs, Send(r) PROVE CallsKept'
  <2>1. \A q \in Runs : Waits(q)
    BY <1>0, <1>5 DEF Send, Goto, Waits, Pending, RunTypes, RunState
  <2> QED
    BY <1>0, <1>5, <2>1, CallsRest DEF Send
<1>6. ASSUME NEW r \in Runs, TitleStep(r) PROVE CallsKept'
  BY <1>1, <1>6, TitleStepTouches
<1>7. ASSUME NEW k \in Summaries, Summarize(k) PROVE CallsKept'
  BY <1>1, <1>7 DEF Summarize
<1>8. ASSUME NEW k \in Summaries, SummaryStep(k) PROVE CallsKept'
  <2>1. UNCHANGED <<run, severed>> /\ (UNCHANGED messages \/ Append1("summary", 0))
    BY <1>8 DEF SummaryStep, SummaryGivesUp, SummaryLists, SummaryAnswered, SummaryReads,
       SummaryCreates, SummarySaves, SummaryFinishes
  <2>2. \A q \in Runs : Waits(q)
    BY <2>1 DEF Waits
  <2>3. CASE UNCHANGED messages
    BY <1>0, <2>1, <2>2, <2>3, CallsRest
  <2>4. CASE Append1("summary", 0)
    BY <1>0, <2>1, <2>2, <2>4, CallsGrow
  <2> QED
    BY <2>1, <2>3, <2>4
<1>9. ASSUME NEW r \in Runs, RunStep(r) PROVE CallsKept'
  <2>1. \A q \in Runs : q # r => run'[q] = run[q]
    BY <1>0, <1>9, RunStepTouches
  <2>2. \A q \in Runs : q # r => Waits(q)
    BY <2>1 DEF Waits
  <2>3. CASE StreamBreaks(r)
    <3>1. run[r].message \in 1..Len(messages) /\ run[r].at \notin Pending
      BY <1>0, <2>3 DEF StreamBreaks, CurrentOK, Writing, Pending
    <3>2. run[r].message \in severed' /\ severed \subseteq severed'
      BY <2>3 DEF StreamBreaks
    <3>3. PICK c \in BOOLEAN : messages' = [messages EXCEPT ![run[r].message].calls = c]
      BY <2>3 DEF StreamBreaks
    <3> QED
      BY <1>0, <2>1, <3>1, <3>2, <3>3, CallsAreStored
  <2>4. CASE StreamCompletes(r)
    <3>1. run[r].message \in 1..Len(messages) /\ run[r].at \notin Pending
      BY <1>0, <2>4 DEF StreamCompletes, CurrentOK, Writing, Pending
    <3>2. run'[r].at \in Pending /\ run'[r].message = run[r].message /\ severed' = severed
      BY <1>0, <2>4 DEF StreamCompletes, Goto, Pending, RunTypes, RunState
    <3>3. PICK c \in BOOLEAN : messages' = [messages EXCEPT ![run[r].message].calls = c]
      BY <2>4 DEF StreamCompletes
    <3> QED
      BY <1>0, <2>1, <3>1, <3>2, <3>3, CallsAreStored
  <2>5. CASE CreateToolMessage(r)
    <3> PICK m : m = run[r].message
      OBVIOUS
    <3>1. m = Len(messages) /\ m > 0 /\ m \in Nat
      BY <1>0, <2>5 DEF CreateToolMessage, CurrentOK, HistoriesKept, HistoryKept, Writing, Pending
    <3>2. Append1("tool", m) /\ severed' = severed
      BY <2>5 DEF CreateToolMessage, MayAnswer
    <3>3. Len(messages') = m + 1 /\ messages'[m + 1].answers = m
      BY <1>0, <3>1, <3>2, Stores
    <3>4. Waits(r)
      BY <3>1, <3>3 DEF Waits
    <3> QED
      BY <1>0, <2>2, <3>1, <3>2, <3>4, CallsGrow
  <2>6. CASE ~StreamBreaks(r) /\ ~StreamCompletes(r) /\ ~CreateToolMessage(r)
    <3>1. severed \subseteq severed' /\ \A q \in Runs : Waits(q)
      BY <1>0, <1>9, <2>2, <2>6, RunWaits
    <3>2. UNCHANGED messages \/ Append1("user", 0) \/ Append1("assistant", 0)
      BY <1>9, <2>6 DEF RunStep, GiveUp, ListMessages, GetSession, CreateUserMessage, Iterate,
         CreateAssistantMessage, TrackUsageReads, TrackUsageSaves, CallTools, DelegateReads,
         DelegateSaves, Finish
    <3>3. CASE UNCHANGED messages
      BY <1>0, <3>1, <3>3, CallsRest
    <3>4. CASE Append1("user", 0)
      BY <1>0, <3>1, <3>4, CallsGrow
    <3>5. CASE Append1("assistant", 0)
      BY <1>0, <3>1, <3>5, CallsGrow
    <3> QED
      BY <3>2, <3>3, <3>4, <3>5
  <2> QED
    BY <2>3, <2>4, <2>5, <2>6
<1> QED
  BY <1>2, <1>3, <1>4, <1>5, <1>6, <1>7, <1>8, <1>9 DEF Next

-----------------------------------------------------------------------------
(* The invariant *)

\* It holds before the first message.
LEMMA InvInit == Init => IInv
<1> SUFFICES ASSUME Init PROVE IInv
  OBVIOUS
<1> USE DEF Init
<1>1. /\ messages = << >> /\ messages \in Seq(Message) /\ Len(messages) = 0 /\ severed = {}
      /\ \A r \in Runs : run[r] = Unstarted
      /\ \A k \in Summaries : summary[k] = NotCompacting
      /\ Unstarted \in RunState /\ Unstarted.at = "idle" /\ Unstarted.history = << >>
      /\ Unstarted.message = 0 /\ Unstarted.responses = 0
      /\ NotCompacting \in SummaryState /\ NotCompacting.at = "idle"
      /\ NotCompacting.saw = 0 /\ NotCompacting.message = 0
      /\ NoRow \in Row /\ NoRow.cost = 0 /\ NoRow.summaryMessage = 0
  BY DEF Unstarted, RunState, RunPhases, NotCompacting, SummaryState, SummaryPhases, NoRow, Row
<1>2. Types
  BY <1>1 DEF Types, RowTypes, RunTypes, SummaryTypes, OtherTypes, MessageTypes
<1>3. RolesOK /\ CurrentOK /\ CostBound
  BY <1>1 DEF RolesOK, CurrentOK, CostBound, Writing, Pending
<1>4. OwnOK
  BY <1>1 DEF OwnOK, Prompted, Writing, Pending
<1>5. SummariesOK
  BY <1>1 DEF SummariesOK, PlacesOK, NamesOK, Names, Stored
<1>6. OneAtATime /\ CostsKept
  BY <1>1 DEF OneAtATime, CostsKept, RunGoes, SummaryGoes
<1>7. HistoriesKept /\ CallsKept /\ SummariesKept
  BY <1>1 DEF HistoriesKept, HistoryKept, CallsKept, SummariesKept, Stored, Writing, Pending
<1> QED
  BY <1>2, <1>3, <1>4, <1>5, <1>6, <1>7 DEF IInv, Base, Kept

\* Every step keeps it.
LEMMA InvKept == IInv /\ [Next]_vars => IInv'
<1> SUFFICES ASSUME IInv, [Next]_vars PROVE IInv'
  OBVIOUS
<1>0. /\ Base /\ Types /\ CurrentOK /\ RolesOK /\ CostBound /\ OwnOK /\ PlacesOK /\ NamesOK
      /\ RowTypes /\ RunTypes /\ SummaryTypes /\ OtherTypes
  BY DEF IInv, Base, SummariesOK, Types
<1>1. Types' /\ RolesOK' /\ CurrentOK'
  BY <1>0, TypesKept, RolesKept, CurrentKept
<1>2. CostBound' /\ OwnOK'
  BY <1>0, CostBoundKept, OwnKept
<1>3. PlacesOK' /\ NamesOK' /\ Names \subseteq Names'
  BY <1>0, PlacesKept, NamesKept, NamesStay
<1>4. Base'
  BY <1>1, <1>2, <1>3 DEF Base, SummariesOK
<1>5. ASSUME alone' PROVE Kept'
  <2>1. alone /\ Kept /\ OneAtATime /\ CostsKept
    BY <1>5, AloneBefore DEF IInv, Kept
  <2>2. OneAtATime'
    BY <1>0, <1>5, <2>1, OneAtATimeKept
  <2>3. CostsKept'
    BY <1>0, <1>5, <2>1, CostsKeptKept
  <2>4. HistoriesKept' /\ CallsKept' /\ SummariesKept'
    BY <1>0, <1>3, <1>5, <2>1, HistoriesAreKept, CallsAreKept, SummariesAreKept
  <2> QED
    BY <2>2, <2>3, <2>4 DEF Kept
<1> QED
  BY <1>4, <1>5 DEF IInv

\* It holds in every state, for any number of prompts, summaries, messages and
\* faults (agent.go:234-723, session.go:66-110).
THEOREM Inductive == Spec => []IInv
  BY InvInit, InvKept, PTL DEF Spec

-----------------------------------------------------------------------------
(* What it says *)

\* The part of a history a run has added is paired.
LEMMA OwnIsPaired ==
    ASSUME RolesOK, NEW h \in Seq(Nat), NEW c, Own(h, c),
           \A i \in 1..Len(h) : h[i] \in 1..Len(messages)
    PROVE  Paired(SubSeq(h, Len(h) - 2 * c, Len(h)), {})
<1> PICK f, n, o : f = Len(h) - 2 * c /\ n = Len(h) /\ o = SubSeq(h, f, n)
  OBVIOUS
<1>1. n \in Nat /\ c \in Nat /\ f \in 1..n /\ n = f + 2 * c
  <2>1. n \in Nat
    BY LenProperties
  <2>2. c \in Nat /\ f >= 1 /\ f = n - 2 * c
    BY DEF Own, First
  <2> QED
    BY <2>1, <2>2
<1>2. /\ o \in Seq(Nat) /\ Len(o) = 2 * c + 1
      /\ \A i \in 1..(2 * c + 1) : o[i] = h[f + i - 1]
  <2>1. /\ o \in Seq(Nat) /\ Len(o) = n - f + 1
        /\ \A i \in 1..(n - f + 1) : o[i] = h[f + i - 1]
    <3>1. f \in Int /\ n \in Int /\ f <= n
      BY <1>1
    <3>2. \A i \in f..n : h[i] \in Nat
      BY <1>1, ElementOfSeq
    <3>3. /\ SubSeq(h, f, n) \in Seq(Nat)
          /\ Len(SubSeq(h, f, n)) = IF f <= n THEN n - f + 1 ELSE 0
          /\ \A i \in 1..(n - f + 1) : SubSeq(h, f, n)[i] = h[f + i - 1]
      BY <3>1, <3>2, SubSeqProperties
    <3> QED
      BY <3>1, <3>3
  <2> QED
    BY <1>1, <2>1
<1>3. DOMAIN o = 1..(2 * c + 1)
  BY <1>2, LenProperties
<1>4. \A i \in 1..(2 * c + 1) : f + i - 1 \in 1..n
  BY <1>1
<1>5. messages[o[1]].role = "user"
  BY <1>1, <1>2 DEF Own, First, Role
<1>6. ASSUME NEW j \in 1..c
      PROVE  /\ 2 * j \in 1..(2 * c) /\ messages[o[2 * j]].role = "assistant"
             /\ messages[o[2 * j + 1]].role = "tool"
             /\ messages[o[2 * j + 1]].answers = o[2 * j]
  <2>1. 2 * j \in 1..(2 * c + 1) /\ 2 * j + 1 \in 1..(2 * c + 1) /\ 2 * j \in 1..(2 * c)
    BY <1>1
  <2>2. o[2 * j] = h[f + 2 * j - 1] /\ o[2 * j + 1] = h[f + 2 * j]
    <3>1. o[2 * j] = h[f + 2 * j - 1] /\ o[2 * j + 1] = h[f + (2 * j + 1) - 1]
      BY <1>2, <2>1
    <3>2. f + (2 * j + 1) - 1 = f + 2 * j
      BY <1>1
    <3> QED
      BY <3>1, <3>2
  <2> QED
    BY <1>1, <2>1, <2>2 DEF Own, First, Role
<1> SUFFICES ASSUME NEW i \in 1..(2 * c + 1)
             PROVE  /\ messages[o[i]].calls => i < 2 * c + 1 /\ messages[o[i + 1]].answers = o[i]
                    /\ messages[o[i]].role = "tool" => i > 1 /\ messages[o[i]].answers = o[i - 1]
  BY <1>2, <1>3 DEF Paired
<1>7. messages[o[i]].calls => messages[o[i]].role = "assistant"
  BY <1>2, <1>4 DEF RolesOK
<1>8. CASE i = 1
  BY <1>5, <1>7, <1>8
<1>9. CASE \E j \in 1..c : i = 2 * j
  <2> PICK j \in 1..c : i = 2 * j
    BY <1>9
  <2>1. i \in 1..(2 * c) /\ messages[o[i]].role = "assistant" /\ messages[o[i + 1]].answers = o[i]
    BY <1>6
  <2>2. i < 2 * c + 1
    BY <1>1, <2>1
  <2> QED
    BY <2>1, <2>2
<1>10. CASE \E j \in 1..c : i = 2 * j + 1
  <2> PICK j \in 1..c : i = 2 * j + 1
    BY <1>10
  <2>1. i - 1 = 2 * j /\ i > 1
    OBVIOUS
  <2> QED
    BY <1>6, <1>7, <2>1
<1>11. i = 1 \/ (\E j \in 1..c : i = 2 * j) \/ (\E j \in 1..c : i = 2 * j + 1)
  <2> PICK j : j = i \div 2
    OBVIOUS
  <2>1. j \in Nat /\ (i = 2 * j \/ i = 2 * j + 1)
    OBVIOUS
  <2>2. j \in 1..c \/ i = 1
    BY <1>1, <2>1
  <2> QED
    BY <2>1, <2>2
<1> QED
  BY <1>8, <1>9, <1>10, <1>11

\* A history that is up to date is paired, but for the calls of severed messages.
LEMMA UpToIsPaired ==
    ASSUME Types, RolesOK, PlacesOK, CallsKept, NEW h, NEW n \in Nat, UpTo(h, n),
           \/ n = Len(messages)
           \/ n = Len(messages) - 1 /\ messages[Len(messages)].role # "tool",
           \A r \in Runs : run[r].at \notin Pending
    PROVE  Paired(h, severed)
<1>1. PICK s \in 1..(n + 1) : s \in {1} \cup Names /\ h = Interval(s, n)
  BY DEF UpTo
<1> PICK l : l = n - s + 1
  OBVIOUS
<1>2. l \in Nat /\ Len(h) = l /\ DOMAIN h = 1..l /\ \A i \in 1..l : h[i] = s + i - 1
  BY <1>1 DEF Interval
<1>3. Len(messages) \in Nat /\ (n = Len(messages) \/ n + 1 = Len(messages))
  BY LenProperties DEF Types, MessageTypes
<1> DEFINE Good(i) ==
             /\ messages[h[i]].calls =>
                   \/ h[i] \in severed
                   \/ i < l /\ messages[h[i + 1]].answers = h[i]
             /\ messages[h[i]].role = "tool" => i > 1 /\ messages[h[i]].answers = h[i - 1]
<1>0. ASSUME \A i \in 1..l : Good(i) PROVE Paired(h, severed)
  <2>1. ASSUME NEW i \in DOMAIN h
        PROVE  /\ messages[h[i]].calls =>
                     \/ h[i] \in severed
                     \/ i < Len(h) /\ messages[h[i + 1]].answers = h[i]
               /\ messages[h[i]].role = "tool" => i > 1 /\ messages[h[i]].answers = h[i - 1]
    <3>1. i \in 1..l /\ Len(h) = l
      BY <1>2
    <3>2. Good(i)
      BY <1>0, <3>1
    <3> QED
      BY <3>1, <3>2
  <2> QED
    BY <2>1 DEF Paired
<1> SUFFICES ASSUME NEW i \in 1..l
             PROVE  Good(i)
  BY <1>0
<1> PICK x : x = h[i]
  OBVIOUS
<1>4. x = s + i - 1 /\ x \in 1..n /\ x \in 1..Len(messages)
  <2>1. x = s + i - 1
    BY <1>2
  <2>2. s \in 1..(n + 1)
    BY <1>1
  <2>3. x \in 1..n
    BY <2>1, <2>2
  <2> QED
    BY <1>3, <2>1, <2>3
<1>5. ASSUME messages[x].calls, x \notin severed
      PROVE  i < l /\ messages[h[i + 1]].answers = x
  <2>1. x < Len(messages) /\ messages[x + 1].answers = x
    BY <1>4, <1>5 DEF CallsKept
  <2>2. x # n
    <3> SUFFICES ASSUME x = n PROVE FALSE
      OBVIOUS
    <3>1. x + 1 = Len(messages) /\ messages[Len(messages)].role # "tool"
      BY <1>3, <1>4, <2>1
    <3>2. messages[x + 1].role = "tool"
      BY <1>4, <2>1, <3>1 DEF RolesOK
    <3> QED
      BY <3>1, <3>2
  <2>3. i < l /\ i + 1 \in 1..l /\ s + (i + 1) - 1 = x + 1
    BY <1>1, <1>4, <2>2
  <2>4. h[i + 1] = x + 1
    BY <1>2, <2>3
  <2> QED
    BY <2>1, <2>3, <2>4
<1>6. ASSUME messages[x].role = "tool"
      PROVE  i > 1 /\ messages[x].answers = h[i - 1]
  <2>1. x > 1 /\ messages[x].answers = x - 1
    BY <1>4, <1>6 DEF CallsKept
  <2>2. i # 1
    <3> SUFFICES ASSUME i = 1 PROVE FALSE
      OBVIOUS
    <3>1. x = s /\ s \in Names /\ s # 0
      BY <1>1, <1>4, <2>1
    <3>2. PICK k \in Summaries : summary[k].message = s
      BY <3>1 DEF Names
    <3> QED
      BY <1>6, <3>1, <3>2 DEF PlacesOK, Stored, Role
  <2>3. i > 1 /\ i - 1 \in 1..l /\ s + (i - 1) - 1 = x - 1
    BY <1>1, <1>4, <2>2
  <2>4. h[i - 1] = x - 1
    BY <1>2, <2>3
  <2> QED
    BY <2>1, <2>3, <2>4
<1> QED
  BY <1>5, <1>6

\* Every variable has its shape, and no cost is invented, whatever the order of
\* the requests, cancellations and ends of the process
\* (agent.go:234-345, session.go:66-110).
THEOREM TypeCorrect == Spec => []TypeOK
<1>1. IInv => TypeOK
  <2> SUFFICES ASSUME IInv PROVE TypeOK
    OBVIOUS
  <2>1. Types /\ CostBound
    BY DEF IInv, Base
  <2>2. \A r \in Runs : run[r].history \in Seq(DOMAIN messages)
    <3> SUFFICES ASSUME NEW r \in Runs PROVE run[r].history \in Seq(DOMAIN messages)
      OBVIOUS
    <3> PICK h, n : h = run[r].history /\ n = Len(messages)
      OBVIOUS
    <3>1. /\ h \in Seq(Nat) /\ \A i \in 1..Len(h) : h[i] \in 1..n
          /\ DOMAIN messages = 1..n
      BY <2>1, LenProperties DEF Types, RunTypes, RunState, MessageTypes
    <3>2. h \in Seq(1..n)
      BY <3>1
    <3> QED
      BY <3>1, <3>2
  <2>3. DOMAIN messages = 1..Len(messages)
    BY <2>1, LenProperties DEF Types, MessageTypes
  <2>4. row.cost \in 0..charges /\ duringTitle \in 0..charges
    BY <2>1 DEF Types, RowTypes, Row, CostBound
  <2> QED
    BY <2>1, <2>2, <2>3, <2>4
    DEF TypeOK, Types, RowTypes, RunTypes, SummaryTypes, OtherTypes, MessageTypes
<1> QED
  BY <1>1, Inductive, PTL

\* In a session that was never asked for two things at once the row keeps every
\* charge, but those saved while a title generator held the row
\* (agent.go:163-198, 534-554, agent-tool.go:81-95).
THEOREM CostsAreComplete == Spec => []CostIsComplete
<1>1. IInv => CostIsComplete
  BY DEF IInv, Kept, CostsKept, CostIsComplete
<1> QED
  BY <1>1, Inductive, PTL

\* The row names a summary that was stored; and in a session that was never
\* asked for two things at once the model is shown every message or a summary
\* made from it (agent.go:264-276, 600-723).
THEOREM MessagesAreRemembered == Spec => []NothingIsForgotten
<1>1. IInv => NothingIsForgotten
  <2> SUFFICES ASSUME IInv PROVE NothingIsForgotten
    OBVIOUS
  <2>0. /\ Types /\ PlacesOK /\ NamesOK /\ Len(messages) \in Nat
        /\ DOMAIN messages = 1..Len(messages)
    BY LenProperties DEF IInv, Base, SummariesOK, Types, MessageTypes
  <2>1. ASSUME row.summaryMessage # 0
        PROVE  \E k \in Summaries : /\ summary[k].message = row.summaryMessage
                                    /\ summary[k].saw < row.summaryMessage
                                    /\ messages[row.summaryMessage].role = "summary"
    <3>1. PICK k \in Summaries : summary[k].message = row.summaryMessage
      BY <2>0, <2>1 DEF NamesOK, Names
    <3> QED
      BY <2>0, <2>1, <3>1 DEF PlacesOK, Stored, Role
  <2>2. ASSUME NEW r \in Runs, alone, run[r].at = "create", NEW m \in 1..Len(messages),
               m \notin {run[r].history[i] : i \in DOMAIN run[r].history}
        PROVE  \E k \in Summaries :
                  /\ summary[k].message \in {run[r].history[i] : i \in DOMAIN run[r].history}
                  /\ m <= summary[k].saw
    <3> PICK h, n : h = run[r].history /\ n = Len(messages)
      OBVIOUS
    <3>1. UpTo(h, n) /\ SummariesKept
      BY <2>2 DEF IInv, Kept, HistoriesKept, HistoryKept
    <3>2. PICK s \in 1..(n + 1) : s \in {1} \cup Names /\ h = Interval(s, n)
      BY <3>1 DEF UpTo
    <3>3. DOMAIN h = 1..(n - s + 1) /\ \A i \in 1..(n - s + 1) : h[i] = s + i - 1
      BY <3>2 DEF Interval
    <3>4. m < s
      <4> SUFFICES ASSUME m >= s PROVE m \in {h[i] : i \in DOMAIN h}
        BY <2>0, <2>2
      <4>1. m - s + 1 \in 1..(n - s + 1) /\ s + (m - s + 1) - 1 = m
        BY <2>0
      <4>2. h[m - s + 1] = m
        BY <3>3, <4>1
      <4> QED
        BY <3>3, <4>1, <4>2
    <3>5. PICK k \in Summaries : summary[k].message = s
      BY <2>2, <3>2, <3>4 DEF Names
    <3>6. s \in 1..n /\ summary[k].saw + 1 = s /\ summary[k].saw \in Nat
      BY <2>0, <3>1, <3>5 DEF PlacesOK, SummariesKept, Stored, Types, SummaryTypes, SummaryState
    <3>7. s \in {h[i] : i \in DOMAIN h}
      <4>1. 1 \in 1..(n - s + 1) /\ s + 1 - 1 = s
        BY <2>0, <3>6
      <4> QED
        BY <3>3, <4>1
    <3>8. m <= summary[k].saw
      BY <3>4, <3>6
    <3> QED
      BY <3>5, <3>7, <3>8
  <2> QED
    BY <2>0, <2>1, <2>2 DEF NothingIsForgotten
<1> QED
  BY <1>1, Inductive, PTL

\* Every request to the model has results after calls and calls before results:
\* in what the run added itself, always; in all of it, in a session that was
\* never asked for two things at once, except after calls that were cut short
\* (agent.go:242-336, 347-463).
THEOREM RequestsAreAccepted == Spec => []RequestsArePaired
<1>1. IInv => RequestsArePaired
  <2> SUFFICES ASSUME IInv, NEW r \in Runs, run[r].at \in {"create", "stream"}
               PROVE  /\ Paired(OwnPart(r), {})
                      /\ alone => Paired(run[r].history, severed)
    BY DEF RequestsArePaired
  <2> PICK h, n : h = run[r].history /\ n = Len(messages)
    OBVIOUS
  <2>0. /\ Types /\ RolesOK /\ PlacesOK /\ CurrentOK /\ n \in Nat /\ h \in Seq(Nat)
        /\ \A i \in 1..Len(h) : h[i] \in 1..n
    BY LenProperties DEF IInv, Base, SummariesOK, Types, MessageTypes, RunTypes, RunState
  <2>1. Paired(OwnPart(r), {})
    <3> PICK c : c = run[r].responses - 1
      OBVIOUS
    <3>1. Own(h, c)
      BY DEF IInv, Base, OwnOK, Completed, Prompted, Writing
    <3>2. Paired(SubSeq(h, Len(h) - 2 * c, Len(h)), {})
      BY <2>0, <3>1, OwnIsPaired
    <3> QED
      BY <3>2 DEF OwnPart
  <2>2. ASSUME alone PROVE Paired(h, severed)
    <3>1. OneAtATime /\ CallsKept /\ HistoryKept(r)
      BY <2>2 DEF IInv, Kept, HistoriesKept
    <3>2. \A q \in Runs : run[q].at \notin Pending
      BY <3>1 DEF OneAtATime, RunGoes, Pending
    <3>3. CASE run[r].at = "create"
      BY <2>0, <3>1, <3>2, <3>3, UpToIsPaired DEF HistoryKept
    <3>4. CASE run[r].at = "stream"
      <4> PICK l : l = n - 1
        OBVIOUS
      <4>1. run[r].message = n /\ UpTo(h, l)
        BY <3>1, <3>4 DEF HistoryKept, Writing
      <4>2. n \in 1..n /\ messages[n].role = "assistant"
        BY <2>0, <3>4, <4>1 DEF CurrentOK, Writing
      <4>3. l \in Nat
        BY <2>0, <4>2
      <4> QED
        BY <2>0, <3>1, <3>2, <4>1, <4>2, <4>3, UpToIsPaired
    <3> QED
      BY <3>3, <3>4
  <2> QED
    BY <2>1, <2>2
<1> QED
  BY <1>1, Inductive, PTL

=============================================================================
