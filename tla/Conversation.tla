---------------------------- MODULE Conversation ----------------------------
(***************************************************************************)
(* One session of the coding agent as the database keeps it: its messages  *)
(* (internal/message/message.go) and its row (internal/session/session.go),*)
(* written by runs, by the title generator, by Summarize and by the agent  *)
(* tool (internal/llm/agent/agent.go, agent-tool.go).                      *)
(*                                                                         *)
(* A row is read with Get and written back whole with Save; nothing keeps  *)
(* other writers out in between.  The busy map has one key for the runs of *)
(* the session and one for its summary, and Run looks at the first only.   *)
(*                                                                         *)
(* Abstracted: contents, models, token counts, publications of events.  A  *)
(* response calls tools or does not; its tools' results are one message.   *)
(* Every charge is one unit of cost.  A database call takes effect at once,*)
(* or fails because its context was done when it began.                    *)
(* Which tools run and what they ask is in AgentRun.                       *)
(***************************************************************************)
EXTENDS Naturals, Sequences, FiniteSets

CONSTANTS
    MaxRuns,        \* bound: prompts sent
    MaxSummaries,   \* bound: compactions started
    MaxMessages,    \* bound: no more requests to the model after so many messages
    MaxShared,      \* bound: the same once two requests overlapped
    MaxCharges,     \* bound: no more calls of the agent tool after so many charges
    MaxFaults       \* bound: cancellations and ends of the process

ASSUME ConversationAssumption ==
    /\ MaxRuns \in Nat /\ MaxSummaries \in Nat /\ MaxMessages \in Nat /\ MaxShared \in Nat
    /\ MaxCharges \in Nat /\ MaxFaults \in Nat

Runs == 1..MaxRuns
Summaries == 1..MaxSummaries

\* Who writes the row: the run itself (or its agent tool), the title
\* generator its first prompt started, a summary.
Writers == [kind : {"run", "title"}, of : Runs] \cup [kind : {"summary"}, of : Summaries]
RunOf(r) == [kind |-> "run", of |-> r]
TitleOf(r) == [kind |-> "title", of |-> r]
SummaryOf(k) == [kind |-> "summary", of |-> k]

VARIABLES
    messages,     \* the messages of the session, in the order of List
    row,          \* the session's row
    held,         \* held[w]: the row as w has read it, until it is saved
    activeRun,    \* activeRequests[session]: whose cancel is stored, 0 for none
    activeSummary,\* activeRequests[session + "-summarize"]
    run,          \* run[r]: the goroutine of the r-th prompt
    title,        \* title[r]: the goroutine that run started, if any
    summary,      \* summary[k]: the goroutine of the k-th compaction
    charges,      \* history: the number of charges that were saved
    alone,        \* history: no request was accepted while another was under way
    duringTitle,  \* history: how many of them while a title generator held the row
    severed,      \* history: messages whose calls can never be answered
    faults

vars == <<messages, row, held, activeRun, activeSummary, run, title, summary,
          charges, alone, duringTitle, severed, faults>>

Message == [role : {"user", "assistant", "tool", "summary"},
            calls : BOOLEAN,   \* whether an assistant message calls tools
            answers : Nat]     \* whose calls the results of a tool message are for

Row == [titled : BOOLEAN, cost : Nat, summaryMessage : Nat]
NoRow == [titled |-> FALSE, cost |-> 0, summaryMessage |-> 0]

RunPhases == {"idle", "list", "session", "prompt", "iterate", "create", "stream",
              "usage", "save", "check", "delegate", "results", "end", "over"}
SummaryPhases == {"idle", "list", "model", "session", "create", "save", "end", "over"}

RunState == [at : RunPhases, cancelled : BOOLEAN,
             history : Seq(Nat),  \* msgHistory, as places in messages
             message : Nat,       \* assistantMsg
             responses : Nat]

SummaryState == [at : SummaryPhases, cancelled : BOOLEAN,
                 saw : Nat,       \* how many messages it summarizes
                 message : Nat]

Unstarted == [at |-> "idle", cancelled |-> FALSE, history |-> << >>,
              message |-> 0, responses |-> 0]
NotCompacting == [at |-> "idle", cancelled |-> FALSE, saw |-> 0, message |-> 0]

\* The first message of a new session is on its way.
Init ==
    /\ messages = << >>
    /\ row = NoRow
    /\ held = [w \in Writers |-> NoRow]
    /\ activeRun = 0
    /\ activeSummary = 0
    /\ run = [r \in Runs |-> Unstarted]
    /\ title = [r \in Runs |-> "none"]
    /\ summary = [k \in Summaries |-> NotCompacting]
    /\ charges = 0
    /\ alone = TRUE
    /\ duringTitle = 0
    /\ severed = {}
    /\ faults = 0

rowVars == <<row, held, charges, duringTitle>>
saved == <<row, charges, duringTitle>>
requestVars == <<activeRun, activeSummary, alone, faults>>

-----------------------------------------------------------------------------
(* Helpers *)

RunGoes(r) == run[r].at \notin {"idle", "over"}
SummaryGoes(k) == summary[k].at \notin {"idle", "over"}
Processing == (\E r \in Runs : RunGoes(r)) \/ (\E k \in Summaries : SummaryGoes(k))

\* A goroutine that has ended, with its locals.
Over == [Unstarted EXCEPT !.at = "over"]
SummaryOver(k) == [summary[k] EXCEPT !.at = "over", !.cancelled = FALSE]

Goto(r, phase) == run' = [run EXCEPT ![r].at = phase]
SummaryGoto(k, phase) == summary' = [summary EXCEPT ![k].at = phase]

\* sessions.Get, at the start of a read-modify-write by w.
Get(w) ==
    /\ held' = [held EXCEPT ![w] = row]
    /\ UNCHANGED saved

TitlePending == \E r \in Runs : title[r] = "asked"

\* Mutant of Charged: the cost is set, as the token counts are.
ChargedAnew(w) == [held[w] EXCEPT !.cost = 1]

\* What w read, with one more charge.
Charged(w) == [held[w] EXCEPT !.cost = @ + 1]

\* What w read is gone with its goroutine.
Drop(w) == held' = [held EXCEPT ![w] = NoRow]

\* sessions.Save by w of what it read and has added a charge to.
SaveCharge(w, new) ==
    /\ row' = new
    /\ charges' = charges + 1
    /\ duringTitle' = IF TitlePending THEN duringTitle + 1 ELSE duringTitle
    /\ Drop(w)

Append1(role, answers) ==
    messages' = Append(messages, [role |-> role, calls |-> FALSE, answers |-> answers])

-----------------------------------------------------------------------------
(* The user interface *)

\* Run: refused while a run of the session is stored, whatever Summarize does.
Send(r) ==
    /\ run[r].at = "idle"
    /\ r > 1 => run[r - 1].at # "idle"
    /\ activeRun = 0
    /\ Processing => Len(messages) < MaxShared
    /\ activeRun' = r
    /\ Goto(r, "list")
    /\ alone' = (alone /\ ~Processing)
    /\ UNCHANGED <<messages, rowVars, activeSummary, title, summary, severed, faults>>

\* StartCompactSessionMsg and Summarize, by command or because the context
\* window is nearly full.
Summarize(k) ==
    /\ summary[k].at = "idle"
    /\ k > 1 => summary[k - 1].at # "idle"
    /\ activeRun = 0
    /\ Processing => Len(messages) < MaxShared
    /\ activeSummary' = k
    /\ SummaryGoto(k, "list")
    /\ alone' = (alone /\ ~Processing)
    /\ UNCHANGED <<messages, rowVars, activeRun, run, title, severed, faults>>

\* Cancel: both keys.
Cancel ==
    /\ activeRun # 0 \/ activeSummary # 0
    /\ faults < MaxFaults
    /\ faults' = faults + 1
    /\ run' = [r \in Runs |-> IF r = activeRun THEN [run[r] EXCEPT !.cancelled = TRUE] ELSE run[r]]
    /\ summary' = [k \in Summaries |->
                      IF k = activeSummary THEN [summary[k] EXCEPT !.cancelled = TRUE] ELSE summary[k]]
    /\ activeRun' = 0
    /\ activeSummary' = 0
    /\ UNCHANGED <<messages, rowVars, title, alone, severed>>

\* A tool call in a message that the run that wrote it has left unanswered.
Unanswered(r) ==
    {run[r].message} \ ({0} \cup {messages[i].answers : i \in DOMAIN messages})

\* The process ends and another opens the session.
Crash ==
    /\ faults < MaxFaults
    /\ faults' = faults + 1
    /\ severed' = severed \cup UNION {Unanswered(r) : r \in {q \in Runs : RunGoes(q)}}
    /\ run' = [r \in Runs |-> IF RunGoes(r) THEN Over ELSE run[r]]
    /\ summary' = [k \in Summaries |-> IF SummaryGoes(k) THEN SummaryOver(k) ELSE summary[k]]
    /\ held' = [w \in Writers |-> NoRow]
    /\ title' = [r \in Runs |-> IF title[r] = "none" THEN "none" ELSE "over"]
    /\ activeRun' = 0
    /\ activeSummary' = 0
    /\ UNCHANGED <<messages, saved, alone>>

-----------------------------------------------------------------------------
(* A run: processGeneration *)

\* A database call under a context that is done, or a check of the context:
\* the run ends, and calls that were streamed get no results.
GiveUp(r) ==
    /\ run[r].at \in {"list", "session", "prompt", "iterate", "create", "usage", "save", "check"}
    /\ run[r].cancelled
    /\ severed' = severed \cup (IF run[r].at \in {"usage", "save", "check"} THEN {run[r].message} ELSE {})
    /\ Drop(RunOf(r))
    /\ Goto(r, "end")
    /\ UNCHANGED <<messages, saved, requestVars, title, summary>>

\* messages.List; a session without messages gets a title, generated aside.
ListMessages(r) ==
    /\ run[r].at = "list"
    /\ ~run[r].cancelled
    /\ run' = [run EXCEPT ![r].at = "session", ![r].history = [i \in 1..Len(messages) |-> i]]
    /\ title' = [title EXCEPT ![r] = IF messages = << >> THEN "started" ELSE @]
    /\ UNCHANGED <<messages, rowVars, requestVars, summary, severed>>

\* Mutant of FromSummary: the summary itself is left out.
AfterSummary(h, s) ==
    IF s \in DOMAIN h THEN [i \in 1..(Len(h) - s) |-> h[s + i]] ELSE h

\* What the model is shown: from the summary message on, if the list has it.
FromSummary(h, s) ==
    IF s \in DOMAIN h THEN [i \in 1..(Len(h) - s + 1) |-> h[s + i - 1]] ELSE h

GetSession(r) ==
    /\ run[r].at = "session"
    /\ ~run[r].cancelled
    /\ run' = [run EXCEPT ![r].at = "prompt",
                          ![r].history = FromSummary(@, row.summaryMessage)]
    /\ UNCHANGED <<messages, rowVars, requestVars, title, summary, severed>>

CreateUserMessage(r) ==
    /\ run[r].at = "prompt"
    /\ ~run[r].cancelled
    /\ Append1("user", 0)
    /\ run' = [run EXCEPT ![r].at = "iterate", ![r].history = Append(@, Len(messages) + 1)]
    /\ UNCHANGED <<rowVars, requestVars, title, summary, severed>>

\* The check before each request, then StreamResponse with the history.
Iterate(r) ==
    /\ run[r].at = "iterate"
    /\ ~run[r].cancelled
    /\ Len(messages) < IF alone THEN MaxMessages ELSE MaxShared
    /\ run' = [run EXCEPT ![r].at = "create", ![r].responses = @ + 1]
    /\ UNCHANGED <<messages, rowVars, requestVars, title, summary, severed>>

CreateAssistantMessage(r) ==
    /\ run[r].at = "create"
    /\ ~run[r].cancelled
    /\ Append1("assistant", 0)
    /\ run' = [run EXCEPT ![r].at = "stream", ![r].message = Len(messages) + 1]
    /\ UNCHANGED <<rowVars, requestVars, title, summary, severed>>

\* EventError, or the context is done: the message stays as streamed, with the
\* calls of the EventToolUseStarts that came.
StreamBreaks(r) ==
    /\ run[r].at = "stream"
    /\ \E calls \in BOOLEAN : messages' = [messages EXCEPT ![run[r].message].calls = calls]
    /\ severed' = severed \cup {run[r].message}
    /\ Goto(r, "end")
    /\ UNCHANGED <<rowVars, requestVars, title, summary>>

\* EventComplete: SetToolCalls, Update.
StreamCompletes(r) ==
    /\ run[r].at = "stream"
    /\ ~run[r].cancelled
    /\ \E calls \in BOOLEAN : messages' = [messages EXCEPT ![run[r].message].calls = calls]
    /\ Goto(r, "usage")
    /\ UNCHANGED <<rowVars, requestVars, title, summary, severed>>

\* TrackUsage reads the row,
TrackUsageReads(r) ==
    /\ run[r].at = "usage"
    /\ ~run[r].cancelled
    /\ Get(RunOf(r))
    /\ Goto(r, "save")
    /\ UNCHANGED <<messages, requestVars, title, summary, severed>>

\* and writes it back with the response's cost.
TrackUsageSaves(r) ==
    /\ run[r].at = "save"
    /\ ~run[r].cancelled
    /\ SaveCharge(RunOf(r), Charged(RunOf(r)))
    /\ Goto(r, "check")
    /\ UNCHANGED <<messages, requestVars, title, summary, severed>>

\* The check after an event, then the loop over the tool calls: each gets a
\* result, of the tool, denied, or cancelled.
CallTools(r) ==
    /\ run[r].at = "check"
    /\ ~run[r].cancelled
    /\ Goto(r, IF messages[run[r].message].calls THEN "results" ELSE "end")
    /\ UNCHANGED <<messages, rowVars, requestVars, title, summary, severed>>

\* One of the calls is for the agent tool: when its session is done, the cost
\* of that is added to this one's row.
DelegateReads(r) ==
    /\ run[r].at = "check"
    /\ ~run[r].cancelled
    /\ messages[run[r].message].calls
    /\ charges < MaxCharges
    /\ Get(RunOf(r))
    /\ Goto(r, "delegate")
    /\ UNCHANGED <<messages, requestVars, title, summary, severed>>

DelegateSaves(r) ==
    /\ run[r].at = "delegate"
    /\ IF run[r].cancelled
       THEN Drop(RunOf(r)) /\ UNCHANGED saved
       ELSE SaveCharge(RunOf(r), Charged(RunOf(r)))
    /\ Goto(r, "results")
    /\ UNCHANGED <<messages, requestVars, title, summary, severed>>

\* Mutant of MayAnswer: the results are stored under the context of the run.
AnswersInTime(r) == ~run[r].cancelled

\* messages.Create with the background context.
MayAnswer(r) == TRUE

\* The results are stored; the run goes on unless the finish reason has become
\* canceled or permission_denied.
CreateToolMessage(r) ==
    /\ run[r].at = "results"
    /\ IF MayAnswer(r) THEN Append1("tool", run[r].message) ELSE UNCHANGED messages
    /\ \/ run' = [run EXCEPT ![r].at = "iterate",
                             ![r].history = @ \o <<run[r].message, Len(messages) + 1>>]
       \/ Goto(r, "end")
    /\ UNCHANGED <<rowVars, requestVars, title, summary, severed>>

\* The end of the goroutine deletes whatever the session has stored.
Finish(r) ==
    /\ run[r].at = "end"
    /\ run' = [run EXCEPT ![r] = Over]
    /\ activeRun' = 0
    /\ UNCHANGED <<messages, rowVars, activeSummary, title, summary, alone, severed, faults>>

-----------------------------------------------------------------------------
(* generateTitle *)

TitleReads(r) ==
    /\ title[r] = "started"
    /\ Get(TitleOf(r))
    /\ title' = [title EXCEPT ![r] = "asked"]
    /\ UNCHANGED <<messages, requestVars, run, summary, severed>>

\* The model has answered: the whole row is written back.
TitleSaves(r) ==
    /\ title[r] = "asked"
    /\ row' = [held[TitleOf(r)] EXCEPT !.titled = TRUE]
    /\ title' = [title EXCEPT ![r] = "over"]
    /\ Drop(TitleOf(r))
    /\ UNCHANGED <<messages, charges, duringTitle, requestVars, run, summary, severed>>

\* No answer, or an empty one.
TitleFails(r) ==
    /\ title[r] = "asked"
    /\ title' = [title EXCEPT ![r] = "over"]
    /\ Drop(TitleOf(r))
    /\ UNCHANGED <<messages, saved, requestVars, run, summary, severed>>

-----------------------------------------------------------------------------
(* The goroutine of Summarize *)

\* A context that is done, nothing to summarize, no answer or an empty one.
SummaryGivesUp(k) ==
    /\ \/ summary[k].at \in {"list", "session", "create", "save"} /\ summary[k].cancelled
       \/ summary[k].at = "list" /\ messages = << >>
       \/ summary[k].at = "model"
    /\ SummaryGoto(k, "end")
    /\ Drop(SummaryOf(k))
    /\ UNCHANGED <<messages, saved, requestVars, run, title, severed>>

SummaryLists(k) ==
    /\ summary[k].at = "list"
    /\ ~summary[k].cancelled
    /\ messages # << >>
    /\ summary' = [summary EXCEPT ![k].at = "model", ![k].saw = Len(messages)]
    /\ UNCHANGED <<messages, rowVars, requestVars, run, title, severed>>

SummaryAnswered(k) ==
    /\ summary[k].at = "model"
    /\ ~summary[k].cancelled
    /\ SummaryGoto(k, "session")
    /\ UNCHANGED <<messages, rowVars, requestVars, run, title, severed>>

SummaryReads(k) ==
    /\ summary[k].at = "session"
    /\ ~summary[k].cancelled
    /\ Get(SummaryOf(k))
    /\ SummaryGoto(k, "create")
    /\ UNCHANGED <<messages, requestVars, run, title, severed>>

SummaryCreates(k) ==
    /\ summary[k].at = "create"
    /\ ~summary[k].cancelled
    /\ Append1("summary", 0)
    /\ summary' = [summary EXCEPT ![k].at = "save", ![k].message = Len(messages) + 1]
    /\ UNCHANGED <<rowVars, requestVars, run, title, severed>>

SummarySaves(k) ==
    /\ summary[k].at = "save"
    /\ ~summary[k].cancelled
    /\ SaveCharge(SummaryOf(k), [Charged(SummaryOf(k)) EXCEPT !.summaryMessage = summary[k].message])
    /\ SummaryGoto(k, "end")
    /\ UNCHANGED <<messages, requestVars, run, title, severed>>

SummaryFinishes(k) ==
    /\ summary[k].at = "end"
    /\ summary' = [summary EXCEPT ![k] = SummaryOver(k)]
    /\ activeSummary' = 0
    /\ UNCHANGED <<messages, rowVars, activeRun, run, title, alone, severed, faults>>

-----------------------------------------------------------------------------

RunStep(r) ==
    \/ GiveUp(r) \/ ListMessages(r) \/ GetSession(r) \/ CreateUserMessage(r)
    \/ Iterate(r) \/ CreateAssistantMessage(r)
    \/ StreamBreaks(r) \/ StreamCompletes(r)
    \/ TrackUsageReads(r) \/ TrackUsageSaves(r) \/ CallTools(r)
    \/ DelegateReads(r) \/ DelegateSaves(r) \/ CreateToolMessage(r) \/ Finish(r)

TitleStep(r) == TitleReads(r) \/ TitleSaves(r) \/ TitleFails(r)

SummaryStep(k) ==
    \/ SummaryGivesUp(k) \/ SummaryLists(k) \/ SummaryAnswered(k) \/ SummaryReads(k)
    \/ SummaryCreates(k) \/ SummarySaves(k) \/ SummaryFinishes(k)

Next ==
    \/ Cancel \/ Crash
    \/ \E r \in Runs : Send(r) \/ RunStep(r) \/ TitleStep(r)
    \/ \E k \in Summaries : Summarize(k) \/ SummaryStep(k)

Spec == Init /\ [][Next]_vars

-----------------------------------------------------------------------------
(* Properties *)

\* The shape of every variable; a cost holds no more than was charged, and
\* what a run shows the model are messages of the session.
TypeOK ==
    /\ messages \in Seq(Message)
    /\ row \in Row /\ row.cost \in 0..charges
    /\ held \in [Writers -> Row]
    /\ activeRun \in {0} \cup Runs /\ activeSummary \in {0} \cup Summaries
    /\ run \in [Runs -> RunState]
    /\ \A r \in Runs : run[r].history \in Seq(DOMAIN messages)
    /\ title \in [Runs -> {"none", "started", "asked", "over"}]
    /\ summary \in [Summaries -> SummaryState]
    /\ charges \in Nat /\ alone \in BOOLEAN /\ faults \in Nat
    /\ duringTitle \in 0..charges /\ severed \subseteq DOMAIN messages

\* A model refuses a history in which a call is not followed by its results,
\* or results do not follow their call.
Paired(h, excused) ==
    \A i \in DOMAIN h :
        /\ messages[h[i]].calls =>
              \/ h[i] \in excused
              \/ i < Len(h) /\ messages[h[i + 1]].answers = h[i]
        /\ messages[h[i]].role = "tool" => i > 1 /\ messages[h[i]].answers = h[i - 1]

\* The prompt of a run and what the run has added to the history since.
OwnPart(r) ==
    SubSeq(run[r].history, Len(run[r].history) - 2 * (run[r].responses - 1), Len(run[r].history))

\* Every request to the model is a history it accepts: always in the part the
\* run has added itself, whoever else writes the session; and, as long as the
\* session was never asked for two things at once, in all of it, after any
\* cancellations, errors, summaries and ends of the process, except for the
\* calls of a message whose stream or whose run was cut short
\* (agent.go:242-336, 347-463).
RequestsArePaired ==
    \A r \in Runs : run[r].at \in {"create", "stream"} =>
        /\ Paired(OwnPart(r), {})
        /\ alone => Paired(run[r].history, severed)

\* The row names a summary that was stored, also when the process died or was
\* cancelled half-way; and, as long as the session was never asked for two
\* things at once, each message is shown to the model or is one that a summary
\* shown to it was made from (agent.go:264-276, 600-723).
NothingIsForgotten ==
    /\ row.summaryMessage # 0 =>
          \E k \in Summaries : /\ summary[k].message = row.summaryMessage
                               /\ summary[k].saw < row.summaryMessage
                               /\ messages[row.summaryMessage].role = "summary"
    /\ \A r \in Runs : alone /\ run[r].at = "create" =>
          LET shown == {run[r].history[i] : i \in DOMAIN run[r].history}
          IN  \A m \in DOMAIN messages :
                 \/ m \in shown
                 \/ \E k \in Summaries : summary[k].message \in shown /\ m <= summary[k].saw

\* As long as the session was never asked for two things at once, the cost of
\* every response, delegation and summary stays in the row, except for one
\* saved while the title generator had the row in its hands
\* (agent.go:163-198, 534-554, agent-tool.go:81-95).
CostIsComplete == alone => charges <= row.cost + duringTitle

=============================================================================
