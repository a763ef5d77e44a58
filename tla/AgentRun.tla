------------------------------ MODULE AgentRun ------------------------------
(***************************************************************************)
(* Session runs of the coding agent (internal/llm/agent/agent.go), the     *)
(* permission service (internal/permission/permission.go) and the terminal *)
(* user interface as far as it drives them (internal/tui: the chat page    *)
(* and the one permission dialog).                                         *)
(*                                                                         *)
(* Each Run is a goroutine.  The user interface is one thread: it starts   *)
(* and cancels runs and answers permission requests, for all sessions, and *)
(* the user may leave a session whose run is under way for another one.    *)
(*                                                                         *)
(* Abstracted: messages and their contents, token usage, titles.  A tool   *)
(* stands for the tool, action and path a grant is given for.  A key is    *)
(* not pressed again while its answer is on its way.  Left out: Summarize, *)
(* Update, sessions approved in advance, panics, and runs of worker agents,*)
(* which have an agent of their own.                                       *)
(***************************************************************************)
EXTENDS Naturals, Sequences, FiniteSets

CONSTANTS
    Sessions,
    Guarded,        \* tools that ask for permission
    Free,           \* tools that do not
    MaxCalls,       \* bound: tool calls in one response of the model
    MaxRuns,        \* bound: runs ever started
    MaxAsks         \* bound: calls of guarded tools in one run

ASSUME AgentAssumption ==
    /\ Guarded \cap Free = {}
    /\ MaxCalls \in Nat
    /\ MaxRuns \in Nat
    /\ MaxAsks \in Nat

VARIABLES
    runs,                \* the runs ever started, in order
    activeRequests,      \* activeRequests[s]: whose cancel is stored, 0 for none
    prompts,             \* permission requests on their way to the dialog
    permission,          \* the request the dialog holds
    showPermissions,     \* whether the dialog is shown
    pressed,             \* the answer on its way from the dialog
    sessionPermissions,  \* grants for a session
    persisting,          \* GrantPersistant has answered and not yet appended
    decisions,           \* history: what the user answered to what he saw
    effects              \* history: the guarded calls that took effect

vars == <<runs, activeRequests, prompts, permission, showPermissions, pressed,
          sessionPermissions, persisting, decisions, effects>>

Tools == Guarded \cup Free

\* A guarded call: PermissionRequest with its fresh ID.
Request == [run : Nat, number : Nat, tool : Guarded]
NoRequest == [run |-> 0, number |-> 0, tool |-> {}]

Choices == {"allow", "session", "deny"}

Phases == {"iterate", "stream", "calls", "tool", "ask", "results", "finish", "over"}

RunState ==
    [session : Sessions, phase : Phases, cancelled : BOOLEAN,
     todo : Seq(Tools),     \* tool calls of the response not yet finished
     asked : Nat,           \* guarded calls begun
     answer : {"none", "allow", "deny"},  \* the buffer of respCh
     again : BOOLEAN]       \* the finish reason is still tool_use

Init ==
    /\ runs = << >>
    /\ activeRequests = [s \in Sessions |-> 0]
    /\ prompts = << >>
    /\ permission = NoRequest
    /\ showPermissions = FALSE
    /\ pressed = {}
    /\ sessionPermissions = {}
    /\ persisting = {}
    /\ decisions = {}
    /\ effects = {}

permissionVars == <<prompts, permission, showPermissions, pressed,
                    sessionPermissions, persisting, decisions>>

\* The user interface is inside GrantPersistant.
TuiFree == persisting = {}

\* Mutant of Done: Run hands the context of its caller to processGeneration.
NeverDone(r) == FALSE

\* ctx.Done of the run's context.
Done(r) == runs[r].cancelled

At(r, phase) == r \in DOMAIN runs /\ runs[r].phase = phase

Goto(r, phase) == runs' = [runs EXCEPT ![r].phase = phase]

\* The goroutine is over and its locals are gone.
Return(r) ==
    runs' = [runs EXCEPT ![r].phase = "over", ![r].todo = << >>, ![r].again = FALSE]

SessionOf(r) == runs[r].session

-----------------------------------------------------------------------------
(* The chat page *)

\* Run: a session whose cancel function is stored is busy.
Run(s) ==
    /\ TuiFree
    /\ activeRequests[s] = 0
    /\ Len(runs) < MaxRuns
    /\ runs' = Append(runs, [session |-> s, phase |-> "iterate", cancelled |-> FALSE,
                             todo |-> << >>, asked |-> 0, answer |-> "none", again |-> FALSE])
    /\ activeRequests' = [activeRequests EXCEPT ![s] = Len(runs) + 1]
    /\ UNCHANGED <<permissionVars, effects>>

\* Cancel: escape, which the dialog keeps from the page while it is shown.
Cancel(s) ==
    /\ TuiFree
    /\ ~showPermissions
    /\ activeRequests[s] # 0
    /\ runs' = [runs EXCEPT ![activeRequests[s]].cancelled = TRUE]
    /\ activeRequests' = [activeRequests EXCEPT ![s] = 0]
    /\ UNCHANGED <<permissionVars, effects>>

-----------------------------------------------------------------------------
(* The goroutine of a run *)

\* processGeneration: the check before each request to the model.
Iterate(r) ==
    /\ At(r, "iterate")
    /\ Goto(r, IF Done(r) THEN "finish" ELSE "stream")
    /\ UNCHANGED <<activeRequests, permissionVars, effects>>

\* An error of the provider or the database, or the context is done.
StreamFails(r) ==
    /\ At(r, "stream")
    /\ Goto(r, "finish")
    /\ UNCHANGED <<activeRequests, permissionVars, effects>>

GuardedIn(calls) == Cardinality({k \in DOMAIN calls : calls[k] \in Guarded})

\* The response is complete; a response without tool calls ends the run.
StreamCompletes(r, calls) ==
    /\ At(r, "stream")
    /\ ~Done(r)
    /\ runs[r].asked + GuardedIn(calls) <= MaxAsks
    /\ runs' = [runs EXCEPT ![r].phase = IF calls = << >> THEN "finish" ELSE "calls",
                            ![r].todo = calls, ![r].again = TRUE]
    /\ UNCHANGED <<activeRequests, permissionVars, effects>>

\* The loop over the tool calls: a done context marks the rest as cancelled.
NextCall(r) ==
    /\ At(r, "calls")
    /\ runs' = [runs EXCEPT
                  ![r].phase = IF Done(r) \/ runs[r].todo = << >> THEN "results" ELSE "tool",
                  ![r].todo = IF Done(r) THEN << >> ELSE @,
                  ![r].again = @ /\ ~(Done(r) /\ runs[r].todo # << >>)]
    /\ UNCHANGED <<activeRequests, permissionVars, effects>>

\* tool.Run of a tool that asks for nothing, or of a guarded one that finds
\* its parameters wrong before it asks.
ReturnUnasked(r) ==
    /\ At(r, "tool")
    /\ runs' = [runs EXCEPT ![r].phase = "calls", ![r].todo = Tail(@)]
    /\ UNCHANGED <<activeRequests, permissionVars, effects>>

\* The request the guarded call of run r makes, with n calls before it.
RequestOf(r, n) == [run |-> r, number |-> n + 1, tool |-> Head(runs[r].todo)]

\* Mutant of Persisted: Request compares the tool and not the session.
PersistedForTool(r) ==
    \E g \in sessionPermissions : g.tool = Head(runs[r].todo)

\* Request finds a grant for this session.
Persisted(r) ==
    [session |-> SessionOf(r), tool |-> Head(runs[r].todo)] \in sessionPermissions

PersistedTool(r) ==
    /\ At(r, "tool")
    /\ Head(runs[r].todo) \in Guarded
    /\ Persisted(r)
    /\ effects' = effects \cup {RequestOf(r, runs[r].asked)}
    /\ runs' = [runs EXCEPT ![r].phase = "calls", ![r].todo = Tail(@), ![r].asked = @ + 1]
    /\ UNCHANGED <<activeRequests, permissionVars>>

\* Request publishes the request to the dialog and waits, without a timeout
\* and whatever becomes of the run.
Ask(r) ==
    /\ At(r, "tool")
    /\ Head(runs[r].todo) \in Guarded
    /\ ~Persisted(r)
    /\ prompts' = Append(prompts, RequestOf(r, runs[r].asked))
    /\ runs' = [runs EXCEPT ![r].phase = "ask", ![r].asked = @ + 1]
    /\ UNCHANGED <<activeRequests, permission, showPermissions, pressed,
                   sessionPermissions, persisting, decisions, effects>>

\* The request of a run that waits: pendingRequests.
Pending(r) == RequestOf(r, runs[r].asked - 1)

Allowed(r) ==
    /\ At(r, "ask")
    /\ runs[r].answer = "allow"
    /\ effects' = effects \cup {Pending(r)}
    /\ runs' = [runs EXCEPT ![r].phase = "calls", ![r].todo = Tail(@), ![r].answer = "none"]
    /\ UNCHANGED <<activeRequests, permissionVars>>

\* ErrorPermissionDenied: the break leaves the select and not the loop, so
\* the calls that follow are made all the same; the run ends after them.  An
\* MCP tool returns a denial as an ordinary result.
Denied(r) ==
    /\ At(r, "ask")
    /\ runs[r].answer = "deny"
    /\ \E again \in {FALSE, runs[r].again} :
        runs' = [runs EXCEPT ![r].phase = "calls", ![r].todo = Tail(@),
                             ![r].answer = "none", ![r].again = again]
    /\ UNCHANGED <<activeRequests, permissionVars, effects>>

\* The tool message is stored; tool results go back to the model unless a
\* denial or a cancellation has replaced the finish reason.
StoreResults(r) ==
    /\ At(r, "results")
    /\ \/ Goto(r, IF runs[r].again THEN "iterate" ELSE "finish")
       \/ Goto(r, "finish")                        \* Create fails
    /\ UNCHANGED <<activeRequests, permissionVars, effects>>

\* Mutant of Finish: the entry is left to Cancel.
FinishBusy(r) ==
    /\ At(r, "finish")
    /\ Return(r)
    /\ UNCHANGED <<activeRequests, permissionVars, effects>>

\* The end of the goroutine deletes whatever the session has stored.
Finish(r) ==
    /\ At(r, "finish")
    /\ Return(r)
    /\ activeRequests' = [activeRequests EXCEPT ![SessionOf(r)] = 0]
    /\ UNCHANGED <<permissionVars, effects>>

-----------------------------------------------------------------------------
(* The permission dialog *)

\* A request reaches the dialog, in the place of the one it showed, ...
ShowPrompt ==
    /\ TuiFree
    /\ prompts # << >>
    /\ permission' = Head(prompts)
    /\ showPermissions' = TRUE
    /\ prompts' = Tail(prompts)
    /\ UNCHANGED <<runs, activeRequests, pressed, sessionPermissions, persisting,
                   decisions, effects>>

\* ... or is dropped by a full buffer or a slow consumer.
DropPrompt ==
    /\ prompts # << >>
    /\ prompts' = Tail(prompts)
    /\ UNCHANGED <<runs, activeRequests, permission, showPermissions, pressed,
                   sessionPermissions, persisting, decisions, effects>>

\* The user presses a key: the answer is a message of its own.
Press(choice) ==
    /\ TuiFree
    /\ showPermissions
    /\ pressed = {}
    /\ pressed' = {[request |-> permission, choice |-> choice]}
    /\ decisions' = decisions \cup pressed'
    /\ UNCHANGED <<runs, activeRequests, prompts, permission, showPermissions,
                   sessionPermissions, persisting, effects>>

\* Mutant of AnswerOf: GrantPersistant sends something else than Grant.
RawAnswer(choice) == choice

\* What is sent to the waiting Request.
AnswerOf(choice) == IF choice = "deny" THEN "deny" ELSE "allow"

\* Grant, GrantPersistant or Deny; the dialog is hidden, whatever it shows now.
Respond ==
    /\ TuiFree
    /\ \E a \in pressed :
        LET r == a.request.run
        IN /\ runs' = IF At(r, "ask") /\ Pending(r) = a.request
                      THEN [runs EXCEPT ![r].answer = AnswerOf(a.choice)]
                      ELSE runs
           /\ persisting' = IF a.choice = "session"
                            THEN {[session |-> SessionOf(r), tool |-> a.request.tool]}
                            ELSE {}
    /\ pressed' = {}
    /\ showPermissions' = FALSE
    /\ UNCHANGED <<activeRequests, prompts, permission, sessionPermissions,
                   decisions, effects>>

\* GrantPersistant appends after it has answered.
Persist ==
    /\ persisting # {}
    /\ sessionPermissions' = sessionPermissions \cup persisting
    /\ persisting' = {}
    /\ UNCHANGED <<runs, activeRequests, prompts, permission, showPermissions,
                   pressed, decisions, effects>>

-----------------------------------------------------------------------------
Responses == UNION {[1..n -> Tools] : n \in 0..MaxCalls}

Step(r) ==
    \/ Iterate(r)
    \/ StreamFails(r)
    \/ \E calls \in Responses : StreamCompletes(r, calls)
    \/ NextCall(r)
    \/ ReturnUnasked(r)
    \/ PersistedTool(r)
    \/ Ask(r)
    \/ Allowed(r)
    \/ Denied(r)
    \/ StoreResults(r)
    \/ Finish(r)

Next ==
    \/ \E s \in Sessions : Run(s) \/ Cancel(s)
    \/ \E r \in DOMAIN runs : Step(r)
    \/ ShowPrompt
    \/ DropPrompt
    \/ \E choice \in Choices : Press(choice)
    \/ Respond
    \/ Persist

Spec == Init /\ [][Next]_vars

\* A run goes on while it can: the model answers or fails, tools return.  The
\* user owes nobody a key.
FairSpec == Spec /\ \A r \in 1..MaxRuns : WF_vars(Step(r))

-----------------------------------------------------------------------------
(* Properties *)

TypeOK ==
    /\ runs \in Seq(RunState)
    /\ activeRequests \in [Sessions -> 0..Len(runs)]
    /\ prompts \in Seq(Request)
    /\ permission \in Request \cup {NoRequest}
    /\ showPermissions \in BOOLEAN
    /\ pressed \subseteq [request : Request, choice : Choices]
    /\ sessionPermissions \subseteq [session : Sessions, tool : Guarded]
    /\ persisting \subseteq [session : Sessions, tool : Guarded]
    /\ decisions \subseteq [request : Request, choice : Choices]
    /\ effects \subseteq Request

\* A guarded tool takes effect only when the user allowed this very request,
\* or allowed the tool for the session of the run: not by an answer meant for
\* another run whose prompt the dialog has replaced, nor by a grant given in
\* another session.
Permits(d, e) ==
    \/ d.request = e /\ d.choice # "deny"
    \/ /\ d.choice = "session"
       /\ d.request.tool = e.tool
       /\ SessionOf(d.request.run) = SessionOf(e.run)

EffectsArePermitted == \A e \in effects : \E d \in decisions : Permits(d, e)

\* A session is never busy with a run that is over, or with a run of another
\* session or one that was cancelled: the user can always send a prompt again.
BusyIsAlive ==
    \A s \in Sessions : activeRequests[s] # 0 =>
        LET r == activeRequests[s]
        IN runs[r].phase # "over" /\ ~runs[r].cancelled /\ SessionOf(r) = s

\* A cancelled run ends, however often the model would go on calling tools,
\* unless it waits for a permission.
CancelledEnds ==
    \A r \in 1..MaxRuns :
        (r \in DOMAIN runs /\ runs[r].cancelled) ~> (At(r, "over") \/ At(r, "ask"))

\* "Cancel the current session's generation process / This allows users to
\* interrupt long-running operations" (chat.go:231): the cancel function of a
\* run under way is stored until the run is cancelled, so that Cancel of its
\* session reaches it.
CancelReachesRun ==
    \A r \in DOMAIN runs :
        runs[r].phase # "over" => (runs[r].cancelled \/ activeRequests[SessionOf(r)] = r)
=============================================================================
