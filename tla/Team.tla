-------------------------------- MODULE Team --------------------------------
(***************************************************************************)
(* A team: its files (package team), the workers that its agents spawn     *)
(* (orchestration/manager.go) and the tools by which agents reach both     *)
(* (llm/tools/team.go).                                                    *)
(*                                                                         *)
(* An agent is the session of the user, or the session of a worker; each   *)
(* runs its tool calls one after the other.  A call reads a file and later *)
(* writes all of it, each under the store's mutex, which it does not hold  *)
(* in between.  The screen makes records of the workers' rows.             *)
(*                                                                         *)
(* Abstracted: one team, one inbox (a broadcast is a message to each       *)
(* recipient in turn); what a message, a task or a result says; the order  *)
(* of tasks in a column, assignments and constraints; team_context.json    *)
(* and office_state.json; delegates, which are workers without a row.      *)
(***************************************************************************)
EXTENDS Naturals, Sequences, FiniteSets

CONSTANTS
    Lead,        \* the session of the user
    Screen,      \* the terminal's overview of the team
    Workers,     \* the workers that may be spawned
    Names,       \* names of teammates
    NameOf,      \* NameOf[w]: the name that w is spawned under
    Rows,        \* Rows[w]: 2 if the bootstrap tool spawns w, which writes its row twice
    Kinds,       \* Kinds[a]: the kinds of calls that a makes
    Tasks,
    Columns,     \* columns of the task board
    Handoffs,    \* the handoffs that may be created
    MaxCalls     \* bound: calls other than a spawn, cancellations, refreshes of the
                 \* screen, and faults, which count twice

Agents == {Lead} \cup Workers
Callers == Agents \cup {Screen}

ASSUME TeamAssumption ==
    /\ Lead \notin Workers /\ Screen \notin Agents
    /\ NameOf \in [Workers -> Names] /\ Rows \in [Workers -> {1, 2}]
    /\ Kinds \in [Agents -> SUBSET {"send", "add", "move", "create", "accept", "board",
                                   "spawn", "wait"}]
    /\ MaxCalls \in Nat

VARIABLES
    files,       \* the team's directory
    torn,        \* files that no longer parse
    call,        \* call[a]: the call that a is in
    worker,      \* worker[w]: its status
    known,       \* the manager's map of workers
    done,        \* workers whose done channel is closed
    cancelled,   \* workers whose context is cancelled
    sends,       \* sends[a]: messages that a has sent
    calls,       \* what MaxCalls bounds
    expected,    \* history: the files, had no two calls overlapped
    disturbed,   \* history: files on which calls overlapped or a write failed
    added        \* history: added[t]: calls that added t to a column

manager == <<worker, known, done, cancelled>>
history == <<expected, disturbed, added>>
vars == <<files, torn, call, manager, sends, calls, history>>

Final == {"completed", "failed", "canceled"}
WorkerStatus == {"unborn", "queued", "running"} \cup Final
Message == [by : Agents, n : Nat]
TaskBoard == [made : BOOLEAN, columns : [Columns -> SUBSET Tasks]]
Handoff == [status : {"none", "pending", "accepted"}, by : SUBSET Agents]
Member == [session : SUBSET Workers, status : WorkerStatus]

Files == {"inbox", "board", "handoffs", "members", "records"}
Contents(f) ==
    CASE f = "inbox" -> Seq(Message)
      [] f = "board" -> TaskBoard
      [] f = "handoffs" -> [Handoffs -> Handoff]
      [] f = "members" -> [Names -> Member]
      [] f = "records" -> [Workers -> WorkerStatus]

\* What readJSON makes of a file that is missing or empty.
Blank ==
    [inbox |-> << >>,
     board |-> [made |-> FALSE, columns |-> [c \in Columns |-> {}]],
     handoffs |-> [h \in Handoffs |-> [status |-> "none", by |-> {}]],
     members |-> [n \in Names |-> [session |-> {}, status |-> "unborn"]],
     records |-> [w \in Workers |-> "unborn"]]

DefaultBoard == [Blank.board EXCEPT !.made = TRUE]

-----------------------------------------------------------------------------
(***************************************************************************)
(* What each call makes of the content that it has read.                   *)
(***************************************************************************)
Update ==
    [kind : {"send"}, by : Agents, n : Nat]
    \cup [kind : {"add", "move"}, task : Tasks, column : Columns]
    \cup [kind : {"create", "accept"}, handoff : Handoffs, by : Agents]
    \cup [kind : {"row"}, worker : Workers, status : WorkerStatus, waited : BOOLEAN]
    \cup [kind : {"board"}]

FileOf(u) ==
    CASE u.kind = "send" -> "inbox"
      [] u.kind \in {"add", "move", "board"} -> "board"
      [] u.kind \in {"create", "accept"} -> "handoffs"
      [] u.kind = "row" -> "members"

\* Mutant: the new message is put first.
SendFirst(inbox, u) == <<[by |-> u.by, n |-> u.n]>> \o inbox

SendMessage(inbox, u) == Append(inbox, [by |-> u.by, n |-> u.n])

AddTaskToColumn(columns, t, column) == [columns EXCEPT ![column] = @ \cup {t}]

\* Mutant: the task stays where it was.
MoveCopies(columns, t, column) == [columns EXCEPT ![column] = @ \cup {t}]

MoveTask(columns, t, column) ==
    [c \in Columns |-> IF c = column THEN columns[c] \cup {t} ELSE columns[c] \ {t}]

\* Mutant: the session of the row is kept.
UpsertKeeps(rows, u) ==
    [rows EXCEPT ![NameOf[u.worker]] =
       [session |-> IF @.session = {} THEN {u.worker} ELSE @.session, status |-> u.status]]

\* The row of the name is replaced: of what is kept here no call leaves a
\* field empty, which would keep the field of the row.
Upsert(rows, u) ==
    [rows EXCEPT ![NameOf[u.worker]] = [session |-> {u.worker}, status |-> u.status]]

Apply(u, data) ==
    CASE u.kind = "send" -> SendMessage(data, u)
      [] u.kind = "add" -> [data EXCEPT !.columns = AddTaskToColumn(@, u.task, u.column)]
      [] u.kind = "move" -> [data EXCEPT !.columns = MoveTask(@, u.task, u.column)]
      [] u.kind = "board" -> data
      [] u.kind = "create" -> [data EXCEPT ![u.handoff] = [status |-> "pending", by |-> {u.by}]]
      [] u.kind = "accept" -> [data EXCEPT ![u.handoff] = [status |-> "accepted", by |-> {u.by}]]
      [] u.kind = "row" -> Upsert(data, u)

\* Mutant: a board is made whether there is one or not.
AlwaysDefault(u, data) == FileOf(u) = "board"

\* CreateBoard, which every call on the board makes first.
NeedsDefault(u, data) == FileOf(u) = "board" /\ ~data.made

Idle == [phase |-> "idle", update |-> {}, seen |-> {}, worker |-> {}, left |-> 0]

Call ==
    [phase : {"idle", "default", "write", "spawned", "row", "wait", "show"},
     update : SUBSET Update,
     worker : SUBSET Workers,
     left : Nat]                 \* rows still to be written

Init ==
    /\ files = Blank
    /\ torn = {}
    /\ call = [a \in Callers |-> Idle]
    /\ worker = [w \in Workers |-> "unborn"]
    /\ known = {}
    /\ done = {}
    /\ cancelled = {}
    /\ sends = [a \in Agents |-> 0]
    /\ calls = 0
    /\ expected = Blank
    /\ disturbed = {}
    /\ added = [t \in Tasks |-> 0]

\* A worker's session runs while its run has not ended.
Acts(a) ==
    /\ call[a] = Idle
    /\ a # Lead => a \in known /\ worker[a] = "running"

NewCall ==
    /\ calls < MaxCalls
    /\ calls' = calls + 1

Fault ==
    /\ calls + 2 <= MaxCalls
    /\ calls' = calls + 2

-----------------------------------------------------------------------------
(***************************************************************************)
(* A call that reads, changes and writes one file.                         *)
(***************************************************************************)
\* A file that does not parse is an error, which changes nothing.
Phase(u, data) == IF NeedsDefault(u, data) THEN "default" ELSE "write"

Reads(a, u, left) ==
    /\ FileOf(u) \notin torn
    /\ call' = [call EXCEPT ![a] =
                  [phase |-> Phase(u, files[FileOf(u)]), update |-> {u},
                   seen |-> {files[FileOf(u)]}, worker |-> {}, left |-> left]]

\* Accept of a handoff that is not in the file finds nothing to write.
Offered(a) ==
    {u \in {[kind |-> "send", by |-> a, n |-> sends[a] + 1]}
           \cup [kind : {"add", "move"}, task : Tasks, column : Columns]
           \cup [kind : {"create"}, by : {a},
                 handoff : {h \in Handoffs : expected["handoffs"][h].status = "none"}]
           \cup [kind : {"accept"}, by : {a},
                 handoff : {h \in Handoffs : files["handoffs"][h].status # "none"}]
           \cup [kind : {"board"}] :
        /\ u.kind \in Kinds[a]
        /\ u.kind = "board" => ~files["board"].made}

Begin(a) ==
    /\ Acts(a)
    /\ NewCall
    /\ \E u \in Offered(a) :
        /\ Reads(a, u, 0)
        /\ sends' = [sends EXCEPT ![a] = @ + IF u.kind = "send" THEN 1 ELSE 0]
        /\ added' = [t \in Tasks |-> added[t] + IF u.kind = "add" /\ u.task = t THEN 1 ELSE 0]
    /\ UNCHANGED <<files, torn, manager, expected, disturbed>>

\* What is kept of the overlap: a file changed since it was read.
Overwrites(f, seen) ==
    disturbed' = disturbed \cup (IF files[f] = seen THEN {} ELSE {f})

WriteDefault(a) ==
    /\ call[a].phase = "default"
    /\ files' = [files EXCEPT !["board"] = DefaultBoard]
    /\ expected' = [expected EXCEPT !["board"].made = TRUE]
    /\ torn' = torn \ {"board"}
    /\ \E seen \in call[a].seen : Overwrites("board", seen)
    /\ \E u \in call[a].update :
        call' = [call EXCEPT ![a] =
                   CASE a = Screen -> [Idle EXCEPT !.phase = "show"]
                     [] a # Screen /\ u.kind = "board" -> Idle
                     [] OTHER -> [@ EXCEPT !.phase = "write", !.seen = {DefaultBoard}]]
    /\ UNCHANGED <<manager, sends, calls, added>>

\* Mutant: there is always another row to write.
WritesOn(a) == [call[a] EXCEPT !.phase = "row", !.seen = {}, !.left = @ - 1]

\* A spawn by the bootstrap tool writes the row a second time.
AfterWrite(a) ==
    IF call[a].left = 0 THEN Idle
    ELSE [call[a] EXCEPT !.phase = "row", !.seen = {}, !.left = @ - 1]

Write(a) ==
    /\ call[a].phase = "write"
    /\ \E u \in call[a].update, seen \in call[a].seen :
        /\ files' = [files EXCEPT ![FileOf(u)] = Apply(u, seen)]
        /\ expected' = [expected EXCEPT ![FileOf(u)] = Apply(u, @)]
        /\ torn' = torn \ {FileOf(u)}
        /\ Overwrites(FileOf(u), seen)
    /\ call' = [call EXCEPT ![a] = AfterWrite(a)]
    /\ UNCHANGED <<manager, sends, calls, added>>

\* os.WriteFile truncates first: what is left is nothing, or a part.
Truncated(f) ==
    /\ files' = [files EXCEPT ![f] = Blank[f]]
    /\ torn' \in {torn \cup {f}, torn \ {f}}
    /\ disturbed' = disturbed \cup {f}

WriteFails(a) ==
    /\ call[a].phase \in {"default", "write"}
    /\ Fault
    /\ \E u \in call[a].update : Truncated(FileOf(u))
    /\ call' = [call EXCEPT ![a] = AfterWrite(a)]
    /\ UNCHANGED <<manager, sends, expected, added>>

-----------------------------------------------------------------------------
(***************************************************************************)
(* Spawning a teammate and waiting for one.                                *)
(***************************************************************************)
\* manager.Spawn: the worker is in the map and its goroutine is started.
Spawn(a, w) ==
    /\ Acts(a) /\ "spawn" \in Kinds[a]
    /\ worker[w] = "unborn"
    /\ worker' = [worker EXCEPT ![w] = "queued"]
    /\ known' = known \cup {w}
    /\ call' = [call EXCEPT ![a] = [Idle EXCEPT !.phase = "spawned", !.worker = {w},
                                                !.left = Rows[w] - 1]]
    /\ UNCHANGED <<files, torn, done, cancelled, sends, calls, history>>

Row(w, status, waited) ==
    [kind |-> "row", worker |-> w, status |-> status, waited |-> waited]

\* Spawn copies the worker after its goroutine is started, without the lock.  A
\* status that the goroutine is just writing might be copied in part: it would
\* be none of the statuses, and is left out.
SpawnReturns(a) ==
    /\ call[a].phase = "spawned"
    /\ \E w \in call[a].worker :
        call' = [call EXCEPT ![a].phase = "row", ![a].update = {Row(w, worker[w], FALSE)},
                             ![a].worker = {}]
    /\ UNCHANGED <<files, torn, manager, sends, calls, history>>

\* The tools ignore the errors of Members.Upsert.
ReadMembers(a) ==
    /\ call[a].phase = "row"
    /\ \E u \in call[a].update :
        \/ Reads(a, u, call[a].left)
        \/ "members" \in torn /\ call' = [call EXCEPT ![a] = AfterWrite(a)]
    /\ UNCHANGED <<files, torn, manager, sends, calls, history>>

Wait(a, w) ==
    /\ Acts(a) /\ "wait" \in Kinds[a]
    /\ NewCall
    /\ w \in known
    /\ call' = [call EXCEPT ![a] = [Idle EXCEPT !.phase = "wait", !.worker = {w}]]
    /\ UNCHANGED <<files, torn, manager, sends, history>>

WaitReturns(a) ==
    /\ call[a].phase = "wait"
    /\ \E w \in call[a].worker :
        /\ w \in done
        /\ call' = [call EXCEPT ![a].phase = "row", ![a].update = {Row(w, worker[w], TRUE)},
                                ![a].worker = {}]
    /\ UNCHANGED <<files, torn, manager, sends, calls, history>>

\* The context of the waiting agent is done.
WaitCancelled(a) ==
    /\ call[a].phase = "wait"
    /\ a \in cancelled
    /\ call' = [call EXCEPT ![a] = Idle]
    /\ UNCHANGED <<files, torn, manager, sends, calls, history>>

\* The user cancels the run of the session, which may wait.
Interrupt ==
    /\ call[Lead].phase = "wait"
    /\ call' = [call EXCEPT ![Lead] = Idle]
    /\ UNCHANGED <<files, torn, manager, sends, calls, history>>

-----------------------------------------------------------------------------
(***************************************************************************)
(* The manager: the goroutine of a worker, and Cancel.                     *)
(***************************************************************************)
Ends(w, status) == worker' = [worker EXCEPT ![w] = status]

RunWorker(w) ==
    /\ w \in known
    /\ worker[w] = "queued"
    /\ Ends(w, "running")
    /\ UNCHANGED <<files, torn, call, known, done, cancelled, sends, calls, history>>

\* Mutant: the channel is not closed when the run fails.
FinishQuietly(w) ==
    /\ w \in known
    /\ worker[w] = "running"
    /\ call[w] = Idle
    /\ \/ Ends(w, "completed") /\ done' = done \cup {w}
       \/ Ends(w, "failed") /\ UNCHANGED done
    /\ UNCHANGED <<files, torn, call, known, cancelled, sends, calls, history>>

\* The run of the session has ended, or could not begin.  Nothing tells the
\* status that finish sets from the channel that it closes after that.
Finish(w) ==
    /\ w \in known
    /\ worker[w] = "running"
    /\ call[w] = Idle
    /\ \/ Ends(w, "completed")
       \/ Ends(w, "failed")
       \/ w \in cancelled /\ Ends(w, "canceled")
    /\ done' = done \cup {w}
    /\ UNCHANGED <<files, torn, call, known, cancelled, sends, calls, history>>

Cancel(w) ==
    /\ w \in known \ (cancelled \cup done)
    /\ NewCall
    /\ cancelled' = cancelled \cup {w}
    /\ UNCHANGED <<files, torn, call, worker, known, done, sends, history>>

-----------------------------------------------------------------------------
(***************************************************************************)
(* The screen: Snapshot makes sure of a board and materializes the records *)
(* of the rows.  It reads the files in turn; of rows that change meanwhile *)
(* it writes some state or other, here the last.                           *)
(***************************************************************************)
Snapshot ==
    /\ call[Screen] = Idle
    /\ NewCall
    /\ "board" \notin torn
    /\ call' = [call EXCEPT ![Screen] =
                  IF files["board"].made THEN [Idle EXCEPT !.phase = "show"]
                  ELSE [Idle EXCEPT !.phase = "default", !.update = {[kind |-> "board"]},
                                    !.seen = {files["board"]}]]
    /\ UNCHANGED <<files, torn, manager, sends, history>>

\* A row gives the record of its session; a record that no row names stays.
Project(records, rows) ==
    [w \in Workers |->
        IF \E n \in Names : rows[n].session = {w}
        THEN rows[CHOOSE n \in Names : rows[n].session = {w}].status
        ELSE records[w]]

Materialize ==
    /\ call[Screen].phase = "show"
    /\ call' = [call EXCEPT ![Screen] = Idle]
    /\ \/ /\ torn \cap {"records", "members", "handoffs"} = {}
          /\ files' = [files EXCEPT !["records"] = Project(@, files["members"])]
          /\ UNCHANGED <<torn, disturbed, calls>>
       \/ /\ torn \cap {"records", "members", "handoffs"} = {}
          /\ Fault
          /\ Truncated("records")
       \/ /\ torn \cap {"records", "members", "handoffs"} # {}
          /\ UNCHANGED <<files, torn, disturbed, calls>>
    /\ UNCHANGED <<manager, sends, expected, added>>

\* The process dies, in the middle of a write if there is one, and is started
\* again; its workers are gone.
Crash ==
    /\ Fault
    /\ call' = [a \in Callers |-> Idle]
    /\ known' = {}
    /\ done' = {}
    /\ cancelled' = {}
    /\ \/ UNCHANGED <<files, torn, disturbed>>
       \/ \E a \in Callers :
            \/ /\ call[a].phase = "write"
               /\ \E u \in call[a].update : Truncated(FileOf(u))
            \/ call[a].phase = "default" /\ Truncated("board")
            \/ call[a].phase = "show" /\ Truncated("records")
    /\ UNCHANGED <<worker, sends, expected, added>>

-----------------------------------------------------------------------------
CallStep(a) ==
    \/ WriteDefault(a)
    \/ Write(a)
    \/ SpawnReturns(a)
    \/ ReadMembers(a)
    \/ WaitReturns(a)
    \/ WaitCancelled(a)

WorkerStep(w) == RunWorker(w) \/ Finish(w)

Next ==
    \/ \E a \in Agents :
        \/ Begin(a)
        \/ \E w \in Workers : Spawn(a, w) \/ Wait(a, w)
    \/ \E a \in Callers : CallStep(a) \/ WriteFails(a)
    \/ \E w \in Workers : WorkerStep(w) \/ Cancel(w)
    \/ Interrupt
    \/ Snapshot
    \/ Materialize
    \/ Crash

Spec == Init /\ [][Next]_vars

\* A call that is begun goes on, and the run of a worker comes to its end: the
\* model that it talks to stops asking for tools at some point.
FairSpec ==
    /\ Spec
    /\ \A a \in Agents : WF_vars(CallStep(a))
    /\ \A w \in Workers : WF_vars(WorkerStep(w))

-----------------------------------------------------------------------------
(***************************************************************************)
(* Properties.                                                             *)
(***************************************************************************)
TypeOK ==
    /\ DOMAIN files = Files
    /\ \A f \in Files : files[f] \in Contents(f) /\ expected[f] \in Contents(f)
    /\ torn \subseteq Files /\ disturbed \subseteq Files
    /\ DOMAIN call = Callers
    /\ \A a \in Callers :
        /\ [k \in {"phase", "update", "worker", "left"} |-> call[a][k]] \in Call
        /\ \A u \in call[a].update : call[a].seen \subseteq Contents(FileOf(u))
    /\ worker \in [Workers -> WorkerStatus]
    /\ known \subseteq Workers /\ done \subseteq known /\ cancelled \subseteq known
    /\ sends \in [Agents -> Nat]
    /\ calls \in 0..MaxCalls
    /\ added \in [Tasks -> Nat]

\* Calls that do not overlap on a file, and writes that succeed, lose nothing:
\* the file holds what every acknowledged call has asked for, in their order.
AcknowledgedIsKept ==
    \A f \in Files \ (disturbed \cup {"records"}) : files[f] = expected[f]

\* Messages of one sender are in the inbox in the order in which they were
\* sent, and none twice, however calls overlap.
InboxInOrder ==
    LET inbox == files["inbox"] IN
    \A i, j \in DOMAIN inbox :
        (i < j /\ inbox[i].by = inbox[j].by) => inbox[i].n < inbox[j].n

\* A task stands in one column, and in one more for every add: moves that
\* overlap may undo each other, but they do not multiply a task, also when the
\* column that the caller names as its place is no longer the right one.
OneColumn ==
    \A t \in Tasks :
        Cardinality({c \in Columns : t \in files["board"].columns[c]}) <= 1 + added[t]

\* A row, or a record, that says how a worker ended is right about it, even if
\* the row was written late, from a stale file, or for another worker of the
\* same name; and what a wait reports is how the worker ended.
EndsAreTrue ==
    /\ \A n \in Names : \A w \in files["members"][n].session :
        files["members"][n].status \in Final => files["members"][n].status = worker[w]
    /\ \A w \in Workers :
        files["records"][w] \in Final => files["records"][w] = worker[w]
    /\ \A a \in Callers : \A u \in call[a].update :
        (u.kind = "row" /\ u.waited) => u.status \in Final /\ u.status = worker[u.worker]

\* Agents that wait for each other, in a circle or for one that does.
Stuck(a) ==
    \E S \in SUBSET Agents :
        /\ a \in S
        /\ \A b \in S : call[b].phase = "wait" /\ call[b].worker \subseteq S

\* A wait of the user's session ends, whoever its worker waits for in turn and
\* however their runs end, unless workers wait for each other in a circle: only
\* that stops them, for ever, as no wait has a timeout.
WaitEnds == call[Lead].phase = "wait" ~> (call[Lead].phase # "wait" \/ Stuck(Lead))
=============================================================================
