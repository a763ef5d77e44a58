------------------------------- MODULE Office -------------------------------
(***************************************************************************)
(* The office: Service (internal/agency/service.go), the Scheduler it owns *)
(* (scheduler.go) and the organization's context as the ledger replays it  *)
(* (LatestSnapshot and AppendSchedule, AppendSnapshot, AppendVoiceEvent in *)
(* ledger.go), over several processes on one ledger directory.             *)
(*                                                                         *)
(* No lock spans a call of the Service: it reads the ledger, or the maps   *)
(* of its own process, and appends what it read as a snapshot that         *)
(* replaces the organization's lists.  Each step below is one section      *)
(* under the ledger's, the runtime's or the scheduler's lock.              *)
(*                                                                         *)
(* Abstracted: the ledger's lines (Ledger has them) to the fold of their   *)
(* snapshots; an expression to what parseSchedule and NewTicker make of    *)
(* it; lists to functions and sets, so that schedules are restored in any  *)
(* order.  Left out: what a firing does and the snapshots that daemons of  *)
(* actors append (Wake), processes of actors and spec files that fail      *)
(* (Runtime), and calls before the organization is named, which write      *)
(* under another, empty organization.                                      *)
(***************************************************************************)
EXTENDS Naturals, FiniteSets, Sequences

CONSTANTS
    Procs,        \* processes that hold a Service on the ledger directory
    Callers,      \* threads that call into the services
    Ids,          \* schedule IDs
    Actors,       \* actor IDs
    MaxRevisions, \* bound: calls of RegisterSchedule
    MaxFaults     \* bound: appends that fail and processes that are killed

ASSUME OfficeAssumption ==
    /\ MaxRevisions \in Nat
    /\ MaxFaults \in Nat

VARIABLES
    office,    \* the replayed context: actors and open schedules
    files,     \* actors whose spec is persisted under runtime/actors
    svc,       \* svc[p]: the Service of process p
    calls,     \* the calls under way
    issued,    \* revisions given out
    faults,    \* appends that failed and processes that were killed
    recorded,  \* history: revisions that were ever in the ledger
    wanted,    \* history: wanted[s]: the revision last taken in a calm office
    enrolled   \* history: actors registered without an error in a calm office

durable == <<office, files>>
promises == <<wanted, enrolled>>
vars == <<durable, svc, calls, issued, faults, recorded, promises>>

(***************************************************************************)
(* "good" is enabled with a positive interval; "zero" parses to an         *)
(* interval that time.NewTicker panics on ("@every 0s"); "bad" does not    *)
(* parse; "off" is not enabled, and its expression is not looked at.       *)
(***************************************************************************)
Kinds == {"good", "zero", "bad", "off"}

AgentSchedule == [id : Ids, number : Nat \ {0}, kind : Kinds]

Absent(s) == [id |-> s, number |-> 0, kind |-> "off"]
Blank == [s \in Ids |-> Absent(s)]

Schedules ==
    {open \in [Ids -> AgentSchedule \cup {Absent(s) : s \in Ids}] :
        \A s \in Ids : open[s].id = s}
ContextSnapshot == [actors : SUBSET Actors, open : Schedules]

Nothing == [actors |-> {}, open |-> Blank]

Service ==
    [phase : {"down", "up", "stopping"},
     named : BOOLEAN,                  \* orgID is set
     running : BOOLEAN,                \* RuntimeManager.running
     restored : BOOLEAN,               \* StartScheduler has returned no error
     actors : SUBSET Actors,           \* RuntimeManager.actors
     specs : SUBSET Actors,            \* RuntimeManager.specs
     own : Schedules,                  \* Scheduler.schedules
     jobs : [Ids -> Seq(AgentSchedule)],  \* goroutines not cancelled
     stragglers : SUBSET AgentSchedule]   \* cancelled, not yet returned

Down ==
    [phase |-> "down", named |-> FALSE, running |-> FALSE, restored |-> FALSE,
     actors |-> {}, specs |-> {}, own |-> Blank,
     jobs |-> [s \in Ids |-> << >>], stragglers |-> {}]

(***************************************************************************)
(* A call is about to "log" a schedule, to "register" it, to "restore" the *)
(* schedules it has left, to "look" at the maps of its process, or to      *)
(* "append" the snapshot it holds.                                         *)
(***************************************************************************)
Stages == {"log", "register", "restore", "look", "append"}
Operations == {"coordinator", "runtime", "scheduler", "actor", "schedule", "voice"}

Call ==
    [caller : Callers, proc : Procs, op : Operations, stage : Stages,
     calm : BOOLEAN,                   \* history: no other call began meanwhile
     schedule : SUBSET AgentSchedule,  \* of RegisterSchedule
     left : SUBSET AgentSchedule,      \* of StartScheduler
     actor : SUBSET Actors,            \* of RegisterActor
     snapshot : ContextSnapshot]

Init ==
    /\ office = Nothing
    /\ files = {}
    /\ svc = [p \in Procs |-> Down]
    /\ calls = {}
    /\ issued = 0
    /\ faults = 0
    /\ recorded = {}
    /\ wanted = Blank
    /\ enrolled = {}

-----------------------------------------------------------------------------
(***************************************************************************)
(* The ledger.                                                             *)
(***************************************************************************)
OnRecord(open) == {open[s] : s \in Ids} \ {Absent(s) : s \in Ids}

\* As a bug: an empty list replaces, too.
Overwritten(old, snapshot) == snapshot

\* mergeSnapshot: an empty list leaves what is there, another replaces it.
Merged(old, snapshot) ==
    [actors |-> IF snapshot.actors = {} THEN old.actors ELSE snapshot.actors,
     open |-> IF snapshot.open = Blank THEN old.open ELSE snapshot.open]

\* As a bug: the other schedules are forgotten.
OnlyThis(open, schedule) == [Blank EXCEPT ![schedule.id] = schedule]

Upsert(open, schedule) == [open EXCEPT ![schedule.id] = schedule]

WriteSnapshot(snapshot) ==
    /\ office' = Merged(office, snapshot)
    /\ recorded' = recorded \cup OnRecord(snapshot.open)

Fault ==
    /\ faults < MaxFaults
    /\ faults' = faults + 1

(***************************************************************************)
(* Calls.                                                                  *)
(***************************************************************************)
Free(c) == \A k \in calls : k.caller # c

Becomes(k, next) == calls' = (calls \ {k}) \cup {next}
Returns(k) == calls' = calls \ {k}

(***************************************************************************)
(* The office is calm while one process is up and makes one call at a      *)
(* time, it registers only after StartScheduler, or StartRuntime, has      *)
(* succeeded, and makes no other call with its schedules half restored.    *)
(* Any other call voids the promises made so far.                          *)
(***************************************************************************)
OnlyProcess(p) == \A q \in Procs \ {p} : svc[q].phase = "down"

HalfRestored(p) == ~svc[p].restored /\ svc[p].own # Blank

Voided ==
    /\ wanted' = Blank
    /\ enrolled' = {}

Begin(c, p, call, ready) ==
    /\ Free(c)
    /\ svc[p].phase = "up"
    /\ IF calls = {} /\ OnlyProcess(p) /\ ready
       THEN /\ calls' = {[call EXCEPT !.calm = TRUE]}
            /\ UNCHANGED promises
       ELSE /\ calls' = {[k EXCEPT !.calm = FALSE] : k \in calls \cup {call}}
            /\ Voided

NewCall(c, p, op, stage) ==
    [caller |-> c, proc |-> p, op |-> op, stage |-> stage, calm |-> FALSE,
     schedule |-> {}, left |-> {}, actor |-> {}, snapshot |-> Nothing]

StartCoordinator(c, p) ==
    /\ Begin(c, p, NewCall(c, p, "coordinator", "look"), ~HalfRestored(p))
    /\ svc' = [svc EXCEPT ![p].named = TRUE]
    /\ UNCHANGED <<durable, issued, faults, recorded>>

\* Runtime.Start adds the persisted specs to those of this process.
StartRuntime(c, p) ==
    /\ Begin(c, p, NewCall(c, p, "runtime", "look"), ~HalfRestored(p))
    /\ svc' = [svc EXCEPT ![p].named = TRUE, ![p].running = TRUE,
                          ![p].specs = IF svc[p].running THEN @ ELSE @ \cup files]
    /\ UNCHANGED <<durable, issued, faults, recorded>>

\* Runtime.Register refuses an actor it has; it writes the spec file.
RegisterActor(c, p, a) ==
    /\ a \notin svc[p].actors
    /\ Begin(c, p, [NewCall(c, p, "actor", "look") EXCEPT !.actor = {a}],
             svc[p].running /\ ~HalfRestored(p))
    /\ svc' = [svc EXCEPT ![p].actors = @ \cup {a}, ![p].specs = @ \cup {a}]
    /\ files' = files \cup {a}
    /\ UNCHANGED <<office, issued, faults, recorded>>

\* As a bug: the scheduler first, the ledger with the snapshot.
SchedulerFirst(c, p, s, kind) ==
    LET schedule == [id |-> s, number |-> issued + 1, kind |-> kind] IN
    /\ svc[p].named
    /\ issued < MaxRevisions
    /\ issued' = issued + 1
    /\ Begin(c, p, [NewCall(c, p, "schedule", "register") EXCEPT !.schedule = {schedule}],
             svc[p].restored)
    /\ UNCHANGED <<durable, svc, faults, recorded>>

\* AppendSchedule reads the latest snapshot, then drops the ledger's lock.
RegisterSchedule(c, p, s, kind) ==
    LET schedule == [id |-> s, number |-> issued + 1, kind |-> kind] IN
    /\ svc[p].named
    /\ issued < MaxRevisions
    /\ issued' = issued + 1
    /\ Begin(c, p, [NewCall(c, p, "schedule", "log") EXCEPT
                        !.schedule = {schedule},
                        !.snapshot = [office EXCEPT !.open = Upsert(@, schedule)]],
             svc[p].restored)
    /\ UNCHANGED <<durable, svc, faults, recorded>>

\* As a bug: nothing is restored.
StartEmpty(c, p) ==
    /\ Begin(c, p, NewCall(c, p, "scheduler", "restore"), TRUE)
    /\ UNCHANGED <<durable, svc, issued, faults, recorded>>

StartScheduler(c, p) ==
    /\ Begin(c, p, [NewCall(c, p, "scheduler", "restore") EXCEPT
                        !.left = OnRecord(office.open)], TRUE)
    /\ UNCHANGED <<durable, svc, issued, faults, recorded>>

\* AppendVoiceEvent appends the whole context it has read.
AppendVoiceEvent(c, p) ==
    /\ Begin(c, p, [NewCall(c, p, "voice", "append") EXCEPT !.snapshot = office], TRUE)
    /\ UNCHANGED <<durable, svc, issued, faults, recorded>>

\* A schedule that is disabled in the ledger is not wanted any more.
LogSchedule(k) ==
    \E schedule \in k.schedule :
        /\ k.stage = "log"
        /\ WriteSnapshot(k.snapshot)
        /\ wanted' = IF schedule.kind = "off"
                     THEN [wanted EXCEPT ![schedule.id] = Absent(schedule.id)] ELSE wanted
        /\ Becomes(k, [k EXCEPT !.stage = "register", !.snapshot = Nothing])
        /\ UNCHANGED <<files, svc, issued, faults, enrolled>>

(***************************************************************************)
(* Scheduler.                                                              *)
(***************************************************************************)
\* As a bug: the old goroutine is not cancelled.
StartBeside(service, schedule) ==
    [service EXCEPT !.own[schedule.id] = schedule,
                    !.jobs[schedule.id] = Append(@, schedule)]

\* The new goroutine replaces the one whose cancel function the map holds.
StartJob(service, schedule) ==
    LET s == schedule.id IN
    [service EXCEPT
        !.own[s] = schedule,
        !.jobs[s] = << schedule >>,
        !.stragglers = @ \cup {service.jobs[s][i] : i \in DOMAIN service.jobs[s]}]

\* Scheduler.Register: whether it takes the schedule, and what it leaves.
Takes(schedule) == schedule.kind \in {"good", "zero"}
Register(p, schedule) ==
    svc' = IF Takes(schedule) THEN [svc EXCEPT ![p] = StartJob(@, schedule)] ELSE svc

RegisterLogged(k) ==
    \E schedule \in k.schedule :
        /\ k.stage = "register"
        /\ Register(k.proc, schedule)
        /\ wanted' = IF Takes(schedule) /\ k.calm
                     THEN [wanted EXCEPT ![schedule.id] = schedule] ELSE wanted
        /\ IF schedule.kind = "bad" THEN Returns(k) ELSE Becomes(k, [k EXCEPT !.stage = "look"])
        /\ UNCHANGED <<durable, issued, faults, recorded, enrolled>>

\* The first schedule that does not parse ends StartScheduler.
RestoreOne(k) ==
    \E schedule \in k.left :
        /\ k.stage = "restore"
        /\ Register(k.proc, schedule)
        /\ IF schedule.kind = "bad" THEN Returns(k)
           ELSE Becomes(k, [k EXCEPT !.left = @ \ {schedule}])
        /\ UNCHANGED <<durable, issued, faults, recorded, promises>>

RestoredAll(k) ==
    /\ k.stage = "restore"
    /\ k.left = {}
    /\ Becomes(k, [k EXCEPT !.stage = "look"])
    /\ UNCHANGED <<durable, svc, issued, faults, recorded, promises>>

\* Runtime.Actors() and Scheduler.Schedules() of the calling process.
Look(k) ==
    /\ k.stage = "look"
    /\ Becomes(k, [k EXCEPT !.stage = "append",
                            !.snapshot = [actors |-> svc[k.proc].specs,
                                          open |-> svc[k.proc].own]])
    /\ UNCHANGED <<durable, svc, issued, faults, recorded, promises>>

AppendSnapshot(k) ==
    /\ k.stage = "append"
    /\ WriteSnapshot(k.snapshot)
    /\ svc' = IF k.op = "scheduler" THEN [svc EXCEPT ![k.proc].restored = TRUE] ELSE svc
    /\ enrolled' = IF k.calm THEN enrolled \cup k.actor ELSE enrolled
    /\ Returns(k)
    /\ UNCHANGED <<files, issued, faults, wanted>>

CallFails(k) ==
    /\ k.stage \in {"log", "append"}
    /\ Fault
    /\ Returns(k)
    /\ UNCHANGED <<durable, svc, issued, recorded, promises>>

\* A cancelled goroutine sees its context done.
StragglerReturns(p) ==
    \E schedule \in svc[p].stragglers :
        /\ schedule.kind # "zero"
        /\ svc' = [svc EXCEPT ![p].stragglers = @ \ {schedule}]
        /\ UNCHANGED <<durable, calls, issued, faults, recorded, promises>>

\* Scheduler.Stop and Runtime.Stop.  Every caller of Shutdown makes it its last
\* call, but calls of other threads may be under way.
Stopped(service) ==
    [service EXCEPT
        !.phase = "stopping", !.running = FALSE, !.restored = FALSE, !.own = Blank,
        !.jobs = [s \in Ids |-> << >>],
        !.stragglers = @ \cup UNION {{service.jobs[s][i] : i \in DOMAIN service.jobs[s]} : s \in Ids}]

Shutdown(p) ==
    /\ svc[p].phase = "up"
    /\ svc' = [svc EXCEPT ![p] = Stopped(@)]
    /\ IF calls = {} THEN UNCHANGED promises ELSE Voided
    /\ calls' = {[k EXCEPT !.calm = FALSE] : k \in calls}
    /\ UNCHANGED <<durable, issued, faults, recorded>>

Boot(p) ==
    /\ svc[p].phase = "down"
    /\ svc' = [svc EXCEPT ![p].phase = "up"]
    /\ UNCHANGED <<durable, calls, issued, faults, recorded, promises>>

Dies(p) ==
    /\ svc' = [svc EXCEPT ![p] = Down]
    /\ calls' = {k \in calls : k.proc # p}
    /\ UNCHANGED <<durable, issued, recorded, promises>>

Crash(p) ==
    /\ svc[p].phase # "down"
    /\ Fault
    /\ Dies(p)

Exit(p) ==
    /\ svc[p].phase = "stopping"
    /\ Dies(p)
    /\ UNCHANGED faults

\* time.NewTicker panics in the goroutine of a schedule, before it looks at
\* its context, and takes the process down.
TickerPanics(p) ==
    /\ \E schedule \in svc[p].stragglers \cup {svc[p].own[s] : s \in Ids} :
        schedule.kind = "zero"
    /\ Dies(p)
    /\ UNCHANGED faults

-----------------------------------------------------------------------------
CallStep(k) ==
    \/ LogSchedule(k)
    \/ RegisterLogged(k)
    \/ RestoreOne(k)
    \/ RestoredAll(k)
    \/ Look(k)
    \/ AppendSnapshot(k)
    \/ CallFails(k)

Next ==
    \/ \E c \in Callers, p \in Procs :
        \/ StartCoordinator(c, p)
        \/ StartRuntime(c, p)
        \/ StartScheduler(c, p)
        \/ AppendVoiceEvent(c, p)
        \/ \E a \in Actors : RegisterActor(c, p, a)
        \/ \E s \in Ids, kind \in Kinds : RegisterSchedule(c, p, s, kind)
    \/ \E k \in calls : CallStep(k)
    \/ \E p \in Procs :
        \/ StragglerReturns(p)
        \/ Shutdown(p)
        \/ Boot(p)
        \/ Crash(p)
        \/ Exit(p)
        \/ TickerPanics(p)

Spec == Init /\ [][Next]_vars

-----------------------------------------------------------------------------
(***************************************************************************)
(* Properties.                                                             *)
(***************************************************************************)
TypeOK ==
    /\ office \in ContextSnapshot
    /\ files \subseteq Actors
    /\ svc \in [Procs -> Service]
    /\ calls \subseteq Call
    /\ issued \in 0..MaxRevisions
    /\ faults \in 0..MaxFaults
    /\ recorded \subseteq AgentSchedule
    /\ wanted \in Schedules
    /\ enrolled \subseteq files

\* Whatever calls overlap, no schedule ever ticks twice in one process: the
\* goroutines that are not cancelled are those of the scheduler's map.
JobsAreOwn ==
    \A p \in Procs, s \in Ids :
        svc[p].jobs[s] = IF svc[p].own[s].number = 0 THEN << >> ELSE << svc[p].own[s] >>

\* A goroutine that ticks, or may tick once more after its cancellation, is
\* of a revision the ledger has held: the ledger is written first.
JobsWereRecorded ==
    \A p \in Procs, s \in Ids :
        /\ \A i \in DOMAIN svc[p].jobs[s] : svc[p].jobs[s][i] \in recorded
        /\ svc[p].stragglers \subseteq recorded

\* As long as the office stays calm, a schedule the scheduler took stays in the
\* ledger, at its revision or a later one, through crashes, panics, failed
\* appends and rejected registrations.
AcceptedStaysOnRecord ==
    \A s \in Ids : wanted[s].number <= office.open[s].number

\* ... and between calls it, or a later revision the ledger held when the
\* process restored, ticks in every process that has restored.
AcceptedTicks ==
    calls = {} =>
        \A p \in Procs, s \in Ids :
            svc[p].restored => wanted[s].number <= svc[p].own[s].number

\* ... and an actor registered without an error stays on the roster.
EnrolledStaysOnRoster ==
    enrolled \subseteq office.actors
=============================================================================
