------------------------------- MODULE Runtime -------------------------------
(***************************************************************************)
(* RuntimeManager in daemonized mode (internal/agency/runtime.go) with the *)
(* process handles of process.go and the spec files of runtime_store.go:   *)
(* the runtime daemon starts one operating-system process per actor, a     *)
(* goroutine per process waits for its end and forgets it, and Stop ends   *)
(* them all.  Each method holds the manager's mutex from start to end; the *)
(* waiting goroutine holds it only while it forgets its process.           *)
(*                                                                         *)
(* Both the goroutine and Stop call exec.Cmd.Wait of the same command, and *)
(* the Go library hands the one result of the command's context watcher to *)
(* one of the two: the other, if it was already waiting, waits forever.    *)
(*                                                                         *)
(* Abstracted: the contents of specs, times, the environment of a process. *)
(* The embedded mode (loops on the bus) is in EventBus.                    *)
(***************************************************************************)
EXTENDS Naturals, Sequences, FiniteSets

CONSTANTS
    Actors,         \* actor IDs
    MaxSpawns,      \* bound: processes started for one actor
    MaxStarts,      \* bound: successful or failed Starts of one manager
    MaxRestarts,    \* bound: times the runtime daemon is started again
    MaxFaults       \* bound: failed writes and spawns

ASSUME RuntimeAssumption ==
    /\ MaxSpawns \in Nat
    /\ MaxStarts \in Nat
    /\ MaxRestarts \in Nat
    /\ MaxFaults \in Nat

VARIABLES
    era,          \* the running incarnation of the runtime daemon
    registered,   \* RuntimeManager.actors
    specs,        \* RuntimeManager.specs
    files,        \* files[a]: the spec file of a under runtime/actors
    running,      \* RuntimeManager.running
    interrupted,  \* the context given to Start is done
    procs,        \* procs[a]: the processes ever started for a, in order
    processes,    \* processes[a]: the handle the manager holds, 0 for none
    stopping,     \* stopLocked under way; it holds the mutex
    starts,       \* Starts of this incarnation
    faults        \* history: failed writes and spawns

vars == <<era, registered, specs, files, running, interrupted, procs,
          processes, stopping, starts, faults>>

Process ==
    [era : Nat, alive : BOOLEAN,
     wait : {"waiting", "stuck", "returned", "done"}]  \* waitForProcess

NotStopping == [phase |-> "idle", actor |-> {}]
Looping     == [phase |-> "loop", actor |-> {}]
StopWaits(a) == [phase |-> "wait", actor |-> {a}]

Init ==
    /\ era = 0
    /\ registered = {}
    /\ specs = {}
    /\ files = [a \in Actors |-> "none"]
    /\ running = FALSE
    /\ interrupted = FALSE
    /\ procs = [a \in Actors |-> << >>]
    /\ processes = [a \in Actors |-> 0]
    /\ stopping = NotStopping
    /\ starts = 0
    /\ faults = 0

\* Only stopLocked holds the mutex across steps.
MutexFree == stopping.phase = "idle"

MayFail == faults < MaxFaults /\ faults' = faults + 1

Of(a, n) == n \in DOMAIN procs[a] /\ procs[a][n].era = era

-----------------------------------------------------------------------------
\* Mutants of StartDaemons: the map of handles is not looked at, and a handle
\* is kept for a process that did not start.
StartAnyway(S) ==
    /\ S # {} => ~interrupted
    /\ \A a \in S : Len(procs[a]) < MaxSpawns
    /\ procs' = [a \in Actors |->
                   IF a \in S
                   THEN Append(procs[a], [era |-> era, alive |-> TRUE, wait |-> "waiting"])
                   ELSE procs[a]]
    /\ processes' = [a \in Actors |->
                       IF a \in S THEN Len(procs[a]) + 1 ELSE processes[a]]

KeepFailedHandle(S) ==
    /\ processes' = [a \in Actors |->
                       IF a \in S THEN Len(procs[a]) + 1 ELSE processes[a]]
    /\ UNCHANGED procs

\* startDaemonLocked for each actor of S: an actor whose handle is still in
\* the map is left alone, whether its process lives or not.
StartDaemons(S) ==
    LET fresh == {a \in S : processes[a] = 0}
    IN /\ fresh # {} => ~interrupted     \* exec: a done context starts nothing
       /\ \A a \in fresh : Len(procs[a]) < MaxSpawns
       /\ procs' = [a \in Actors |->
                      IF a \in fresh
                      THEN Append(procs[a], [era |-> era, alive |-> TRUE, wait |-> "waiting"])
                      ELSE procs[a]]
       /\ processes' = [a \in Actors |->
                          IF a \in fresh THEN Len(procs[a]) + 1 ELSE processes[a]]

\* The spec is in the map before its file is written; a write that fails may
\* leave a file that does not parse, and returns before anything is started.
SaveSpec(a) ==
    /\ specs' = specs \cup {a}
    /\ \/ /\ files' = [files EXCEPT ![a] = "ok"]
          /\ \/ ~running /\ UNCHANGED <<procs, processes, faults>>
             \/ running /\ StartDaemons({a}) /\ UNCHANGED faults
             \/ running /\ processes[a] = 0 /\ UNCHANGED <<procs, processes>>
                        /\ (MayFail \/ (interrupted /\ UNCHANGED faults))
       \/ /\ MayFail
          /\ \E f \in {files[a], "broken"} : files' = [files EXCEPT ![a] = f]
          /\ UNCHANGED <<procs, processes>>

Register(a) ==
    /\ MutexFree
    /\ a \notin registered
    /\ registered' = registered \cup {a}
    /\ SaveSpec(a)
    /\ UNCHANGED <<era, running, interrupted, stopping, starts>>

RegisterSpec(a) ==
    /\ MutexFree
    /\ SaveSpec(a)
    /\ UNCHANGED <<era, registered, running, interrupted, stopping, starts>>

\* Start: one unreadable spec file fails it; a process that cannot be started
\* stops the ones before it (stopLocked), and running is FALSE in the end.
Start ==
    /\ MutexFree
    /\ ~running
    /\ starts < MaxStarts
    /\ starts' = starts + 1
    /\ IF \E a \in Actors : files[a] = "broken"
       THEN UNCHANGED <<specs, running, procs, processes, stopping, faults>>
       ELSE /\ specs' = specs \cup {a \in Actors : files[a] = "ok"}
            /\ running' = TRUE
            /\ \/ StartDaemons(specs') /\ UNCHANGED <<stopping, faults>>
               \/ \E S \in SUBSET specs' :
                    /\ S # specs'
                    /\ StartDaemons(S)
                    /\ stopping' = Looping
                    /\ MayFail \/ (interrupted /\ UNCHANGED faults)
    /\ UNCHANGED <<era, registered, files, interrupted>>

-----------------------------------------------------------------------------
Stop ==
    /\ MutexFree
    /\ stopping' = Looping
    /\ UNCHANGED <<era, registered, specs, files, running, interrupted, procs,
                   processes, starts, faults>>

\* Mutant of StopHandle: SIGTERM without waiting for the end of the process.
SignalOnly(a) ==
    /\ stopping.phase = "loop"
    /\ processes[a] # 0
    /\ processes' = [processes EXCEPT ![a] = 0]
    /\ UNCHANGED <<era, registered, specs, files, running, interrupted, procs,
                   stopping, starts, faults>>

\* handle.Stop: SIGTERM, then exec.Cmd.Wait.  If the goroutine's Wait has
\* returned, this one returns at once and the handle is dropped.
StopHandle(a) ==
    /\ stopping.phase = "loop"
    /\ processes[a] # 0
    /\ IF procs[a][processes[a]].wait = "waiting"
       THEN /\ stopping' = StopWaits(a)
            /\ UNCHANGED processes
       ELSE /\ processes' = [processes EXCEPT ![a] = 0]
            /\ UNCHANGED stopping
    /\ UNCHANGED <<era, registered, specs, files, running, interrupted, procs,
                   starts, faults>>

\* The process has ended and Stop's Wait gets the one result: Stop goes on,
\* and the goroutine's Wait will never return.
StopReaps(a) ==
    /\ stopping = StopWaits(a)
    /\ ~procs[a][processes[a]].alive
    /\ procs[a][processes[a]].wait = "waiting"
    /\ procs' = [procs EXCEPT ![a][processes[a]].wait = "stuck"]
    /\ processes' = [processes EXCEPT ![a] = 0]
    /\ stopping' = Looping
    /\ UNCHANGED <<era, registered, specs, files, running, interrupted, starts, faults>>

StopReturns ==
    /\ stopping.phase = "loop"
    /\ \A a \in Actors : processes[a] = 0
    /\ running' = FALSE
    /\ stopping' = NotStopping
    /\ UNCHANGED <<era, registered, specs, files, interrupted, procs, processes,
                   starts, faults>>

\* waitForProcess: the goroutine's Wait gets the result ...
WaitReturns(a, n) ==
    /\ Of(a, n)
    /\ procs[a][n].wait = "waiting"
    /\ ~procs[a][n].alive
    /\ procs' = [procs EXCEPT ![a][n].wait = "returned"]
    /\ UNCHANGED <<era, registered, specs, files, running, interrupted,
                   processes, stopping, starts, faults>>

\* Mutant of Forget: the goroutine ends without deleting the handle.
WaitOnly(a, n) ==
    /\ MutexFree
    /\ Of(a, n)
    /\ procs[a][n].wait = "returned"
    /\ procs' = [procs EXCEPT ![a][n].wait = "done"]
    /\ UNCHANGED <<era, registered, specs, files, running, interrupted,
                   processes, stopping, starts, faults>>

\* ... and takes whatever handle the map holds for the actor out of it.
Forget(a, n) ==
    /\ MutexFree
    /\ Of(a, n)
    /\ procs[a][n].wait = "returned"
    /\ procs' = [procs EXCEPT ![a][n].wait = "done"]
    /\ processes' = [processes EXCEPT ![a] = 0]
    /\ UNCHANGED <<era, registered, specs, files, running, interrupted,
                   stopping, starts, faults>>

-----------------------------------------------------------------------------
\* An actor process ends: by itself, on SIGTERM, on Kill after the 5 seconds
\* Stop allows, or killed when the context it was started with is done.
Exit(a, n) ==
    /\ n \in DOMAIN procs[a]
    /\ procs[a][n].alive
    /\ procs' = [procs EXCEPT ![a][n].alive = FALSE]
    /\ UNCHANGED <<era, registered, specs, files, running, interrupted,
                   processes, stopping, starts, faults>>

Ordered(a, n) ==
    Of(a, n) /\ (interrupted \/ (stopping = StopWaits(a) /\ processes[a] = n))

\* SIGINT or SIGTERM to the runtime daemon ends the context.
Interrupt ==
    /\ ~interrupted
    /\ interrupted' = TRUE
    /\ UNCHANGED <<era, registered, specs, files, running, procs, processes,
                   stopping, starts, faults>>

\* The runtime daemon dies, or returns from main, and is started again: only
\* the spec files and the processes it has not stopped are still there.
Restart ==
    /\ era < MaxRestarts
    /\ era' = era + 1
    /\ registered' = {}
    /\ specs' = {}
    /\ running' = FALSE
    /\ interrupted' = FALSE
    /\ processes' = [a \in Actors |-> 0]
    /\ stopping' = NotStopping
    /\ starts' = 0
    /\ UNCHANGED <<files, procs, faults>>

Next ==
    \/ \E a \in Actors :
        \/ Register(a)
        \/ RegisterSpec(a)
        \/ StopHandle(a)
        \/ StopReaps(a)
        \/ \E n \in DOMAIN procs[a] :
            \/ WaitReturns(a, n)
            \/ Forget(a, n)
            \/ Exit(a, n)
    \/ Start
    \/ Stop
    \/ StopReturns
    \/ Interrupt
    \/ Restart

Spec == Init /\ [][Next]_vars

\* A process told to end ends (SIGTERM, then Kill), a method under way goes
\* on when it can, and Go's mutex starves no goroutine.  Nobody has to
\* register, start, stop, interrupt or restart anything, and no process has to
\* end by itself.
Fairness ==
    /\ \A a \in Actors :
        /\ WF_vars(StopHandle(a))
        /\ WF_vars(StopReaps(a))
        /\ \A n \in 1..MaxSpawns :
            /\ WF_vars(Ordered(a, n) /\ Exit(a, n))
            /\ WF_vars(WaitReturns(a, n))
            /\ SF_vars(Forget(a, n))
    /\ WF_vars(StopReturns)

FairSpec == Spec /\ Fairness

-----------------------------------------------------------------------------
(* Properties *)

TypeOK ==
    /\ era \in 0..MaxRestarts
    /\ registered \subseteq Actors
    /\ specs \subseteq Actors
    /\ files \in [Actors -> {"none", "ok", "broken"}]
    /\ running \in BOOLEAN
    /\ interrupted \in BOOLEAN
    /\ procs \in [Actors -> Seq(Process)]
    /\ processes \in [Actors -> Nat]
    /\ \A a \in Actors : processes[a] \in 0..Len(procs[a])
    /\ stopping \in {NotStopping, Looping} \cup {StopWaits(a) : a \in Actors}
    /\ starts \in 0..MaxStarts
    /\ faults \in 0..MaxFaults

\* A manager that is started once never loses sight of a process it started
\* and that still lives: the map holds its handle, so that registering the
\* actor again starts no second process and Stop reaches this one, however
\* the ends of other processes of the actor are noticed.
LiveIsTracked ==
    \A a \in Actors : \A n \in DOMAIN procs[a] :
        (Of(a, n) /\ procs[a][n].alive) => processes[a] = n

\* When a manager that was started is not running and no Stop is under way,
\* none of its processes is left: neither a Start that failed half-way nor an
\* actor registered while it stopped leaves one behind.
StoppedLeavesNone ==
    (~running /\ MutexFree) =>
        \A a \in Actors : \A n \in DOMAIN procs[a] : Of(a, n) => ~procs[a][n].alive

\* A process that has ended is forgotten, so that the actor can be started
\* again, unless Stop holds the mutex for good.
EndedIsForgotten ==
    \A a \in Actors : \A n \in 1..MaxSpawns :
        (Of(a, n) /\ ~procs[a][n].alive) ~> (processes[a] # n \/ ~MutexFree)

\* "Stop: overmind stop" (Procfile:3): a Stop of the runtime's processes ends.
StopEnds == ~MutexFree ~> MutexFree
=============================================================================
