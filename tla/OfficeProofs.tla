---------------------------- MODULE OfficeProofs ----------------------------
(***************************************************************************)
(* Proofs about Office, for any processes, callers, schedules and actors,  *)
(* and any number of revisions and faults.                                 *)
(***************************************************************************)
EXTENDS Office, TLAPS, SequenceTheorems

-----------------------------------------------------------------------------
(* Types *)

\* A schedule that is not there is none that could be recorded.
LEMMA AbsentType ==
    ASSUME NEW s \in Ids
    PROVE  /\ Blank[s] = Absent(s) /\ Blank[s].number = 0
           /\ Absent(s).number = 0 /\ Absent(s).kind = "off"
           /\ Absent(s) \notin AgentSchedule
<1>1. Absent(s).number = 0 /\ Absent(s).kind = "off"
  BY DEF Absent
<1>2. \A c \in AgentSchedule : c.number # 0
  BY DEF AgentSchedule
<1>3. Blank[s] = Absent(s)
  BY DEF Blank
<1> QED
  BY <1>1, <1>2, <1>3

\* The empty list is a list.
LEMMA BlankType == Blank \in Schedules
<1>1. \A s \in Ids : Absent(s).id = s
  BY DEF Absent
<1> QED
  BY <1>1 DEF Blank, Schedules

\* A snapshot that says nothing.
LEMMA NothingType ==
    Nothing \in ContextSnapshot /\ Nothing.actors = {} /\ Nothing.open = Blank
  BY BlankType DEF Nothing, ContextSnapshot

\* A process that is down has nothing.
LEMMA DownType ==
    /\ Down \in Service
    /\ Down.phase = "down" /\ ~Down.running /\ ~Down.restored
    /\ Down.specs = {} /\ Down.own = Blank /\ Down.stragglers = {}
    /\ \A s \in Ids : Down.jobs[s] = << >>
<1>1. << >> \in Seq(AgentSchedule)
  BY EmptySeq
<1> QED
  BY <1>1, BlankType DEF Down, Service

\* A list of schedules says of each whether it is there, and which.
LEMMA SchedulesType ==
    ASSUME NEW open \in Schedules, NEW s \in Ids
    PROVE  /\ open[s].number \in Nat
           /\ open[s].number = 0 => open[s] = Absent(s)
           /\ open[s].number # 0 => /\ open[s] \in AgentSchedule
                                    /\ open[s] \in OnRecord(open)
<1>1. open[s].id = s /\ (open[s] \in AgentSchedule \/ \E t \in Ids : open[s] = Absent(t))
  BY DEF Schedules
<1>2. CASE open[s] \in AgentSchedule
  <2>1. open[s].number \in Nat \ {0}
    BY <1>2 DEF AgentSchedule
  <2>2. \A t \in Ids : open[s] # Absent(t)
    BY <2>1 DEF Absent
  <2> QED
    BY <1>2, <2>1, <2>2 DEF OnRecord
<1>3. ASSUME NEW t \in Ids, open[s] = Absent(t)
      PROVE  open[s] = Absent(s) /\ open[s].number = 0
  BY <1>1, <1>3 DEF Absent
<1> QED
  BY <1>1, <1>2, <1>3

\* What is on record are schedules, each under its own ID.
LEMMA OnRecordType ==
    ASSUME NEW open \in Schedules, NEW c \in OnRecord(open)
    PROVE  c \in AgentSchedule /\ c.id \in Ids /\ open[c.id] = c
<1>1. PICK s \in Ids : c = open[s] /\ \A t \in Ids : c # Absent(t)
  BY DEF OnRecord
<1>2. c \in AgentSchedule /\ c.id = s
  BY <1>1 DEF Schedules
<1> QED
  BY <1>1, <1>2

\* AppendSchedule puts the schedule in its place.
LEMMA UpsertType ==
    ASSUME NEW open \in Schedules, NEW c \in AgentSchedule
    PROVE  /\ Upsert(open, c) \in Schedules
           /\ c.id \in Ids /\ Upsert(open, c)[c.id] = c
           /\ \A s \in Ids \ {c.id} : Upsert(open, c)[s] = open[s]
  BY DEF Upsert, Schedules, AgentSchedule

\* mergeSnapshot takes each list from the one or from the other.
LEMMA MergedType ==
    ASSUME NEW old \in ContextSnapshot, NEW new \in ContextSnapshot
    PROVE  /\ Merged(old, new) \in ContextSnapshot
           /\ Merged(old, new).actors = IF new.actors = {} THEN old.actors ELSE new.actors
           /\ Merged(old, new).open = IF new.open = Blank THEN old.open ELSE new.open
  BY DEF Merged, ContextSnapshot

\* The schedules that the goroutines of an ID carry.
JobsOf(v, s) == {v.jobs[s][i] : i \in DOMAIN v.jobs[s]}

\* The goroutine of the schedule is the only one left of its ID.
WithJob(v, c, w) ==
    /\ w \in Service
    /\ w.phase = v.phase /\ w.named = v.named /\ w.running = v.running
    /\ w.restored = v.restored /\ w.actors = v.actors /\ w.specs = v.specs
    /\ c.id \in Ids /\ w.own[c.id] = c /\ w.jobs[c.id] = << c >>
    /\ \A s \in Ids \ {c.id} : w.own[s] = v.own[s] /\ w.jobs[s] = v.jobs[s]
    /\ w.stragglers = v.stragglers \cup JobsOf(v, c.id)

LEMMA StartJobType ==
    ASSUME NEW v \in Service, NEW c \in AgentSchedule
    PROVE  WithJob(v, c, StartJob(v, c))
<1> DEFINE s == c.id
           own == [v.own EXCEPT ![s] = c]
           jobs == [v.jobs EXCEPT ![s] = << c >>]
           late == v.stragglers \cup JobsOf(v, s)
           w == StartJob(v, c)
<1>1. w = [v EXCEPT !.own = own, !.jobs = jobs, !.stragglers = late]
  BY DEF StartJob, Service, JobsOf
<1>2. s \in Ids /\ v.own \in Schedules /\ v.jobs \in [Ids -> Seq(AgentSchedule)]
      /\ v.stragglers \subseteq AgentSchedule
  BY DEF AgentSchedule, Service
<1>3. own \in Schedules
  BY <1>2, UpsertType DEF Upsert
<1>4. jobs \in [Ids -> Seq(AgentSchedule)]
  BY <1>2
<1>5. late \subseteq AgentSchedule
  BY <1>2, LenProperties, ElementOfSeq DEF JobsOf
<1>6. own[s] = c /\ jobs[s] = << c >>
  BY <1>2 DEF Schedules
<1>7. \A t \in Ids \ {s} : own[t] = v.own[t] /\ jobs[t] = v.jobs[t]
  BY <1>2 DEF Schedules
<1> HIDE DEF own, jobs, late
<1>8. w \in Service
  BY <1>1, <1>3, <1>4, <1>5 DEF Service
<1>9. /\ w.phase = v.phase /\ w.named = v.named /\ w.running = v.running
      /\ w.restored = v.restored /\ w.actors = v.actors /\ w.specs = v.specs
      /\ w.own = own /\ w.jobs = jobs /\ w.stragglers = late
  BY <1>1 DEF Service
<1> QED
  BY <1>2, <1>6, <1>7, <1>8, <1>9 DEF late, WithJob

-----------------------------------------------------------------------------
(* The schedules that tick *)

\* Those of the map, each once; and all of them, and what is left of those
\* cancelled, have been in the ledger.
ProcOK(v) ==
    /\ v.phase = "down" => v = Down
    /\ \A s \in Ids :
        /\ v.jobs[s] = IF v.own[s].number = 0 THEN << >> ELSE << v.own[s] >>
        /\ v.own[s].number # 0 => v.own[s] \in recorded /\ Takes(v.own[s])
    /\ v.stragglers \subseteq recorded

\* What a call is about to hand to the scheduler has been in the ledger.
CallOK(k) ==
    /\ k.actor \subseteq files
    /\ k.left \subseteq recorded
    /\ k.stage = "register" => k.schedule \subseteq recorded
    /\ k.stage = "log" => \A c \in k.schedule : k.snapshot.open[c.id] = c

Base ==
    /\ TypeOK
    /\ OnRecord(office.open) \subseteq recorded
    /\ \A p \in Procs : ProcOK(svc[p])
    /\ \A k \in calls : CallOK(k)

\* The ledger never forgets a revision, nor the runtime a spec file.
LEMMA Remembered ==
    ASSUME files \subseteq files', recorded \subseteq recorded'
    PROVE  /\ \A v : ProcOK(v) => ProcOK(v)'
           /\ \A k : CallOK(k) => CallOK(k)'
  BY DEF ProcOK, CallOK

\* A call that begins.
LEMMA BeginBase ==
    ASSUME Base, NEW c \in Callers, NEW p \in Procs, NEW call \in Call, NEW ready,
           Begin(c, p, call, ready), CallOK(call)',
           files \subseteq files', files' \subseteq Actors,
           issued' \in 0 .. MaxRevisions, UNCHANGED <<office, faults, recorded>>,
           svc' \in [Procs -> Service], \A q \in Procs : ProcOK(svc[q])'
    PROVE  Base'
<1>1. \A k \in Call, b \in BOOLEAN :
         /\ [k EXCEPT !.calm = b] \in Call
         /\ CallOK(k)' => CallOK([k EXCEPT !.calm = b])'
  BY DEF Call, CallOK
<1>2. calls \subseteq Call /\ \A k \in calls : CallOK(k)'
  BY Remembered DEF Base, TypeOK
<1>3. calls' \subseteq Call /\ \A k \in calls' : CallOK(k)'
  <2>1. CASE calls' = {[call EXCEPT !.calm = TRUE]}
    BY <1>1, <2>1
  <2>2. CASE calls' = {[k EXCEPT !.calm = FALSE] : k \in calls \cup {call}}
    BY <1>1, <1>2, <2>2
  <2> QED
    BY <2>1, <2>2 DEF Begin
<1>4. wanted' \in Schedules /\ enrolled' \subseteq files'
  BY BlankType DEF Begin, Voided, promises, Base, TypeOK
<1>5. TypeOK'
  BY <1>3, <1>4 DEF Base, TypeOK
<1> QED
  BY <1>3, <1>5 DEF Base

\* What a call that begins holds.
LEMMA NewCallType ==
    ASSUME NEW c \in Callers, NEW p \in Procs, NEW op \in Operations, NEW stage \in Stages
    PROVE  LET k == NewCall(c, p, op, stage) IN
           /\ k \in Call
           /\ k.proc = p /\ k.op = op /\ k.stage = stage /\ ~k.calm
           /\ k.schedule = {} /\ k.left = {} /\ k.actor = {} /\ k.snapshot = Nothing
  BY NothingType DEF NewCall, Call

\* A step that changes one process.
LEMMA ProcsAfter ==
    ASSUME Base, NEW p \in Procs, NEW v \in Service, ProcOK(v), svc' = [svc EXCEPT ![p] = v],
           recorded \subseteq recorded'
    PROVE  /\ svc' \in [Procs -> Service]
           /\ svc'[p] = v /\ \A q \in Procs \ {p} : svc'[q] = svc[q]
           /\ \A q \in Procs : ProcOK(svc[q])'
<1>1. /\ svc' \in [Procs -> Service]
      /\ svc'[p] = v /\ \A q \in Procs \ {p} : svc'[q] = svc[q]
  BY DEF Base, TypeOK
<1>2. \A q \in Procs : ProcOK(svc'[q])
  BY <1>1 DEF Base
<1> QED
  BY <1>1, <1>2 DEF ProcOK

\* Service.StartCoordinator names the organization.
LEMMA StartCoordinatorBase ==
    ASSUME Base, NEW c \in Callers, NEW p \in Procs, StartCoordinator(c, p)
    PROVE  Base'
<1> DEFINE v == [svc[p] EXCEPT !.named = TRUE]
           call == NewCall(c, p, "coordinator", "look")
<1>1. svc[p] \in Service /\ ProcOK(svc[p]) /\ svc[p].phase = "up"
  BY DEF Base, TypeOK, StartCoordinator, Begin
<1>2. v \in Service /\ ProcOK(v)
  BY <1>1 DEF Service, ProcOK
<1>3. svc' = [svc EXCEPT ![p] = v]
  BY DEF StartCoordinator
<1>4. call \in Call /\ CallOK(call)'
  BY NewCallType DEF Operations, Stages, CallOK
<1>5. /\ Begin(c, p, call, ~HalfRestored(p))
      /\ UNCHANGED <<office, files, issued, faults, recorded>>
  BY DEF StartCoordinator, durable
<1> HIDE DEF v, call
<1>6. svc' \in [Procs -> Service] /\ \A q \in Procs : ProcOK(svc[q])'
  BY <1>2, <1>3, <1>5, ProcsAfter
<1> QED
  BY <1>4, <1>5, <1>6, BeginBase DEF Base, TypeOK

\* Service.StartRuntime adds the specs of the spec files.
LEMMA StartRuntimeBase ==
    ASSUME Base, NEW c \in Callers, NEW p \in Procs, StartRuntime(c, p)
    PROVE  Base'
<1> DEFINE specs == IF svc[p].running THEN svc[p].specs ELSE svc[p].specs \cup files
           v == [svc[p] EXCEPT !.named = TRUE, !.running = TRUE, !.specs = specs]
           call == NewCall(c, p, "runtime", "look")
<1>1. /\ svc[p] \in Service /\ ProcOK(svc[p]) /\ svc[p].phase = "up"
      /\ files \subseteq Actors
  BY DEF Base, TypeOK, StartRuntime, Begin
<1>2. specs \subseteq Actors
  BY <1>1 DEF Service
<1>3. svc' = [svc EXCEPT ![p] = v]
  BY DEF StartRuntime
<1> HIDE DEF specs
<1>4. v \in Service /\ ProcOK(v)
  BY <1>1, <1>2 DEF Service, ProcOK
<1>5. call \in Call /\ CallOK(call)'
  BY NewCallType DEF Operations, Stages, CallOK
<1>6. /\ Begin(c, p, call, ~HalfRestored(p))
      /\ UNCHANGED <<office, files, issued, faults, recorded>>
  BY DEF StartRuntime, durable
<1> HIDE DEF v, call
<1>7. svc' \in [Procs -> Service] /\ \A q \in Procs : ProcOK(svc[q])'
  BY <1>3, <1>4, <1>6, ProcsAfter
<1> QED
  BY <1>5, <1>6, <1>7, BeginBase DEF Base, TypeOK

\* Runtime.Register writes the spec file before the call looks at the maps.
LEMMA RegisterActorBase ==
    ASSUME Base, NEW c \in Callers, NEW p \in Procs, NEW a \in Actors, RegisterActor(c, p, a)
    PROVE  Base'
<1> DEFINE v == [svc[p] EXCEPT !.actors = @ \cup {a}, !.specs = @ \cup {a}]
           new == NewCall(c, p, "actor", "look")
           call == [new EXCEPT !.actor = {a}]
           ready == svc[p].running /\ ~HalfRestored(p)
<1>1. svc[p] \in Service /\ ProcOK(svc[p]) /\ svc[p].phase = "up"
  BY DEF Base, TypeOK, RegisterActor, Begin
<1>2. v \in Service /\ ProcOK(v)
  BY <1>1 DEF Service, ProcOK
<1>3. svc' = [svc EXCEPT ![p] = v]
  BY DEF RegisterActor
<1>4. files' = files \cup {a} /\ files \subseteq files' /\ files' \subseteq Actors
  BY DEF RegisterActor, Base, TypeOK
<1>5. new \in Call /\ new.stage = "look" /\ new.left = {}
  BY NewCallType DEF Operations, Stages
<1>6. Begin(c, p, call, ready) /\ UNCHANGED <<office, issued, faults, recorded>>
  BY DEF RegisterActor
<1> HIDE DEF v, new, ready
<1>7. call \in Call /\ CallOK(call)'
  BY <1>4, <1>5 DEF Call, CallOK
<1> HIDE DEF call
<1>8. svc' \in [Procs -> Service] /\ \A q \in Procs : ProcOK(svc[q])'
  BY <1>2, <1>3, <1>6, ProcsAfter
<1> QED
  BY <1>4, <1>6, <1>7, <1>8, BeginBase DEF Base, TypeOK

\* A call that begins without touching its process.
LEMMA BeginOnlyBase ==
    ASSUME Base, NEW c \in Callers, NEW p \in Procs, NEW call \in Call, NEW ready,
           Begin(c, p, call, ready), CallOK(call), issued' \in 0 .. MaxRevisions,
           UNCHANGED <<durable, svc, faults, recorded>>
    PROVE  Base'
<1>1. CallOK(call)' /\ \A q \in Procs : ProcOK(svc[q])'
  BY DEF CallOK, ProcOK, durable, Base
<1> QED
  BY <1>1, BeginBase DEF Base, TypeOK, durable

\* AppendSchedule holds the context it has read, with the schedule in its place.
LEMMA RegisterScheduleBase ==
    ASSUME Base, NEW c \in Callers, NEW p \in Procs, NEW s \in Ids, NEW kind \in Kinds,
           RegisterSchedule(c, p, s, kind)
    PROVE  Base'
<1> DEFINE schedule == [id |-> s, number |-> issued + 1, kind |-> kind]
           new == NewCall(c, p, "schedule", "log")
           snapshot == [office EXCEPT !.open = Upsert(@, schedule)]
           call == [new EXCEPT !.schedule = {schedule}, !.snapshot = snapshot]
<1>1. issued \in Nat /\ issued' \in 0 .. MaxRevisions /\ office \in ContextSnapshot
  BY OfficeAssumption DEF RegisterSchedule, Base, TypeOK
<1>2. schedule \in AgentSchedule
  BY <1>1 DEF AgentSchedule
<1>3. Begin(c, p, call, svc[p].restored) /\ UNCHANGED <<durable, svc, faults, recorded>>
  BY DEF RegisterSchedule
<1> HIDE DEF schedule
<1>4. /\ snapshot \in ContextSnapshot
      /\ snapshot.open = Upsert(office.open, schedule)
      /\ snapshot.open[schedule.id] = schedule
  BY <1>1, <1>2, UpsertType DEF ContextSnapshot
<1>5. new \in Call /\ new.stage = "log" /\ new.left = {} /\ new.actor = {}
  BY NewCallType DEF Operations, Stages
<1> HIDE DEF snapshot, new
<1>6. call \in Call /\ CallOK(call)
  BY <1>2, <1>4, <1>5 DEF Call, CallOK
<1> HIDE DEF call
<1> QED
  BY <1>1, <1>3, <1>6, BeginOnlyBase

\* StartScheduler holds the schedules on record.
LEMMA StartSchedulerBase ==
    ASSUME Base, NEW c \in Callers, NEW p \in Procs, StartScheduler(c, p)
    PROVE  Base'
<1> DEFINE new == NewCall(c, p, "scheduler", "restore")
           call == [new EXCEPT !.left = OnRecord(office.open)]
<1>1. Begin(c, p, call, TRUE) /\ UNCHANGED <<durable, svc, issued, faults, recorded>>
  BY DEF StartScheduler
<1>2. OnRecord(office.open) \subseteq AgentSchedule /\ OnRecord(office.open) \subseteq recorded
  BY OnRecordType DEF Base, TypeOK, ContextSnapshot
<1>3. new \in Call /\ new.stage = "restore" /\ new.actor = {}
  BY NewCallType DEF Operations, Stages
<1> HIDE DEF new
<1>4. call \in Call /\ CallOK(call)
  BY <1>2, <1>3 DEF Call, CallOK
<1> HIDE DEF call
<1> QED
  BY <1>1, <1>4, BeginOnlyBase DEF Base, TypeOK

\* AppendVoiceEvent holds the context it has read.
LEMMA AppendVoiceEventBase ==
    ASSUME Base, NEW c \in Callers, NEW p \in Procs, AppendVoiceEvent(c, p)
    PROVE  Base'
<1> DEFINE new == NewCall(c, p, "voice", "append")
           call == [new EXCEPT !.snapshot = office]
<1>1. Begin(c, p, call, TRUE) /\ UNCHANGED <<durable, svc, issued, faults, recorded>>
  BY DEF AppendVoiceEvent
<1>2. new \in Call /\ new.stage = "append" /\ new.actor = {} /\ new.left = {}
  BY NewCallType DEF Operations, Stages
<1> HIDE DEF new
<1>3. call \in Call /\ CallOK(call)
  BY <1>2 DEF Call, CallOK, Base, TypeOK
<1> HIDE DEF call
<1> QED
  BY <1>1, <1>3, BeginOnlyBase DEF Base, TypeOK

\* What a call becomes, if anything; the ledger may get its snapshot.
LEMMA CallBase ==
    ASSUME Base, NEW k \in calls, NEW next \in Call, CallOK(next)',
           Becomes(k, next) \/ Returns(k),
           recorded \subseteq recorded', recorded' \subseteq AgentSchedule,
           office' \in ContextSnapshot, OnRecord(office'.open) \subseteq recorded',
           svc' \in [Procs -> Service], \A q \in Procs : ProcOK(svc[q])',
           wanted' \in Schedules, enrolled' \subseteq files,
           faults' \in 0 .. MaxFaults, UNCHANGED <<files, issued>>
    PROVE  Base'
<1>1. calls \subseteq Call /\ \A x \in calls : CallOK(x)'
  BY Remembered DEF Base, TypeOK
<1>2. calls' \subseteq Call /\ \A x \in calls' : CallOK(x)'
  BY <1>1 DEF Becomes, Returns
<1> QED
  BY <1>2 DEF Base, TypeOK

\* The ledger after a snapshot: what it holds is on record.
LEMMA WriteSnapshotBase ==
    ASSUME Base, NEW snapshot \in ContextSnapshot, WriteSnapshot(snapshot)
    PROVE  /\ office' \in ContextSnapshot
           /\ recorded \subseteq recorded' /\ recorded' \subseteq AgentSchedule
           /\ OnRecord(snapshot.open) \subseteq recorded'
           /\ OnRecord(office'.open) \subseteq recorded'
<1>1. office \in ContextSnapshot /\ OnRecord(office.open) \subseteq recorded
      /\ recorded \subseteq AgentSchedule
  BY DEF Base, TypeOK
<1>2. /\ office' = Merged(office, snapshot)
      /\ recorded' = recorded \cup OnRecord(snapshot.open)
  BY DEF WriteSnapshot
<1>3. OnRecord(snapshot.open) \subseteq AgentSchedule
  BY OnRecordType DEF ContextSnapshot
<1>4. office'.open = snapshot.open \/ office'.open = office.open
  BY <1>1, <1>2, MergedType
<1>5. office' \in ContextSnapshot
  BY <1>1, <1>2, MergedType
<1> QED
  BY <1>1, <1>2, <1>3, <1>4, <1>5

\* What is to be registered next is on record now.
LEMMA LogScheduleBase ==
    ASSUME Base, NEW k \in calls, LogSchedule(k)
    PROVE  Base'
<1>1. PICK c \in k.schedule :
        /\ k.stage = "log" /\ WriteSnapshot(k.snapshot)
        /\ wanted' = IF c.kind = "off" THEN [wanted EXCEPT ![c.id] = Absent(c.id)] ELSE wanted
        /\ Becomes(k, [k EXCEPT !.stage = "register", !.snapshot = Nothing])
        /\ UNCHANGED <<files, svc, issued, faults, enrolled>>
  BY DEF LogSchedule
<1> DEFINE next == [k EXCEPT !.stage = "register", !.snapshot = Nothing]
<1>2. k \in Call /\ CallOK(k) /\ k.snapshot \in ContextSnapshot
      /\ k.schedule \subseteq AgentSchedule
  BY DEF Base, TypeOK, Call
<1>3. /\ office' \in ContextSnapshot
      /\ recorded \subseteq recorded' /\ recorded' \subseteq AgentSchedule
      /\ OnRecord(k.snapshot.open) \subseteq recorded'
      /\ OnRecord(office'.open) \subseteq recorded'
  BY <1>1, <1>2, WriteSnapshotBase
<1>4. k.schedule \subseteq recorded'
  <2> SUFFICES ASSUME NEW d \in k.schedule PROVE d \in OnRecord(k.snapshot.open)
    BY <1>3
  <2>1. d \in AgentSchedule /\ d.id \in Ids /\ d.number # 0
    BY <1>2 DEF AgentSchedule
  <2>2. k.snapshot.open \in Schedules /\ k.snapshot.open[d.id] = d
    BY <1>1, <1>2 DEF CallOK, ContextSnapshot
  <2> QED
    BY <2>1, <2>2, SchedulesType
<1>5. next \in Call /\ CallOK(next)'
  BY <1>1, <1>2, <1>3, <1>4, NothingType DEF Call, CallOK, Stages
<1>6. wanted' \in Schedules
  <2>1. c.id \in Ids /\ wanted \in Schedules /\ Absent(c.id).id = c.id
    BY <1>2 DEF AgentSchedule, Base, TypeOK, Absent
  <2>2. [wanted EXCEPT ![c.id] = Absent(c.id)] \in Schedules
    BY <2>1 DEF Schedules
  <2> QED
    BY <1>1, <2>1, <2>2
<1>7. svc' \in [Procs -> Service] /\ \A q \in Procs : ProcOK(svc[q])'
  <2>1. \A q \in Procs : svc'[q] = svc[q] /\ ProcOK(svc[q])
    BY <1>1 DEF Base
  <2> QED
    BY <1>1, <1>3, <2>1 DEF Base, TypeOK, ProcOK
<1> HIDE DEF next
<1>8. Becomes(k, next) /\ enrolled' \subseteq files /\ faults' \in 0 .. MaxFaults
      /\ UNCHANGED <<files, issued>>
  BY <1>1 DEF next, Base, TypeOK
<1> QED
  BY <1>3, <1>5, <1>6, <1>7, <1>8, CallBase

\* Scheduler.Register: a schedule that has been in the ledger ticks, or the
\* process stays as it is.
LEMMA RegisterProc ==
    ASSUME Base, NEW p \in Procs, svc[p].phase # "down",
           NEW c \in AgentSchedule, c \in recorded, Register(p, c), recorded' = recorded
    PROVE  /\ svc' \in [Procs -> Service]
           /\ \A q \in Procs : ProcOK(svc[q])'
           /\ \A q \in Procs \ {p} : svc'[q] = svc[q]
           /\ c.id \in Ids
           /\ \A s \in Ids \ {c.id} : svc'[p].own[s] = svc[p].own[s]
           /\ svc'[p].own[c.id] = IF Takes(c) THEN c ELSE svc[p].own[c.id]
           /\ svc'[p].specs = svc[p].specs
           /\ svc'[p].running = svc[p].running /\ svc'[p].restored = svc[p].restored
           /\ svc'[p].phase = svc[p].phase
<1> DEFINE v == StartJob(svc[p], c)
<1>1. svc[p] \in Service /\ ProcOK(svc[p]) /\ c.id \in Ids /\ c.number # 0
  BY DEF Base, TypeOK, AgentSchedule
<1>2. CASE Takes(c)
  <2>1. svc' = [svc EXCEPT ![p] = v]
    BY <1>2 DEF Register
  <2>2. /\ v \in Service
        /\ v.phase = svc[p].phase /\ v.running = svc[p].running
        /\ v.restored = svc[p].restored /\ v.specs = svc[p].specs
        /\ v.own[c.id] = c /\ v.jobs[c.id] = << c >>
        /\ \A s \in Ids \ {c.id} : v.own[s] = svc[p].own[s] /\ v.jobs[s] = svc[p].jobs[s]
        /\ v.stragglers = svc[p].stragglers \cup JobsOf(svc[p], c.id)
    <3>1. WithJob(svc[p], c, v)
      BY <1>1, StartJobType
    <3> HIDE DEF v
    <3> QED
      BY <3>1 DEF WithJob
  <2> HIDE DEF v
  <2>3. JobsOf(svc[p], c.id) \subseteq recorded
    <3>1. CASE svc[p].own[c.id].number = 0
      <4>1. svc[p].jobs[c.id] = << >>
        BY <1>1, <3>1 DEF ProcOK
      <4> QED
        BY <4>1 DEF JobsOf
    <3>2. CASE svc[p].own[c.id].number # 0
      <4>1. svc[p].jobs[c.id] = << svc[p].own[c.id] >> /\ svc[p].own[c.id] \in recorded
        BY <1>1, <3>2 DEF ProcOK
      <4> QED
        BY <4>1 DEF JobsOf
    <3> QED
      BY <3>1, <3>2
  <2>4. \A s \in Ids :
          /\ v.jobs[s] = IF v.own[s].number = 0 THEN << >> ELSE << v.own[s] >>
          /\ v.own[s].number # 0 => v.own[s] \in recorded /\ Takes(v.own[s])
    <3> SUFFICES ASSUME NEW s \in Ids
                 PROVE  /\ v.jobs[s] = IF v.own[s].number = 0 THEN << >> ELSE << v.own[s] >>
                        /\ v.own[s].number # 0 => v.own[s] \in recorded /\ Takes(v.own[s])
      OBVIOUS
    <3>1. CASE s = c.id
      BY <1>1, <1>2, <2>2, <3>1
    <3>2. CASE s # c.id
      BY <1>1, <2>2, <3>2 DEF ProcOK
    <3> QED
      BY <3>1, <3>2
  <2>5. ProcOK(v)
    BY <1>1, <2>2, <2>3, <2>4 DEF ProcOK
  <2>6. /\ svc' \in [Procs -> Service]
        /\ svc'[p] = v /\ \A q \in Procs \ {p} : svc'[q] = svc[q]
        /\ \A q \in Procs : ProcOK(svc[q])'
    BY <2>1, <2>2, <2>5, ProcsAfter
  <2> QED
    BY <1>1, <1>2, <2>2, <2>6
<1>3. CASE ~Takes(c)
  <2>1. svc' = svc
    BY <1>3 DEF Register
  <2> QED
    BY <1>1, <1>3, <2>1 DEF Base, TypeOK, ProcOK
<1> QED
  BY <1>2, <1>3

\* A call is of a process that is up, or stopping.
CallsAreLive == \A k \in calls : svc[k.proc].phase # "down"

\* The logged schedule ticks.
LEMMA RegisterLoggedBase ==
    ASSUME Base, CallsAreLive, NEW k \in calls, RegisterLogged(k)
    PROVE  Base'
<1> DEFINE next == [k EXCEPT !.stage = "look"]
<1>1. PICK c \in k.schedule :
        /\ k.stage = "register" /\ Register(k.proc, c)
        /\ wanted' = IF Takes(c) /\ k.calm THEN [wanted EXCEPT ![c.id] = c] ELSE wanted
        /\ Returns(k) \/ Becomes(k, next)
        /\ UNCHANGED <<durable, issued, faults, recorded, enrolled>>
  BY DEF RegisterLogged
<1>2. k \in Call /\ CallOK(k) /\ k.proc \in Procs /\ c \in AgentSchedule /\ c \in recorded
  BY <1>1 DEF Base, TypeOK, Call, CallOK
<1>3. svc' \in [Procs -> Service] /\ \A q \in Procs : ProcOK(svc[q])'
  BY <1>1, <1>2, RegisterProc DEF CallsAreLive
<1>4. wanted' \in Schedules
  BY <1>1, <1>2, UpsertType DEF Upsert, Base, TypeOK
<1>5. next \in Call /\ CallOK(next)'
  BY <1>1, <1>2 DEF Call, CallOK, Stages, durable
<1> HIDE DEF next
<1> QED
  BY <1>1, <1>3, <1>4, <1>5, CallBase DEF Base, TypeOK, durable

\* A schedule on record ticks.
LEMMA RestoreOneBase ==
    ASSUME Base, CallsAreLive, NEW k \in calls, RestoreOne(k)
    PROVE  Base'
<1>1. PICK c \in k.left :
        /\ k.stage = "restore" /\ Register(k.proc, c)
        /\ Returns(k) \/ Becomes(k, [k EXCEPT !.left = @ \ {c}])
        /\ UNCHANGED <<durable, issued, faults, recorded, promises>>
  BY DEF RestoreOne
<1> DEFINE next == [k EXCEPT !.left = @ \ {c}]
<1>2. k \in Call /\ CallOK(k) /\ k.proc \in Procs /\ c \in AgentSchedule /\ c \in recorded
  BY <1>1 DEF Base, TypeOK, Call, CallOK
<1>3. svc' \in [Procs -> Service] /\ \A q \in Procs : ProcOK(svc[q])'
  BY <1>1, <1>2, RegisterProc DEF CallsAreLive
<1>4. next \in Call /\ CallOK(next)'
  BY <1>1, <1>2 DEF Call, CallOK, durable
<1>5. Returns(k) \/ Becomes(k, next)
  BY <1>1
<1> HIDE DEF next
<1> QED
  BY <1>1, <1>3, <1>4, <1>5, CallBase DEF Base, TypeOK, durable, promises

\* A call that moves on and leaves its process as it is.
LEMMA CallOnlyBase ==
    ASSUME Base, NEW k \in calls, NEW next \in Call, CallOK(next),
           Becomes(k, next) \/ Returns(k), faults' \in 0 .. MaxFaults,
           UNCHANGED <<durable, svc, issued, recorded, promises>>
    PROVE  Base'
<1>1. CallOK(next)' /\ \A q \in Procs : ProcOK(svc[q])'
  BY DEF CallOK, ProcOK, durable, Base
<1> QED
  BY <1>1, CallBase DEF Base, TypeOK, durable, promises

\* The restored process is looked at next.
LEMMA RestoredAllBase ==
    ASSUME Base, NEW k \in calls, RestoredAll(k)
    PROVE  Base'
<1> DEFINE next == [k EXCEPT !.stage = "look"]
<1>1. Becomes(k, next) /\ UNCHANGED <<durable, svc, issued, faults, recorded, promises>>
  BY DEF RestoredAll
<1>2. next \in Call /\ CallOK(next)
  BY DEF Base, TypeOK, Call, CallOK, Stages
<1> HIDE DEF next
<1> QED
  BY <1>1, <1>2, CallOnlyBase DEF Base, TypeOK

\* The maps of a process make a snapshot.
LEMMA LookBase ==
    ASSUME Base, NEW k \in calls, Look(k)
    PROVE  Base'
<1> DEFINE snapshot == [actors |-> svc[k.proc].specs, open |-> svc[k.proc].own]
           next == [k EXCEPT !.stage = "append", !.snapshot = snapshot]
<1>1. Becomes(k, next) /\ UNCHANGED <<durable, svc, issued, faults, recorded, promises>>
  BY DEF Look
<1>2. k \in Call /\ CallOK(k) /\ svc[k.proc] \in Service
  BY DEF Base, TypeOK, Call
<1>3. snapshot \in ContextSnapshot
  BY <1>2 DEF Service, ContextSnapshot
<1> HIDE DEF snapshot
<1>4. next \in Call /\ CallOK(next)
  BY <1>2, <1>3 DEF Call, CallOK, Stages
<1> HIDE DEF next
<1> QED
  BY <1>1, <1>4, CallOnlyBase DEF Base, TypeOK

\* A refused append ends its call.
LEMMA CallFailsBase ==
    ASSUME Base, NEW k \in calls, CallFails(k)
    PROVE  Base'
<1>1. faults' \in 0 .. MaxFaults
  BY OfficeAssumption DEF CallFails, Fault, Base, TypeOK
<1>2. k \in Call /\ CallOK(k)
  BY DEF Base, TypeOK
<1> QED
  BY <1>1, <1>2, CallOnlyBase DEF CallFails

\* What a snapshot puts in the ledger is recorded; whom it enrols has a spec file.
LEMMA AppendSnapshotBase ==
    ASSUME Base, CallsAreLive, NEW k \in calls, AppendSnapshot(k)
    PROVE  Base'
<1> DEFINE v == [svc[k.proc] EXCEPT !.restored = TRUE]
<1>1. k \in Call /\ CallOK(k) /\ k.snapshot \in ContextSnapshot /\ k.proc \in Procs
  BY DEF Base, TypeOK, Call
<1>2. /\ office' \in ContextSnapshot
      /\ recorded \subseteq recorded' /\ recorded' \subseteq AgentSchedule
      /\ OnRecord(office'.open) \subseteq recorded'
  BY <1>1, WriteSnapshotBase DEF AppendSnapshot
<1>3. svc' \in [Procs -> Service] /\ \A q \in Procs : ProcOK(svc[q])'
  <2>1. CASE svc' = svc
    <3>1. \A q \in Procs : svc'[q] = svc[q] /\ ProcOK(svc[q])
      BY <2>1 DEF Base
    <3> QED
      BY <1>2, <2>1, <3>1 DEF Base, TypeOK, ProcOK
  <2>2. CASE svc' = [svc EXCEPT ![k.proc] = v]
    <3>1. svc[k.proc] \in Service /\ ProcOK(svc[k.proc]) /\ svc[k.proc].phase # "down"
      BY <1>1 DEF Base, TypeOK, CallsAreLive
    <3>2. v \in Service /\ ProcOK(v)
      BY <3>1 DEF Service, ProcOK
    <3> HIDE DEF v
    <3> QED
      BY <1>1, <1>2, <2>2, <3>2, ProcsAfter
  <2> QED
    BY <2>1, <2>2 DEF AppendSnapshot
<1>4. enrolled' \subseteq files
  BY <1>1 DEF AppendSnapshot, Base, TypeOK, CallOK
<1>5. CallOK(k)'
  BY <1>1, <1>2 DEF AppendSnapshot, CallOK
<1> QED
  BY <1>1, <1>2, <1>3, <1>4, <1>5, CallBase DEF AppendSnapshot, Base, TypeOK

\* A step that changes one process and perhaps drops calls or voids promises.
LEMMA ProcBase ==
    ASSUME Base, NEW p \in Procs, NEW v \in Service, ProcOK(v),
           svc' = [svc EXCEPT ![p] = v],
           \A x \in calls' : x \in Call /\ CallOK(x),
           faults' \in 0 .. MaxFaults, wanted' \in Schedules, enrolled' \subseteq files,
           UNCHANGED <<durable, issued, recorded>>
    PROVE  Base'
<1>1. svc' \in [Procs -> Service] /\ \A q \in Procs : ProcOK(svc[q])'
  BY ProcsAfter
<1>2. \A x \in calls' : x \in Call /\ CallOK(x)'
  BY DEF CallOK, durable
<1> QED
  BY <1>1, <1>2 DEF Base, TypeOK, durable

\* A cancelled goroutine is gone.
LEMMA StragglerReturnsBase ==
    ASSUME Base, NEW p \in Procs, StragglerReturns(p)
    PROVE  Base'
<1>1. PICK c \in svc[p].stragglers :
        /\ svc' = [svc EXCEPT ![p].stragglers = @ \ {c}]
        /\ UNCHANGED <<durable, calls, issued, faults, recorded, promises>>
  BY DEF StragglerReturns
<1> DEFINE v == [svc[p] EXCEPT !.stragglers = @ \ {c}]
<1>2. svc' = [svc EXCEPT ![p] = v]
  BY <1>1
<1>3. svc[p] \in Service /\ ProcOK(svc[p])
  BY DEF Base, TypeOK
<1>4. v \in Service /\ ProcOK(v)
  <2>1. svc[p].phase # "down"
    BY <1>3, DownType DEF ProcOK
  <2> QED
    BY <1>3, <2>1 DEF Service, ProcOK
<1> HIDE DEF v
<1> QED
  BY <1>1, <1>2, <1>4, ProcBase DEF Base, TypeOK, promises

\* A process that boots has nothing yet.
LEMMA BootBase ==
    ASSUME Base, NEW p \in Procs, Boot(p)
    PROVE  Base'
<1> DEFINE v == [svc[p] EXCEPT !.phase = "up"]
<1>1. svc' = [svc EXCEPT ![p] = v]
  BY DEF Boot
<1>2. svc[p] \in Service /\ ProcOK(svc[p])
  BY DEF Base, TypeOK
<1>3. v \in Service /\ ProcOK(v)
  BY <1>2 DEF Service, ProcOK
<1> HIDE DEF v
<1> QED
  BY <1>1, <1>3, ProcBase DEF Boot, Base, TypeOK, promises

\* A process that ends has nothing any more.
LEMMA DiesBase ==
    ASSUME Base, NEW p \in Procs, Dies(p), faults' \in 0 .. MaxFaults
    PROVE  Base'
<1>1. ProcOK(Down) /\ Down \in Service
  <2>1. \A s \in Ids : Down.own[s].number = 0
    BY DownType, AbsentType
  <2> QED
    BY <2>1, DownType DEF ProcOK
<1>2. svc' = [svc EXCEPT ![p] = Down] /\ calls' \subseteq calls
  BY DEF Dies
<1> QED
  BY <1>1, <1>2, ProcBase DEF Dies, Base, TypeOK, promises

\* What Stop cancels has been in the ledger, too.
LEMMA StoppedType ==
    ASSUME NEW v \in Service
    PROVE  /\ Stopped(v) \in Service
           /\ Stopped(v).phase = "stopping" /\ ~Stopped(v).running /\ ~Stopped(v).restored
           /\ Stopped(v).specs = v.specs /\ Stopped(v).own = Blank
           /\ \A s \in Ids : Stopped(v).jobs[s] = << >>
           /\ Stopped(v).stragglers = v.stragglers
                \cup UNION {{v.jobs[s][i] : i \in DOMAIN v.jobs[s]} : s \in Ids}
<1> DEFINE late == v.stragglers
                     \cup UNION {{v.jobs[s][i] : i \in DOMAIN v.jobs[s]} : s \in Ids}
           none == [s \in Ids |-> << >>]
<1>1. late \subseteq AgentSchedule
  BY LenProperties, ElementOfSeq DEF Service
<1>2. none \in [Ids -> Seq(AgentSchedule)] /\ \A s \in Ids : none[s] = << >>
  <2>1. << >> \in Seq(AgentSchedule)
    BY EmptySeq
  <2> QED
    BY <2>1
<1>3. Stopped(v) = [v EXCEPT !.phase = "stopping", !.running = FALSE, !.restored = FALSE,
                             !.own = Blank, !.jobs = none, !.stragglers = late]
  BY DEF Stopped, Service
<1> HIDE DEF late, none
<1>4. /\ Stopped(v) \in Service
      /\ Stopped(v).phase = "stopping" /\ ~Stopped(v).running /\ ~Stopped(v).restored
      /\ Stopped(v).specs = v.specs /\ Stopped(v).own = Blank
      /\ Stopped(v).jobs = none /\ Stopped(v).stragglers = late
  BY <1>1, <1>2, <1>3, BlankType DEF Service
<1> QED
  BY <1>2, <1>4 DEF late

\* Shutdown cancels what ticks, all of which was recorded.
LEMMA ShutdownBase ==
    ASSUME Base, NEW p \in Procs, Shutdown(p)
    PROVE  Base'
<1> DEFINE v == Stopped(svc[p])
<1>1. svc[p] \in Service /\ ProcOK(svc[p])
  BY DEF Base, TypeOK
<1>2. svc' = [svc EXCEPT ![p] = v]
  BY DEF Shutdown
<1>3. v \in Service /\ ProcOK(v)
  <2>1. \A s \in Ids : {svc[p].jobs[s][i] : i \in DOMAIN svc[p].jobs[s]} \subseteq recorded
    <3> SUFFICES ASSUME NEW s \in Ids
                 PROVE  {svc[p].jobs[s][i] : i \in DOMAIN svc[p].jobs[s]} \subseteq recorded
      OBVIOUS
    <3>1. CASE svc[p].own[s].number = 0
      <4>1. svc[p].jobs[s] = << >>
        BY <1>1, <3>1 DEF ProcOK
      <4> QED
        BY <4>1
    <3>2. CASE svc[p].own[s].number # 0
      <4>1. svc[p].jobs[s] = << svc[p].own[s] >> /\ svc[p].own[s] \in recorded
        BY <1>1, <3>2 DEF ProcOK
      <4> QED
        BY <4>1
    <3> QED
      BY <3>1, <3>2
  <2>2. \A s \in Ids : Blank[s].number = 0
    BY AbsentType
  <2>3. v.stragglers \subseteq recorded
    BY <1>1, <2>1, StoppedType DEF ProcOK
  <2> HIDE DEF v
  <2>4. /\ v \in Service /\ v.phase = "stopping" /\ v.own = Blank
        /\ \A s \in Ids : v.jobs[s] = << >>
    BY <1>1, StoppedType DEF v
  <2> QED
    BY <2>2, <2>3, <2>4 DEF ProcOK
<1> HIDE DEF v
<1>4. \A x \in calls' : x \in Call /\ CallOK(x)
  <2>1. calls' = {[x EXCEPT !.calm = FALSE] : x \in calls}
    BY DEF Shutdown
  <2>2. \A x \in calls : [x EXCEPT !.calm = FALSE] \in Call /\ CallOK([x EXCEPT !.calm = FALSE])
    BY DEF Base, TypeOK, Call, CallOK
  <2> QED
    BY <2>1, <2>2
<1>5. wanted' \in Schedules /\ enrolled' \subseteq files
  BY BlankType DEF Shutdown, Voided, promises, Base, TypeOK
<1> QED
  BY <1>2, <1>3, <1>4, <1>5, ProcBase DEF Shutdown, Base, TypeOK

-----------------------------------------------------------------------------
(* The promises *)

Above(open) == \A s \in Ids : wanted[s].number <= open[s].number

OffUnwanted(open) == \A s \in Ids : open[s].kind = "off" => wanted[s].number = 0

LedgerPromise ==
    /\ enrolled \subseteq office.actors
    /\ Above(office.open)
    /\ OffUnwanted(office.open)
    /\ \A s \in Ids : wanted[s].number <= issued

\* The maps of a process are as good as the ledger, or their snapshot says
\* nothing of it.
ProcPromise(v) ==
    /\ v.specs = {} \/ enrolled \subseteq v.specs
    /\ v.running => enrolled \subseteq v.specs
    /\ v.restored => Above(v.own)

\* A process that has done nothing yet.
Fresh(v) == v.specs = {} /\ v.own = Blank /\ ~v.running /\ ~v.restored

\* What a call in a calm office holds, stage by stage.
CallPromise(k) ==
    /\ k.actor \subseteq svc[k.proc].specs
    /\ k.stage \in {"log", "register"} =>
        /\ svc[k.proc].restored
        /\ \A c \in k.schedule : c.number <= issued
    /\ k.stage = "log" =>
        /\ Above(k.snapshot.open)
        /\ \A c \in k.schedule, s \in Ids :
            k.snapshot.open[s].kind = "off" => wanted[s].number = 0 \/ s = c.id
    /\ k.stage = "register" => \A c \in k.schedule : office.open[c.id] = c
    /\ k.stage = "restore" =>
        /\ \A c \in k.left : office.open[c.id] = c
        /\ \A s \in Ids :
            \/ wanted[s].number = 0
            \/ office.open[s] \in k.left
            \/ wanted[s].number <= svc[k.proc].own[s].number
    /\ k.stage = "look" =>
        Above(svc[k.proc].own) \/ (svc[k.proc].own = Blank /\ k.op # "scheduler")
    /\ k.stage = "append" =>
        /\ k.actor \subseteq k.snapshot.actors
        /\ k.snapshot.open = Blank \/ (Above(k.snapshot.open) /\ OffUnwanted(k.snapshot.open))
        /\ k.op = "scheduler" => Above(svc[k.proc].own)
    /\ k.snapshot.actors = {} \/ enrolled \subseteq k.snapshot.actors

\* A calm call is alone, and no other process has done anything; while other
\* calls are under way there are no promises.
Calm ==
    /\ CallsAreLive
    /\ \A k \in calls :
        k.calm => /\ calls = {k}
                  /\ \A q \in Procs \ {k.proc} : Fresh(svc[q])
                  /\ CallPromise(k)
    /\ (\E k \in calls : ~k.calm) => wanted = Blank /\ enrolled = {}

Promise ==
    /\ LedgerPromise
    /\ \A p \in Procs : ProcPromise(svc[p])
    /\ Calm

\* Without promises nothing can break them.
LEMMA VoidPromise ==
    ASSUME Base', wanted' = Blank, enrolled' = {}, \A k \in calls' : ~k.calm,
           CallsAreLive'
    PROVE  Promise'
<1>1. \A s \in Ids : wanted'[s].number = 0
  BY AbsentType
<1>2. \A open \in Schedules, s \in Ids : open[s].number \in Nat
  BY SchedulesType
<1>3. \A open \in Schedules : Above(open)'
  BY <1>1, <1>2 DEF Above
<1>4. /\ office'.open \in Schedules /\ issued' \in Nat
      /\ \A p \in Procs : svc'[p].own \in Schedules
  BY OfficeAssumption DEF Base, TypeOK, ContextSnapshot, Service
<1>5. LedgerPromise'
  BY <1>1, <1>3, <1>4 DEF LedgerPromise, OffUnwanted, Above
<1>6. \A p \in Procs : ProcPromise(svc[p])'
  BY <1>3, <1>4 DEF ProcPromise, Above
<1>7. Calm'
  BY DEF Calm
<1> QED
  BY <1>5, <1>6, <1>7 DEF Promise

\* A calm step is about one process and leaves one call, or none.
LEMMA CalmPromise ==
    ASSUME NEW p \in Procs, NEW next, LedgerPromise',
           \A q \in Procs : ProcPromise(svc[q])',
           \/ calls' = {}
           \/ /\ calls' = {next} /\ next.calm /\ next.proc = p
              /\ svc'[p].phase # "down" /\ CallPromise(next)'
              /\ \A q \in Procs \ {p} : Fresh(svc'[q])
    PROVE  Promise'
<1>1. CASE calls' = {}
  BY <1>1 DEF Promise, Calm, CallsAreLive
<1>2. CASE calls' # {}
  BY <1>2 DEF Promise, Calm, CallsAreLive, Fresh
<1> QED
  BY <1>1, <1>2

\* Whether a call is calm is no part of what it holds.
LEMMA CallPromiseCalm ==
    ASSUME NEW k \in Call, NEW b \in BOOLEAN
    PROVE  LET x == [k EXCEPT !.calm = b] IN
           /\ x \in Call /\ x.calm = b /\ x.proc = k.proc
           /\ CallPromise(k)' => CallPromise(x)'
<1> DEFINE x == [k EXCEPT !.calm = b]
<1>1. /\ x \in Call /\ x.calm = b /\ x.proc = k.proc /\ x.op = k.op /\ x.stage = k.stage
      /\ x.schedule = k.schedule /\ x.left = k.left /\ x.actor = k.actor
      /\ x.snapshot = k.snapshot
  BY DEF Call
<1> HIDE DEF x
<1>2. CallPromise(k)' => CallPromise(x)'
  BY <1>1 DEF CallPromise
<1> QED
  BY <1>1, <1>2 DEF x

\* A process that has done nothing makes any promise.
LEMMA FreshPromise ==
    ASSUME NEW v, Fresh(v)
    PROVE  ProcPromise(v)'
  BY DEF Fresh, ProcPromise

\* A call begins and the office stays calm, or it ends what was promised.
BeginsCalm(p, call) ==
    /\ calls = {} /\ OnlyProcess(p) /\ UNCHANGED promises
    /\ calls' = {[call EXCEPT !.calm = TRUE]}

BeginsVoid(call) ==
    /\ Voided
    /\ calls' = {[k EXCEPT !.calm = FALSE] : k \in calls \cup {call}}

\* A call that begins, calm or not.
LEMMA BeginPromise ==
    ASSUME Base, Promise, Base', NEW p \in Procs, NEW call \in Call, call.proc = p,
           NEW v \in Service, svc' = [svc EXCEPT ![p] = v], v.phase = "up",
           office' = office, issued <= issued',
           BeginsVoid(call) \/ (BeginsCalm(p, call) /\ ProcPromise(v) /\ CallPromise(call)')
    PROVE  Promise'
<1>1. /\ svc'[p] = v /\ \A q \in Procs \ {p} : svc'[q] = svc[q]
      /\ \A k \in calls : k \in Call /\ k.proc \in Procs
      /\ issued \in Nat /\ issued' \in Nat
      /\ \A s \in Ids : wanted[s].number \in Nat
  BY SchedulesType DEF Base, TypeOK, Call
<1>2. CASE BeginsCalm(p, call) /\ ProcPromise(v) /\ CallPromise(call)'
  <2>1. PICK next : next = [call EXCEPT !.calm = TRUE]
    OBVIOUS
  <2>2. next \in Call /\ next.calm /\ next.proc = p /\ CallPromise(next)'
    BY <1>2, <2>1, CallPromiseCalm DEF BeginsCalm
  <2>3. \A q \in Procs \ {p} : Fresh(svc[q])
    BY <1>2, DownType DEF BeginsCalm, OnlyProcess, Base, ProcOK, Fresh
  <2>4. \A q \in Procs \ {p} : Fresh(svc'[q])
    BY <1>1, <2>3
  <2>5. ProcPromise(svc[p])'
    BY <1>1, <1>2 DEF BeginsCalm, ProcPromise, Above, promises
  <2>6. \A q \in Procs \ {p} : ProcPromise(svc[q])'
    BY <1>1, <2>3 DEF Fresh, ProcPromise
  <2>7. LedgerPromise'
    BY <1>1, <1>2 DEF BeginsCalm, Promise, LedgerPromise, Above, OffUnwanted, promises
  <2> QED
    BY <1>1, <1>2, <2>1, <2>2, <2>4, <2>5, <2>6, <2>7, CalmPromise DEF BeginsCalm
<1>3. CASE BeginsVoid(call)
  <2>1. \A x \in calls' : \E k \in calls \cup {call} :
          k \in Call /\ ~x.calm /\ x.proc = k.proc
    <3>1. \A k \in Call :
            [k EXCEPT !.calm = FALSE].calm = FALSE /\ [k EXCEPT !.calm = FALSE].proc = k.proc
      BY DEF Call
    <3>2. calls' = {[k EXCEPT !.calm = FALSE] : k \in calls \cup {call}}
      BY <1>3 DEF BeginsVoid
    <3>3. \A k \in calls \cup {call} : k \in Call
      BY <1>1
    <3> SUFFICES ASSUME NEW x \in calls'
                 PROVE  \E k \in calls \cup {call} : k \in Call /\ ~x.calm /\ x.proc = k.proc
      OBVIOUS
    <3>4. PICK k \in calls \cup {call} : x = [k EXCEPT !.calm = FALSE]
      BY <3>2
    <3> QED
      BY <3>1, <3>3, <3>4
  <2>2. \A k \in calls \cup {call} : svc'[k.proc].phase # "down"
    BY <1>1 DEF Promise, Calm, CallsAreLive
  <2>3. CallsAreLive' /\ \A k \in calls' : ~k.calm
    BY <2>1, <2>2 DEF CallsAreLive
  <2> QED
    BY <1>3, <2>3, VoidPromise DEF BeginsVoid, Voided
<1> QED
  BY <1>2, <1>3

\* A calm StartCoordinator finds its process restored, or without schedules.
LEMMA StartCoordinatorPromise ==
    ASSUME Base, Promise, Base', NEW c \in Callers, NEW p \in Procs, StartCoordinator(c, p)
    PROVE  Promise'
<1>1. PICK call : call = NewCall(c, p, "coordinator", "look")
  OBVIOUS
<1>2. PICK v : v = [svc[p] EXCEPT !.named = TRUE]
  OBVIOUS
<1>3. /\ Begin(c, p, call, ~HalfRestored(p)) /\ svc' = [svc EXCEPT ![p] = v]
      /\ UNCHANGED <<office, issued>>
  BY <1>1, <1>2 DEF StartCoordinator, durable
<1>4. /\ call \in Call /\ call.proc = p /\ call.op = "coordinator" /\ call.stage = "look"
      /\ call.actor = {} /\ call.snapshot.actors = {}
  BY <1>1, NewCallType, NothingType DEF Operations, Stages
<1>5. svc[p] \in Service /\ svc[p].phase = "up" /\ ProcPromise(svc[p])
  BY <1>3 DEF Begin, Base, TypeOK, Promise
<1>6. /\ v \in Service /\ v.phase = "up" /\ v.specs = svc[p].specs /\ v.own = svc[p].own
      /\ v.running = svc[p].running /\ v.restored = svc[p].restored
  BY <1>2, <1>5 DEF Service
<1>7. ProcPromise(v) /\ svc'[p] = v
  BY <1>3, <1>5, <1>6 DEF ProcPromise, Base, TypeOK
<1>8. ~HalfRestored(p) /\ UNCHANGED promises => CallPromise(call)'
  BY <1>4, <1>6, <1>7 DEF CallPromise, HalfRestored, ProcPromise, Above, promises
<1>9. BeginsVoid(call) \/ (BeginsCalm(p, call) /\ ProcPromise(v) /\ CallPromise(call)')
  BY <1>3, <1>7, <1>8 DEF Begin, BeginsCalm, BeginsVoid
<1>10. issued <= issued' /\ office' = office
  BY <1>3 DEF Base, TypeOK
<1> QED
  BY <1>3, <1>4, <1>6, <1>9, <1>10, BeginPromise

\* Enrolled actors have spec files, so StartRuntime has them all.
LEMMA StartRuntimePromise ==
    ASSUME Base, Promise, Base', NEW c \in Callers, NEW p \in Procs, StartRuntime(c, p)
    PROVE  Promise'
<1>1. PICK call : call = NewCall(c, p, "runtime", "look")
  OBVIOUS
<1>2. PICK specs : specs = IF svc[p].running THEN svc[p].specs ELSE svc[p].specs \cup files
  OBVIOUS
<1>3. PICK v : v = [svc[p] EXCEPT !.named = TRUE, !.running = TRUE, !.specs = specs]
  OBVIOUS
<1>4. /\ Begin(c, p, call, ~HalfRestored(p)) /\ svc' = [svc EXCEPT ![p] = v]
      /\ UNCHANGED <<office, issued>>
  BY <1>1, <1>2, <1>3 DEF StartRuntime, durable
<1>5. /\ call \in Call /\ call.proc = p /\ call.op = "runtime" /\ call.stage = "look"
      /\ call.actor = {} /\ call.snapshot.actors = {}
  BY <1>1, NewCallType, NothingType DEF Operations, Stages
<1>6. /\ svc[p] \in Service /\ svc[p].phase = "up" /\ ProcPromise(svc[p])
      /\ enrolled \subseteq files
  BY <1>4 DEF Begin, Base, TypeOK, Promise
<1> specs \subseteq Actors
  BY <1>2, <1>6 DEF Base, TypeOK, Service
<1>7. /\ v \in Service /\ v.phase = "up" /\ v.specs = specs /\ v.own = svc[p].own
      /\ v.restored = svc[p].restored
  BY <1>3, <1>6 DEF Service
<1>8. enrolled \subseteq specs
  BY <1>2, <1>6 DEF ProcPromise
<1>9. ProcPromise(v) /\ svc'[p] = v
  BY <1>4, <1>6, <1>7, <1>8 DEF ProcPromise, Base, TypeOK
<1>10. ~HalfRestored(p) /\ UNCHANGED promises => CallPromise(call)'
  BY <1>5, <1>7, <1>9 DEF CallPromise, HalfRestored, ProcPromise, Above, promises
<1>11. BeginsVoid(call) \/ (BeginsCalm(p, call) /\ ProcPromise(v) /\ CallPromise(call)')
  BY <1>4, <1>9, <1>10 DEF Begin, BeginsCalm, BeginsVoid
<1>12. issued <= issued' /\ office' = office
  BY <1>4 DEF Base, TypeOK
<1> QED
  BY <1>4, <1>5, <1>7, <1>11, <1>12, BeginPromise

\* A runtime that was started has all enrolled actors and this one.
LEMMA RegisterActorPromise ==
    ASSUME Base, Promise, Base', NEW c \in Callers, NEW p \in Procs, NEW a \in Actors,
           RegisterActor(c, p, a)
    PROVE  Promise'
<1> DEFINE ready == svc[p].running /\ ~HalfRestored(p)
<1>1. PICK new : new = NewCall(c, p, "actor", "look")
  OBVIOUS
<1>2. PICK call : call = [new EXCEPT !.actor = {a}]
  OBVIOUS
<1>3. PICK v : v = [svc[p] EXCEPT !.actors = @ \cup {a}, !.specs = @ \cup {a}]
  OBVIOUS
<1>4. /\ Begin(c, p, call, ready) /\ svc' = [svc EXCEPT ![p] = v]
      /\ UNCHANGED <<office, issued>>
  BY <1>1, <1>2, <1>3 DEF RegisterActor
<1>5. new \in Call /\ new.proc = p /\ new.op = "actor" /\ new.stage = "look"
      /\ new.snapshot.actors = {}
  BY <1>1, NewCallType, NothingType DEF Operations, Stages
<1>6. /\ call \in Call /\ call.proc = p /\ call.op = "actor" /\ call.stage = "look"
      /\ call.actor = {a} /\ call.snapshot.actors = {}
  BY <1>2, <1>5 DEF Call
<1>7. svc[p] \in Service /\ svc[p].phase = "up" /\ ProcPromise(svc[p])
  BY <1>4 DEF Begin, Base, TypeOK, Promise
<1>8. /\ v \in Service /\ v.phase = "up" /\ v.specs = svc[p].specs \cup {a} /\ v.own = svc[p].own
      /\ v.running = svc[p].running /\ v.restored = svc[p].restored
  BY <1>3, <1>7 DEF Service
<1>9. svc'[p] = v
  BY <1>4 DEF Base, TypeOK
<1>10. ready => ProcPromise(v)
  BY <1>7, <1>8 DEF ProcPromise
<1>11. ready /\ UNCHANGED promises => CallPromise(call)'
  BY <1>6, <1>7, <1>8, <1>9 DEF CallPromise, HalfRestored, ProcPromise, Above, promises
<1>12. BeginsVoid(call) \/ (BeginsCalm(p, call) /\ ProcPromise(v) /\ CallPromise(call)')
  BY <1>4, <1>10, <1>11 DEF Begin, BeginsCalm, BeginsVoid
<1>13. issued <= issued' /\ office' = office
  BY <1>4 DEF Base, TypeOK
<1> QED
  BY <1>4, <1>6, <1>8, <1>12, <1>13, BeginPromise

\* A call that begins without touching its process.
LEMMA BeginOnlyPromise ==
    ASSUME Base, Promise, Base', NEW p \in Procs, NEW call \in Call, call.proc = p,
           svc[p].phase = "up", issued <= issued', UNCHANGED <<office, svc>>,
           BeginsVoid(call) \/ (BeginsCalm(p, call) /\ CallPromise(call)')
    PROVE  Promise'
<1>1. PICK v : v = svc[p]
  OBVIOUS
<1>2. svc' = [svc EXCEPT ![p] = v]
  BY <1>1 DEF Base, TypeOK
<1>3. v \in Service /\ v.phase = "up" /\ ProcPromise(v)
  BY <1>1 DEF Promise, Base, TypeOK
<1> QED
  BY <1>2, <1>3, BeginPromise

\* The context that was read has all that is wanted; the new revision is later.
LEMMA RegisterSchedulePromise ==
    ASSUME Base, Promise, Base', NEW c \in Callers, NEW p \in Procs, NEW s \in Ids,
           NEW kind \in Kinds, RegisterSchedule(c, p, s, kind)
    PROVE  Promise'
<1>1. PICK schedule : schedule = [id |-> s, number |-> issued + 1, kind |-> kind]
  OBVIOUS
<1>2. PICK new : new = NewCall(c, p, "schedule", "log")
  OBVIOUS
<1>3. PICK snapshot : snapshot = [office EXCEPT !.open = Upsert(@, schedule)]
  OBVIOUS
<1>4. PICK call : call = [new EXCEPT !.schedule = {schedule}, !.snapshot = snapshot]
  OBVIOUS
<1>5. /\ Begin(c, p, call, svc[p].restored) /\ issued' = issued + 1
      /\ UNCHANGED <<office, svc>>
  BY <1>1, <1>2, <1>3, <1>4 DEF RegisterSchedule, durable
<1>6. issued \in Nat /\ office \in ContextSnapshot /\ schedule \in AgentSchedule
  BY <1>1 DEF Base, TypeOK, AgentSchedule
<1>7. /\ snapshot \in ContextSnapshot /\ snapshot.actors = office.actors
      /\ snapshot.open[s] = schedule
      /\ \A t \in Ids \ {s} : snapshot.open[t] = office.open[t]
  BY <1>1, <1>3, <1>6, UpsertType DEF ContextSnapshot
<1>8. new \in Call /\ new.proc = p /\ new.stage = "log" /\ new.actor = {}
  BY <1>2, NewCallType DEF Operations, Stages
<1>9. /\ call \in Call /\ call.proc = p /\ call.stage = "log" /\ call.actor = {}
      /\ call.schedule = {schedule} /\ call.snapshot = snapshot
  BY <1>4, <1>6, <1>7, <1>8 DEF Call
<1>10. /\ \A t \in Ids : wanted[t].number <= issued /\ wanted[t].number \in Nat
       /\ Above(office.open) /\ OffUnwanted(office.open)
       /\ enrolled \subseteq office.actors
  BY SchedulesType DEF Promise, LedgerPromise, Base, TypeOK
<1>11. schedule.number = issued + 1 /\ schedule.id = s
  BY <1>1
<1>12. svc[p].restored /\ UNCHANGED promises => CallPromise(call)'
  <2> SUFFICES ASSUME svc[p].restored, UNCHANGED promises
               PROVE  CallPromise(call)'
    OBVIOUS
  <2>1. wanted' = wanted /\ enrolled' = enrolled /\ svc' = svc
    BY <1>5 DEF promises
  <2>2. \A t \in Ids : wanted[t].number <= snapshot.open[t].number
    BY <1>6, <1>7, <1>10, <1>11 DEF Above
  <2>3. \A t \in Ids : snapshot.open[t].kind = "off" => wanted[t].number = 0 \/ t = s
    BY <1>7, <1>10 DEF OffUnwanted
  <2>4. schedule.number <= issued'
    BY <1>5, <1>6, <1>11
  <2> QED
    BY <1>7, <1>9, <1>10, <1>11, <2>1, <2>2, <2>3, <2>4 DEF CallPromise, Above
<1>13. BeginsVoid(call) \/ (BeginsCalm(p, call) /\ CallPromise(call)')
  BY <1>5, <1>12 DEF Begin, BeginsCalm, BeginsVoid
<1>14. svc[p].phase = "up" /\ issued <= issued'
  BY <1>5, <1>6 DEF Begin
<1> QED
  BY <1>5, <1>9, <1>13, <1>14, BeginOnlyPromise

\* What is wanted is on record, so it is left to restore.
LEMMA StartSchedulerPromise ==
    ASSUME Base, Promise, Base', NEW c \in Callers, NEW p \in Procs, StartScheduler(c, p)
    PROVE  Promise'
<1>1. PICK new : new = NewCall(c, p, "scheduler", "restore")
  OBVIOUS
<1>2. PICK left : left = OnRecord(office.open)
  OBVIOUS
<1>3. PICK call : call = [new EXCEPT !.left = left]
  OBVIOUS
<1>4. Begin(c, p, call, TRUE) /\ UNCHANGED <<durable, svc, issued>>
  BY <1>1, <1>2, <1>3 DEF StartScheduler
<1>5. /\ new \in Call /\ new.proc = p /\ new.stage = "restore" /\ new.actor = {}
      /\ new.snapshot.actors = {}
  BY <1>1, NewCallType, NothingType DEF Operations, Stages
<1>6. office.open \in Schedules /\ left \subseteq AgentSchedule
      /\ \A d \in left : office.open[d.id] = d
  BY <1>2, OnRecordType DEF Base, TypeOK, ContextSnapshot
<1>7. /\ call \in Call /\ call.proc = p /\ call.stage = "restore" /\ call.actor = {}
      /\ call.snapshot.actors = {} /\ call.left = left
  BY <1>3, <1>5, <1>6 DEF Call
<1>8. \A s \in Ids : wanted[s].number = 0 \/ office.open[s] \in left
  <2> SUFFICES ASSUME NEW s \in Ids PROVE wanted[s].number = 0 \/ office.open[s] \in left
    OBVIOUS
  <2>1. wanted[s].number <= office.open[s].number /\ wanted[s].number \in Nat
    BY SchedulesType DEF Promise, LedgerPromise, Above, Base, TypeOK
  <2>2. office.open[s].number = 0 \/ office.open[s] \in left
    BY <1>2, <1>6, SchedulesType
  <2> QED
    BY <2>1, <2>2
<1>9. UNCHANGED promises => CallPromise(call)'
  BY <1>4, <1>6, <1>7, <1>8 DEF CallPromise, promises, durable
<1>10. BeginsVoid(call) \/ (BeginsCalm(p, call) /\ CallPromise(call)')
  BY <1>4, <1>9 DEF Begin, BeginsCalm, BeginsVoid
<1>11. svc[p].phase = "up" /\ issued <= issued' /\ UNCHANGED <<office, svc>>
  BY <1>4 DEF Begin, Base, TypeOK, durable
<1> QED
  BY <1>7, <1>10, <1>11, BeginOnlyPromise

\* The context that was read has all that was promised.
LEMMA AppendVoiceEventPromise ==
    ASSUME Base, Promise, Base', NEW c \in Callers, NEW p \in Procs, AppendVoiceEvent(c, p)
    PROVE  Promise'
<1>1. PICK new : new = NewCall(c, p, "voice", "append")
  OBVIOUS
<1>2. PICK snapshot : snapshot = office
  OBVIOUS
<1>3. PICK call : call = [new EXCEPT !.snapshot = snapshot]
  OBVIOUS
<1>4. Begin(c, p, call, TRUE) /\ UNCHANGED <<durable, svc, issued>>
  BY <1>1, <1>2, <1>3 DEF AppendVoiceEvent
<1>5. /\ new \in Call /\ new.proc = p /\ new.stage = "append" /\ new.actor = {}
      /\ new.op = "voice"
  BY <1>1, NewCallType DEF Operations, Stages
<1>6. /\ call \in Call /\ call.proc = p /\ call.stage = "append" /\ call.actor = {}
      /\ call.op = "voice" /\ call.snapshot = snapshot
  BY <1>2, <1>3, <1>5 DEF Call, Base, TypeOK
<1>7. Above(snapshot.open) /\ OffUnwanted(snapshot.open) /\ enrolled \subseteq snapshot.actors
  BY <1>2 DEF Promise, LedgerPromise
<1>8. UNCHANGED promises => CallPromise(call)'
  BY <1>6, <1>7 DEF CallPromise, Above, OffUnwanted, promises
<1>9. BeginsVoid(call) \/ (BeginsCalm(p, call) /\ CallPromise(call)')
  BY <1>4, <1>8 DEF Begin, BeginsCalm, BeginsVoid
<1>10. svc[p].phase = "up" /\ issued <= issued' /\ UNCHANGED <<office, svc>>
  BY <1>4 DEF Begin, Base, TypeOK, durable
<1> QED
  BY <1>6, <1>9, <1>10, BeginOnlyPromise

\* A step of a call that is under way.
LEMMA CallStepPromise ==
    ASSUME Base, Promise, Base', NEW k \in calls, NEW next \in Call,
           next.calm = k.calm, next.proc = k.proc,
           \A q \in Procs \ {k.proc} : svc'[q] = svc[q],
           svc'[k.proc].phase = svc[k.proc].phase,
           Returns(k) \/ (Becomes(k, next) /\ (k.calm => CallPromise(next)')),
           k.calm => LedgerPromise' /\ ProcPromise(svc[k.proc])',
           wanted = Blank /\ enrolled = {} /\ ~k.calm => wanted' = Blank /\ enrolled' = {}
    PROVE  Promise'
<1>1. /\ k.proc \in Procs
      /\ \A x \in calls : x \in Call /\ x.proc \in Procs /\ svc[x.proc].phase # "down"
  BY DEF Base, TypeOK, Call, Promise, Calm, CallsAreLive
<1>2. calls' \subseteq (calls \ {k}) \cup {next}
  BY DEF Returns, Becomes
<1>3. CASE k.calm
  <2>1. calls = {k} /\ \A q \in Procs \ {k.proc} : Fresh(svc[q])
    BY <1>3 DEF Promise, Calm
  <2>2. \A q \in Procs : ProcPromise(svc[q])'
    <3>1. \A q \in Procs \ {k.proc} : Fresh(svc'[q])
      BY <2>1
    <3>2. \A q \in Procs \ {k.proc} : ProcPromise(svc[q])'
      BY <3>1 DEF Fresh, ProcPromise
    <3> QED
      BY <1>3, <3>2
  <2>3. CASE Returns(k)
    BY <1>1, <1>3, <2>1, <2>2, <2>3, CalmPromise DEF Returns
  <2>4. CASE Becomes(k, next) /\ CallPromise(next)'
    <3>1. calls' = {next}
      BY <2>1, <2>4 DEF Becomes
    <3>2. svc'[k.proc].phase # "down" /\ \A q \in Procs \ {k.proc} : Fresh(svc'[q])
      BY <1>1, <2>1
    <3> QED
      BY <1>1, <1>3, <2>2, <2>4, <3>1, <3>2, CalmPromise
  <2> QED
    BY <1>3, <2>3, <2>4
<1>4. CASE ~k.calm
  <2>1. wanted = Blank /\ enrolled = {} /\ \A x \in calls : ~x.calm
    BY <1>4 DEF Promise, Calm
  <2>2. CallsAreLive'
    BY <1>1, <1>2 DEF CallsAreLive
  <2>3. \A x \in calls' : ~x.calm
    BY <1>2, <1>4, <2>1
  <2> QED
    BY <1>4, <2>1, <2>2, <2>3, VoidPromise
<1> QED
  BY <1>3, <1>4

\* What the invariant says of a calm call.
LEMMA CalmFacts ==
    ASSUME Base, Promise, NEW k \in calls
    PROVE  /\ k \in Call /\ CallOK(k) /\ k.proc \in Procs /\ svc[k.proc] \in Service
           /\ ProcPromise(svc[k.proc]) /\ ProcOK(svc[k.proc]) /\ CallsAreLive
           /\ LedgerPromise /\ issued \in Nat /\ office \in ContextSnapshot
           /\ wanted \in Schedules /\ \A s \in Ids : wanted[s].number \in Nat
           /\ k.calm => CallPromise(k)
  BY SchedulesType DEF Base, TypeOK, Call, Promise, Calm

\* The logged context has all that is wanted; a disabled schedule no longer is.
LEMMA LogSchedulePromise ==
    ASSUME Base, Promise, Base', NEW k \in calls, LogSchedule(k)
    PROVE  Promise'
<1>1. PICK c \in k.schedule :
        /\ k.stage = "log" /\ WriteSnapshot(k.snapshot)
        /\ wanted' = IF c.kind = "off" THEN [wanted EXCEPT ![c.id] = Absent(c.id)] ELSE wanted
        /\ Becomes(k, [k EXCEPT !.stage = "register", !.snapshot = Nothing])
        /\ UNCHANGED <<files, svc, issued, faults, enrolled>>
  BY DEF LogSchedule
<1>2. PICK next : next = [k EXCEPT !.stage = "register", !.snapshot = Nothing]
  OBVIOUS
<1>3. /\ k \in Call /\ CallOK(k) /\ svc[k.proc] \in Service
      /\ ProcPromise(svc[k.proc]) /\ LedgerPromise /\ office \in ContextSnapshot
      /\ wanted \in Schedules /\ \A s \in Ids : wanted[s].number \in Nat
      /\ k.calm => CallPromise(k)
  BY CalmFacts
<1>4. /\ next \in Call /\ next.calm = k.calm /\ next.proc = k.proc
      /\ next.stage = "register" /\ next.actor = k.actor /\ next.schedule = k.schedule
      /\ next.snapshot = Nothing
  BY <1>2, <1>3, NothingType DEF Call, Stages
<1>5. /\ k.snapshot \in ContextSnapshot /\ k.snapshot.open \in Schedules
      /\ k.schedule \subseteq AgentSchedule
      /\ \A d \in k.schedule : d.id \in Ids /\ d.number # 0 /\ k.snapshot.open[d.id] = d
  BY <1>1, <1>3 DEF Call, CallOK, ContextSnapshot, AgentSchedule
<1>6. office' = Merged(office, k.snapshot) /\ office'.open = k.snapshot.open
  <2>1. k.snapshot.open # Blank
    BY <1>5, AbsentType
  <2> QED
    BY <1>1, <1>3, <1>5, <2>1, MergedType DEF WriteSnapshot
<1>7. \A s \in Ids :
        /\ wanted'[s].number <= wanted[s].number /\ wanted'[s].number \in Nat
        /\ wanted[s].number = 0 => wanted'[s].number = 0
        /\ c.kind = "off" /\ s = c.id => wanted'[s].number = 0
  <2>1. CASE c.kind # "off"
    BY <1>1, <1>3, <2>1
  <2>2. CASE c.kind = "off"
    <3>1. wanted' = [wanted EXCEPT ![c.id] = Absent(c.id)] /\ Absent(c.id).number = 0
      BY <1>1, <1>5, <2>2, AbsentType
    <3>2. wanted'[c.id].number = 0 /\ \A s \in Ids \ {c.id} : wanted'[s] = wanted[s]
      BY <1>3, <1>5, <3>1 DEF Schedules
    <3> QED
      BY <1>3, <3>2
  <2> QED
    BY <2>1, <2>2
<1>8. k.calm => LedgerPromise' /\ ProcPromise(svc[k.proc])'
  <2> SUFFICES ASSUME k.calm PROVE LedgerPromise' /\ ProcPromise(svc[k.proc])'
    OBVIOUS
  <2>1. enrolled' \subseteq office'.actors
    <3>1. k.snapshot.actors = {} \/ enrolled \subseteq k.snapshot.actors
      BY <1>3 DEF CallPromise
    <3> QED
      BY <1>1, <1>3, <1>5, <1>6, <3>1, MergedType DEF LedgerPromise
  <2>2. \A s \in Ids : wanted[s].number <= k.snapshot.open[s].number
                         /\ k.snapshot.open[s].number \in Nat
    BY <1>1, <1>3, <1>5, SchedulesType DEF CallPromise, Above
  <2>3. Above(office.open)'
    BY <1>3, <1>6, <1>7, <2>2 DEF Above
  <2>4. \A s \in Ids : k.snapshot.open[s].kind = "off" => wanted'[s].number = 0
    <3> SUFFICES ASSUME NEW s \in Ids, k.snapshot.open[s].kind = "off"
                 PROVE  wanted'[s].number = 0
      OBVIOUS
    <3>1. wanted[s].number = 0 \/ s = c.id
      BY <1>1, <1>3 DEF CallPromise
    <3> QED
      BY <1>5, <1>7, <3>1
  <2>5. OffUnwanted(office.open)'
    BY <1>6, <2>4 DEF OffUnwanted
  <2>6. \A s \in Ids : wanted'[s].number <= issued'
    BY <1>1, <1>3, <1>7, CalmFacts DEF LedgerPromise
  <2>7. ProcPromise(svc[k.proc])'
    <3>1. svc[k.proc].restored => \A s \in Ids : wanted[s].number <= svc[k.proc].own[s].number
                                               /\ svc[k.proc].own[s].number \in Nat
      BY <1>3, SchedulesType DEF ProcPromise, Above, Service
    <3>2. svc[k.proc].restored => \A s \in Ids : wanted'[s].number <= svc[k.proc].own[s].number
      BY <1>3, <1>7, <3>1
    <3> QED
      BY <1>1, <1>3, <3>2 DEF ProcPromise, Above
  <2> QED
    BY <2>1, <2>3, <2>5, <2>6, <2>7 DEF LedgerPromise
<1>9. k.calm => CallPromise(next)'
  BY <1>1, <1>3, <1>4, <1>5, <1>6, NothingType DEF CallPromise
<1>10. wanted = Blank /\ enrolled = {} /\ ~k.calm => wanted' = Blank /\ enrolled' = {}
  <2>1. Blank = [Blank EXCEPT ![c.id] = Absent(c.id)]
    BY <1>5, AbsentType DEF Blank
  <2> QED
    BY <1>1, <2>1
<1> QED
  BY <1>1, <1>2, <1>4, <1>8, <1>9, <1>10, CallStepPromise

\* The schedule the scheduler took is wanted from now on, and on record.
LEMMA RegisterLoggedPromise ==
    ASSUME Base, Promise, Base', NEW k \in calls, RegisterLogged(k)
    PROVE  Promise'
<1>1. PICK c \in k.schedule :
        /\ k.stage = "register" /\ Register(k.proc, c)
        /\ wanted' = IF Takes(c) /\ k.calm THEN [wanted EXCEPT ![c.id] = c] ELSE wanted
        /\ Returns(k) \/ Becomes(k, [k EXCEPT !.stage = "look"])
        /\ UNCHANGED <<durable, issued, faults, recorded, enrolled>>
  BY DEF RegisterLogged
<1>2. PICK next : next = [k EXCEPT !.stage = "look"]
  OBVIOUS
<1>3. /\ k \in Call /\ CallOK(k) /\ k.proc \in Procs /\ svc[k.proc] \in Service
      /\ ProcPromise(svc[k.proc]) /\ CallsAreLive /\ LedgerPromise /\ issued \in Nat
      /\ wanted \in Schedules /\ \A s \in Ids : wanted[s].number \in Nat
      /\ k.calm => CallPromise(k)
  BY CalmFacts
<1>4. /\ next \in Call /\ next.calm = k.calm /\ next.proc = k.proc
      /\ next.stage = "look" /\ next.actor = k.actor /\ next.snapshot = k.snapshot
  BY <1>2, <1>3 DEF Call, Stages
<1>5. c \in AgentSchedule /\ c \in recorded /\ c.id \in Ids /\ c.number \in Nat
  BY <1>1, <1>3 DEF Call, CallOK, AgentSchedule
<1>6. /\ \A q \in Procs \ {k.proc} : svc'[q] = svc[q]
      /\ \A s \in Ids \ {c.id} : svc'[k.proc].own[s] = svc[k.proc].own[s]
      /\ svc'[k.proc].own[c.id] = IF Takes(c) THEN c ELSE svc[k.proc].own[c.id]
      /\ svc'[k.proc].specs = svc[k.proc].specs
      /\ svc'[k.proc].phase = svc[k.proc].phase
      /\ svc'[k.proc].running = svc[k.proc].running
      /\ svc'[k.proc].restored = svc[k.proc].restored
  BY <1>1, <1>3, <1>5, RegisterProc DEF CallsAreLive
<1>7. k.calm => LedgerPromise' /\ Above(svc[k.proc].own)'
  <2> SUFFICES ASSUME k.calm PROVE LedgerPromise' /\ Above(svc[k.proc].own)'
    OBVIOUS
  <2>1. /\ svc[k.proc].restored /\ c.number <= issued /\ office.open[c.id] = c
        /\ office' = office /\ issued' = issued /\ enrolled' = enrolled
    BY <1>1, <1>3 DEF CallPromise, durable
  <2>2. Above(svc[k.proc].own)
    BY <1>3, <2>1 DEF ProcPromise
  <2>3. /\ \A s \in Ids \ {c.id} : wanted'[s] = wanted[s]
        /\ wanted'[c.id] = IF Takes(c) THEN c ELSE wanted[c.id]
    BY <1>1, <1>3, <1>5 DEF Schedules
  <2>4. Above(svc[k.proc].own)'
    BY <1>5, <1>6, <2>2, <2>3 DEF Above
  <2>5. Above(office.open)'
    BY <1>3, <1>5, <2>1, <2>3 DEF LedgerPromise, Above
  <2>6. OffUnwanted(office.open)'
    BY <1>3, <2>1, <2>3 DEF LedgerPromise, OffUnwanted, Takes
  <2>7. \A s \in Ids : wanted'[s].number <= issued'
    BY <1>3, <2>1, <2>3 DEF LedgerPromise
  <2>8. enrolled' \subseteq office'.actors
    BY <1>3, <2>1 DEF LedgerPromise
  <2> QED
    BY <2>4, <2>5, <2>6, <2>7, <2>8 DEF LedgerPromise
<1>8. k.calm => ProcPromise(svc[k.proc])'
  BY <1>1, <1>3, <1>6, <1>7 DEF ProcPromise
<1>9. k.calm => CallPromise(next)'
  BY <1>1, <1>3, <1>4, <1>6, <1>7 DEF CallPromise
<1>10. wanted = Blank /\ enrolled = {} /\ ~k.calm => wanted' = Blank /\ enrolled' = {}
  BY <1>1
<1> QED
  BY <1>1, <1>2, <1>4, <1>6, <1>7, <1>8, <1>9, <1>10, CallStepPromise

\* A restored schedule is at least the wanted one; one not restored is not wanted.
LEMMA RestoreOnePromise ==
    ASSUME Base, Promise, Base', NEW k \in calls, RestoreOne(k)
    PROVE  Promise'
<1>1. PICK c \in k.left :
        /\ k.stage = "restore" /\ Register(k.proc, c)
        /\ Returns(k) \/ (c.kind # "bad" /\ Becomes(k, [k EXCEPT !.left = @ \ {c}]))
        /\ UNCHANGED <<durable, issued, faults, recorded, promises>>
  BY DEF RestoreOne
<1>2. PICK next : next = [k EXCEPT !.left = @ \ {c}]
  OBVIOUS
<1>3. /\ k \in Call /\ CallOK(k) /\ k.proc \in Procs /\ svc[k.proc] \in Service
      /\ ProcPromise(svc[k.proc]) /\ CallsAreLive /\ LedgerPromise
      /\ office \in ContextSnapshot /\ \A s \in Ids : wanted[s].number \in Nat
      /\ k.calm => CallPromise(k)
  BY CalmFacts
<1>4. /\ next \in Call /\ next.calm = k.calm /\ next.proc = k.proc
      /\ next.stage = "restore" /\ next.actor = k.actor /\ next.snapshot = k.snapshot
      /\ next.left = k.left \ {c}
  BY <1>1, <1>2, <1>3 DEF Call
<1>5. c \in AgentSchedule /\ c \in recorded /\ c.id \in Ids /\ c.number \in Nat
  BY <1>1, <1>3 DEF Call, CallOK, AgentSchedule
<1>6. /\ \A q \in Procs \ {k.proc} : svc'[q] = svc[q]
      /\ \A s \in Ids \ {c.id} : svc'[k.proc].own[s] = svc[k.proc].own[s]
      /\ svc'[k.proc].own[c.id] = IF Takes(c) THEN c ELSE svc[k.proc].own[c.id]
      /\ svc'[k.proc].specs = svc[k.proc].specs
      /\ svc'[k.proc].phase = svc[k.proc].phase
      /\ svc'[k.proc].running = svc[k.proc].running
      /\ svc'[k.proc].restored = svc[k.proc].restored
  BY <1>1, <1>3, <1>5, RegisterProc DEF CallsAreLive
<1>7. /\ office' = office /\ issued' = issued /\ wanted' = wanted /\ enrolled' = enrolled
      /\ LedgerPromise'
  BY <1>1, <1>3 DEF durable, promises, LedgerPromise, Above, OffUnwanted
<1>8. k.calm => office.open[c.id] = c
  BY <1>1, <1>3 DEF CallPromise
<1>9. k.calm => wanted[c.id].number <= c.number
  BY <1>3, <1>5, <1>8 DEF LedgerPromise, Above
<1>10. k.calm => ProcPromise(svc[k.proc])'
  <2>1. k.calm /\ svc[k.proc].restored =>
          \A s \in Ids : wanted[s].number <= svc'[k.proc].own[s].number
    BY <1>3, <1>5, <1>6, <1>9 DEF ProcPromise, Above
  <2> QED
    BY <1>3, <1>6, <1>7, <2>1 DEF ProcPromise, Above
<1>11. k.calm /\ c.kind # "bad" => CallPromise(next)'
  <2> SUFFICES ASSUME k.calm, c.kind # "bad" PROVE CallPromise(next)'
    OBVIOUS
  <2>1. /\ \A d \in k.left : office.open[d.id] = d
        /\ k.actor \subseteq svc[k.proc].specs
        /\ k.snapshot.actors = {} \/ enrolled \subseteq k.snapshot.actors
        /\ \A s \in Ids :
             \/ wanted[s].number = 0
             \/ office.open[s] \in k.left
             \/ wanted[s].number <= svc[k.proc].own[s].number
    BY <1>1, <1>3 DEF CallPromise
  <2>2. ASSUME NEW s \in Ids
        PROVE  \/ wanted[s].number = 0
               \/ office.open[s] \in k.left \ {c}
               \/ wanted[s].number <= svc'[k.proc].own[s].number
    <3>1. CASE s = c.id
      <4>1. CASE Takes(c)
        BY <1>6, <1>9, <3>1, <4>1
      <4>2. CASE ~Takes(c)
        <5>1. c.kind = "off"
          BY <1>5, <4>2 DEF Takes, AgentSchedule, Kinds
        <5> QED
          BY <1>3, <1>5, <1>8, <3>1, <5>1 DEF LedgerPromise, OffUnwanted
      <4> QED
        BY <4>1, <4>2
    <3>2. CASE s # c.id
      <4>1. office.open[s].id = s
        BY <1>3 DEF ContextSnapshot, Schedules
      <4>2. office.open[s] # c
        BY <3>2, <4>1
      <4> QED
        BY <1>6, <2>1, <3>2, <4>2
    <3> QED
      BY <3>1, <3>2
  <2> QED
    BY <1>4, <1>6, <1>7, <2>1, <2>2 DEF CallPromise
<1>12. Returns(k) \/ (Becomes(k, next) /\ (k.calm => CallPromise(next)'))
  BY <1>1, <1>2, <1>11
<1> QED
  BY <1>4, <1>6, <1>7, <1>10, <1>12, CallStepPromise

\* A step of a call that leaves the ledger, the process and the promises alone.
LEMMA CallOnlyPromise ==
    ASSUME Base, Promise, Base', NEW k \in calls, NEW next \in Call,
           next.calm = k.calm, next.proc = k.proc,
           Returns(k) \/ (Becomes(k, next) /\ (k.calm => CallPromise(next)')),
           UNCHANGED <<durable, svc, issued, promises>>
    PROVE  Promise'
<1>1. LedgerPromise' /\ ProcPromise(svc[k.proc])'
  BY CalmFacts DEF LedgerPromise, ProcPromise, Above, OffUnwanted, durable, promises
<1>2. svc' = svc /\ wanted' = wanted /\ enrolled' = enrolled
  BY DEF promises
<1> QED
  BY <1>1, <1>2, CallStepPromise

\* With none left, all that is wanted ticks.
LEMMA RestoredAllPromise ==
    ASSUME Base, Promise, Base', NEW k \in calls, RestoredAll(k)
    PROVE  Promise'
<1>1. PICK next : next = [k EXCEPT !.stage = "look"]
  OBVIOUS
<1>2. /\ k \in Call /\ svc[k.proc] \in Service /\ k.stage = "restore" /\ k.left = {}
      /\ \A s \in Ids : wanted[s].number \in Nat
      /\ k.calm => CallPromise(k)
  BY CalmFacts DEF RestoredAll
<1>3. /\ next \in Call /\ next.calm = k.calm /\ next.proc = k.proc
      /\ next.stage = "look" /\ next.actor = k.actor /\ next.snapshot = k.snapshot
  BY <1>1, <1>2 DEF Call, Stages
<1>4. Becomes(k, next) /\ UNCHANGED <<durable, svc, issued, promises>>
  BY <1>1 DEF RestoredAll
<1>5. k.calm => CallPromise(next)'
  <2>1. \A s \in Ids : svc[k.proc].own[s].number \in Nat
    BY <1>2, SchedulesType DEF Service
  <2>2. k.calm => Above(svc[k.proc].own)
    BY <1>2, <2>1 DEF CallPromise, Above
  <2> QED
    BY <1>2, <1>3, <1>4, <2>2 DEF CallPromise, Above, promises
<1> QED
  BY <1>3, <1>4, <1>5, CallOnlyPromise

\* The maps of the process have all that was promised, or say nothing of it.
LEMMA LookPromise ==
    ASSUME Base, Promise, Base', NEW k \in calls, Look(k)
    PROVE  Promise'
<1>1. PICK snapshot : snapshot = [actors |-> svc[k.proc].specs, open |-> svc[k.proc].own]
  OBVIOUS
<1>2. PICK next : next = [k EXCEPT !.stage = "append", !.snapshot = snapshot]
  OBVIOUS
<1>3. /\ k \in Call /\ svc[k.proc] \in Service /\ k.stage = "look"
      /\ ProcPromise(svc[k.proc]) /\ ProcOK(svc[k.proc])
      /\ \A s \in Ids : wanted[s].number \in Nat
      /\ k.calm => CallPromise(k)
  BY CalmFacts DEF Look
<1>4. snapshot \in ContextSnapshot
      /\ snapshot.actors = svc[k.proc].specs /\ snapshot.open = svc[k.proc].own
  BY <1>1, <1>3 DEF ContextSnapshot, Service
<1>5. /\ next \in Call /\ next.calm = k.calm /\ next.proc = k.proc /\ next.op = k.op
      /\ next.stage = "append" /\ next.actor = k.actor /\ next.snapshot = snapshot
  BY <1>2, <1>3, <1>4 DEF Call, Stages
<1>6. Becomes(k, next) /\ UNCHANGED <<durable, svc, issued, promises>>
  BY <1>1, <1>2 DEF Look
<1>7. \A s \in Ids : svc[k.proc].own[s].kind = "off" => svc[k.proc].own[s].number = 0
  BY <1>3 DEF ProcOK, Takes
<1>8. Above(svc[k.proc].own) => OffUnwanted(svc[k.proc].own)
  BY <1>3, <1>7 DEF Above, OffUnwanted
<1>9. k.calm => CallPromise(next)'
  BY <1>3, <1>4, <1>5, <1>6, <1>8 DEF CallPromise, ProcPromise, Above, OffUnwanted, promises
<1> QED
  BY <1>5, <1>6, <1>9, CallOnlyPromise

\* A refused append changes nothing.
LEMMA CallFailsPromise ==
    ASSUME Base, Promise, Base', NEW k \in calls, CallFails(k)
    PROVE  Promise'
  BY CalmFacts, CallOnlyPromise DEF CallFails

\* The snapshot keeps the promises; the actor it enrols is on the roster.
LEMMA AppendSnapshotPromise ==
    ASSUME Base, Promise, Base', NEW k \in calls, AppendSnapshot(k)
    PROVE  Promise'
<1>1. /\ k \in Call /\ k.proc \in Procs /\ svc[k.proc] \in Service
      /\ ProcPromise(svc[k.proc]) /\ LedgerPromise
      /\ office \in ContextSnapshot /\ k.snapshot \in ContextSnapshot
      /\ k.calm => CallPromise(k)
  BY CalmFacts DEF Call
<1>2. /\ k.stage = "append" /\ office' = Merged(office, k.snapshot)
      /\ enrolled' = IF k.calm THEN enrolled \cup k.actor ELSE enrolled
      /\ Returns(k) /\ UNCHANGED <<issued, wanted>>
  BY DEF AppendSnapshot, WriteSnapshot
<1>3. /\ \A q \in Procs \ {k.proc} : svc'[q] = svc[q]
      /\ svc'[k.proc].phase = svc[k.proc].phase /\ svc'[k.proc].own = svc[k.proc].own
      /\ svc'[k.proc].specs = svc[k.proc].specs
      /\ svc'[k.proc].running = svc[k.proc].running
      /\ svc'[k.proc].restored => svc[k.proc].restored \/ k.op = "scheduler"
  <2>1. CASE svc' = svc
    BY <2>1
  <2>2. CASE svc' = [svc EXCEPT ![k.proc].restored = TRUE] /\ k.op = "scheduler"
    BY <1>1, <2>2 DEF Base, TypeOK, Service
  <2> QED
    BY <2>1, <2>2 DEF AppendSnapshot
<1>4. k.calm => LedgerPromise'
  <2> SUFFICES ASSUME k.calm PROVE LedgerPromise'
    OBVIOUS
  <2>1. /\ k.actor \subseteq k.snapshot.actors
        /\ k.snapshot.actors = {} \/ enrolled \subseteq k.snapshot.actors
        /\ \/ k.snapshot.open = Blank
           \/ Above(k.snapshot.open) /\ OffUnwanted(k.snapshot.open)
    BY <1>1, <1>2 DEF CallPromise
  <2>2. enrolled' \subseteq office'.actors
    BY <1>1, <1>2, <2>1, MergedType DEF LedgerPromise
  <2>3. Above(office'.open) /\ OffUnwanted(office'.open)
    BY <1>1, <1>2, <2>1, MergedType DEF LedgerPromise
  <2> QED
    BY <1>1, <1>2, <2>2, <2>3 DEF LedgerPromise, Above, OffUnwanted
<1>5. k.calm => ProcPromise(svc[k.proc])'
  <2> SUFFICES ASSUME k.calm PROVE ProcPromise(svc[k.proc])'
    OBVIOUS
  <2>1. /\ k.actor \subseteq svc[k.proc].specs
        /\ k.op = "scheduler" => Above(svc[k.proc].own)
    BY <1>1, <1>2 DEF CallPromise
  <2>2. svc[k.proc].specs = {} \/ enrolled' \subseteq svc[k.proc].specs
    BY <1>1, <1>2, <2>1 DEF ProcPromise
  <2>3. svc[k.proc].running => enrolled' \subseteq svc[k.proc].specs
    BY <1>1, <1>2, <2>1 DEF ProcPromise
  <2> QED
    BY <1>1, <1>2, <1>3, <2>1, <2>2, <2>3 DEF ProcPromise, Above
<1>6. wanted = Blank /\ enrolled = {} /\ ~k.calm => wanted' = Blank /\ enrolled' = {}
  BY <1>2
<1> QED
  BY <1>1, <1>2, <1>3, <1>4, <1>5, <1>6, CallStepPromise

\* A step of a process that changes nothing a promise is about.
LEMMA QuietPromise ==
    ASSUME Base, Promise, NEW p \in Procs, NEW v \in Service, svc' = [svc EXCEPT ![p] = v],
           v.specs = svc[p].specs, v.own = svc[p].own, v.running = svc[p].running,
           v.restored = svc[p].restored, v.phase # "down" \/ v.phase = svc[p].phase,
           UNCHANGED <<durable, calls, issued, promises>>
    PROVE  Promise'
<1>1. /\ \A q \in Procs :
           /\ svc'[q].specs = svc[q].specs /\ svc'[q].own = svc[q].own
           /\ svc'[q].running = svc[q].running /\ svc'[q].restored = svc[q].restored
           /\ svc[q].phase # "down" => svc'[q].phase # "down"
      /\ \A k \in calls : k \in Call /\ k.proc \in Procs
  BY DEF Base, TypeOK, Call
<1>2. /\ office' = office /\ issued' = issued /\ calls' = calls
      /\ wanted' = wanted /\ enrolled' = enrolled
  BY DEF durable, promises
<1>3. LedgerPromise'
  BY <1>2 DEF Promise, LedgerPromise, Above, OffUnwanted
<1>4. \A q \in Procs : ProcPromise(svc[q])'
  BY <1>1, <1>2 DEF Promise, ProcPromise, Above
<1>5. \A k \in calls : CallPromise(k) => CallPromise(k)'
  <2> SUFFICES ASSUME NEW k \in calls, CallPromise(k) PROVE CallPromise(k)'
    OBVIOUS
  <2>1. /\ svc'[k.proc].specs = svc[k.proc].specs /\ svc'[k.proc].own = svc[k.proc].own
        /\ svc'[k.proc].restored = svc[k.proc].restored
    BY <1>1
  <2> QED
    BY <1>2, <2>1 DEF CallPromise, Above, OffUnwanted
<1>6. CallsAreLive'
  BY <1>1, <1>2 DEF Promise, Calm, CallsAreLive
<1>7. Calm'
  BY <1>1, <1>2, <1>5, <1>6 DEF Promise, Calm, Fresh
<1> QED
  BY <1>3, <1>4, <1>7 DEF Promise

\* A goroutine that was cancelled is none that ticks.
LEMMA StragglerReturnsPromise ==
    ASSUME Base, Promise, NEW p \in Procs, StragglerReturns(p)
    PROVE  Promise'
<1>1. PICK c \in svc[p].stragglers :
        /\ svc' = [svc EXCEPT ![p].stragglers = @ \ {c}]
        /\ UNCHANGED <<durable, calls, issued, faults, recorded, promises>>
  BY DEF StragglerReturns
<1>2. PICK v : v = [svc[p] EXCEPT !.stragglers = @ \ {c}]
  OBVIOUS
<1>3. svc' = [svc EXCEPT ![p] = v] /\ svc[p] \in Service
  BY <1>1, <1>2 DEF Base, TypeOK
<1>4. /\ v \in Service /\ v.phase = svc[p].phase /\ v.specs = svc[p].specs
      /\ v.own = svc[p].own /\ v.running = svc[p].running /\ v.restored = svc[p].restored
  BY <1>2, <1>3 DEF Service
<1> QED
  BY <1>1, <1>3, <1>4, QuietPromise

\* A process that boots promises nothing.
LEMMA BootPromise ==
    ASSUME Base, Promise, NEW p \in Procs, Boot(p)
    PROVE  Promise'
<1>1. PICK v : v = [svc[p] EXCEPT !.phase = "up"]
  OBVIOUS
<1>2. svc' = [svc EXCEPT ![p] = v] /\ svc[p] \in Service
  BY <1>1 DEF Boot, Base, TypeOK
<1>3. /\ v \in Service /\ v.phase = "up" /\ v.specs = svc[p].specs
      /\ v.own = svc[p].own /\ v.running = svc[p].running /\ v.restored = svc[p].restored
  BY <1>1, <1>2 DEF Service
<1> QED
  BY <1>2, <1>3, QuietPromise DEF Boot

\* What dies takes its calls along; the others go on.
LEMMA DiesPromise ==
    ASSUME Base, Promise, NEW p \in Procs, Dies(p)
    PROVE  Promise'
<1>1. /\ svc' = [svc EXCEPT ![p] = Down] /\ calls' = {k \in calls : k.proc # p}
      /\ office' = office /\ issued' = issued /\ wanted' = wanted /\ enrolled' = enrolled
  BY DEF Dies, durable, promises
<1>2. /\ svc'[p] = Down /\ \A q \in Procs \ {p} : svc'[q] = svc[q]
      /\ \A k \in calls' : k \in calls /\ k \in Call /\ k.proc \in Procs \ {p}
  BY <1>1 DEF Base, TypeOK, Call
<1>3. Fresh(Down)
  BY DownType DEF Fresh
<1>4. LedgerPromise'
  BY <1>1 DEF Promise, LedgerPromise, Above, OffUnwanted
<1>5. \A q \in Procs : ProcPromise(svc[q])'
  <2>1. \A q \in Procs \ {p} : ProcPromise(svc[q])'
    BY <1>1, <1>2 DEF Promise, ProcPromise, Above
  <2>2. ProcPromise(svc[p])'
    BY <1>2, <1>3 DEF Fresh, ProcPromise
  <2> QED
    BY <2>1, <2>2
<1>6. CallsAreLive'
  BY <1>2 DEF Promise, Calm, CallsAreLive
<1>7. ASSUME NEW k \in calls', k.calm
      PROVE  /\ calls' = {k} /\ CallPromise(k)'
             /\ \A q \in Procs \ {k.proc} : Fresh(svc'[q])
  <2>1. calls = {k} /\ CallPromise(k) /\ \A q \in Procs \ {k.proc} : Fresh(svc[q])
    BY <1>2, <1>7 DEF Promise, Calm
  <2>2. svc'[k.proc] = svc[k.proc]
    BY <1>2, <1>7
  <2>3. CallPromise(k)'
    BY <1>1, <2>1, <2>2 DEF CallPromise, Above, OffUnwanted
  <2>4. \A q \in Procs \ {k.proc} : Fresh(svc'[q])
    BY <1>2, <1>3, <2>1
  <2> QED
    BY <1>2, <1>7, <2>1, <2>3, <2>4
<1>8. (\E k \in calls' : ~k.calm) => wanted' = Blank /\ enrolled' = {}
  BY <1>1, <1>2 DEF Promise, Calm
<1>9. Calm'
  BY <1>6, <1>7, <1>8 DEF Calm, Fresh
<1> QED
  BY <1>4, <1>5, <1>9 DEF Promise

\* Shutdown between calls keeps the spec files' actors; during a call it voids.
LEMMA ShutdownPromise ==
    ASSUME Base, Promise, Base', NEW p \in Procs, Shutdown(p)
    PROVE  Promise'
<1>1. PICK v : v = Stopped(svc[p])
  OBVIOUS
<1>2. svc' = [svc EXCEPT ![p] = v] /\ svc[p] \in Service /\ ProcPromise(svc[p])
      /\ office' = office /\ issued' = issued
  BY <1>1 DEF Shutdown, Base, TypeOK, Promise, durable
<1>3. v.phase = "stopping" /\ v.specs = svc[p].specs /\ ~v.running /\ ~v.restored
  BY <1>1, <1>2, StoppedType
<1>4. svc'[p] = v /\ \A q \in Procs \ {p} : svc'[q] = svc[q]
  BY <1>2 DEF Base, TypeOK
<1>5. \A x \in calls' : \E k \in calls : ~x.calm /\ x.proc = k.proc
  <2>1. \A k \in calls :
          [k EXCEPT !.calm = FALSE].calm = FALSE /\ [k EXCEPT !.calm = FALSE].proc = k.proc
    BY DEF Base, TypeOK, Call
  <2> QED
    BY <2>1 DEF Shutdown
<1>6. CASE calls = {}
  <2>1. calls' = {} /\ wanted' = wanted /\ enrolled' = enrolled
    BY <1>5, <1>6 DEF Shutdown, promises
  <2>2. LedgerPromise'
    BY <1>2, <2>1 DEF Promise, LedgerPromise, Above, OffUnwanted
  <2>3. \A q \in Procs : ProcPromise(svc[q])'
    <3>1. ProcPromise(svc[p])'
      BY <1>2, <1>3, <1>4, <2>1 DEF ProcPromise
    <3>2. \A q \in Procs \ {p} : ProcPromise(svc[q])'
      BY <1>4, <2>1 DEF Promise, ProcPromise, Above
    <3> QED
      BY <3>1, <3>2
  <2> QED
    BY <2>1, <2>2, <2>3, CalmPromise
<1>7. CASE calls # {}
  <2>1. CallsAreLive'
    <3>1. \A k \in calls : svc'[k.proc].phase # "down"
      BY <1>3, <1>4 DEF Base, TypeOK, Call, Promise, Calm, CallsAreLive
    <3> QED
      BY <1>5, <3>1 DEF CallsAreLive
  <2>2. wanted' = Blank /\ enrolled' = {} /\ \A x \in calls' : ~x.calm
    BY <1>5, <1>7 DEF Shutdown, Voided
  <2> QED
    BY <2>1, <2>2, VoidPromise
<1> QED
  BY <1>6, <1>7

-----------------------------------------------------------------------------
(* The theorems *)

IInv == Base /\ Promise

\* Nothing is promised at first.
LEMMA InitIInv == Init => IInv
<1> SUFFICES ASSUME Init PROVE IInv
  OBVIOUS
<1>1. \A s \in Ids : Blank[s].number = 0
  BY AbsentType
<1>2. OnRecord(office.open) = {}
  BY AbsentType, NothingType DEF Init, OnRecord
<1>3. TypeOK
  BY OfficeAssumption, NothingType, BlankType, DownType DEF Init, TypeOK
<1>4. ProcOK(Down)
  BY <1>1, DownType DEF ProcOK
<1>5. Base
  BY <1>2, <1>3, <1>4 DEF Base, Init
<1>6. LedgerPromise
  BY <1>1, NothingType DEF Init, LedgerPromise, Above, OffUnwanted
<1>7. \A p \in Procs : ProcPromise(svc[p])
  BY DownType DEF Init, ProcPromise
<1>8. Calm
  BY DEF Init, Calm, CallsAreLive
<1> QED
  BY <1>5, <1>6, <1>7, <1>8 DEF IInv, Promise

\* Every step keeps the invariant.
LEMMA NextIInv == IInv /\ [Next]_vars => IInv'
<1> SUFFICES ASSUME IInv, [Next]_vars PROVE IInv'
  OBVIOUS
<1> Base /\ Promise /\ CallsAreLive
  BY DEF IInv, Promise, Calm
<1>1. CASE \E c \in Callers, p \in Procs : StartCoordinator(c, p)
  BY <1>1, StartCoordinatorBase, StartCoordinatorPromise DEF IInv
<1>2. CASE \E c \in Callers, p \in Procs : StartRuntime(c, p)
  BY <1>2, StartRuntimeBase, StartRuntimePromise DEF IInv
<1>3. CASE \E c \in Callers, p \in Procs : StartScheduler(c, p)
  BY <1>3, StartSchedulerBase, StartSchedulerPromise DEF IInv
<1>4. CASE \E c \in Callers, p \in Procs : AppendVoiceEvent(c, p)
  BY <1>4, AppendVoiceEventBase, AppendVoiceEventPromise DEF IInv
<1>5. CASE \E c \in Callers, p \in Procs : \E a \in Actors : RegisterActor(c, p, a)
  BY <1>5, RegisterActorBase, RegisterActorPromise DEF IInv
<1>6. CASE \E c \in Callers, p \in Procs :
             \E s \in Ids, kind \in Kinds : RegisterSchedule(c, p, s, kind)
  BY <1>6, RegisterScheduleBase, RegisterSchedulePromise DEF IInv
<1>7. ASSUME NEW k \in calls, CallStep(k)
      PROVE  IInv'
  <2>1. CASE LogSchedule(k)
    BY <2>1, LogScheduleBase, LogSchedulePromise DEF IInv
  <2>2. CASE RegisterLogged(k)
    BY <2>2, RegisterLoggedBase, RegisterLoggedPromise DEF IInv
  <2>3. CASE RestoreOne(k)
    BY <2>3, RestoreOneBase, RestoreOnePromise DEF IInv
  <2>4. CASE RestoredAll(k)
    BY <2>4, RestoredAllBase, RestoredAllPromise DEF IInv
  <2>5. CASE Look(k)
    BY <2>5, LookBase, LookPromise DEF IInv
  <2>6. CASE AppendSnapshot(k)
    BY <2>6, AppendSnapshotBase, AppendSnapshotPromise DEF IInv
  <2>7. CASE CallFails(k)
    BY <2>7, CallFailsBase, CallFailsPromise DEF IInv
  <2> QED
    BY <1>7, <2>1, <2>2, <2>3, <2>4, <2>5, <2>6, <2>7 DEF CallStep
<1>8. ASSUME NEW p \in Procs, Dies(p), UNCHANGED faults \/ Fault
      PROVE  IInv'
  <2>1. faults' \in 0 .. MaxFaults
    BY <1>8, OfficeAssumption DEF Fault, Base, TypeOK
  <2> QED
    BY <1>8, <2>1, DiesBase, DiesPromise DEF IInv
<1>9. ASSUME NEW p \in Procs,
             \/ StragglerReturns(p) \/ Shutdown(p) \/ Boot(p)
             \/ Crash(p) \/ Exit(p) \/ TickerPanics(p)
      PROVE  IInv'
  <2>1. CASE StragglerReturns(p)
    BY <2>1, StragglerReturnsBase, StragglerReturnsPromise DEF IInv
  <2>2. CASE Shutdown(p)
    BY <2>2, ShutdownBase, ShutdownPromise DEF IInv
  <2>3. CASE Boot(p)
    BY <2>3, BootBase, BootPromise DEF IInv
  <2>4. CASE Crash(p) \/ Exit(p) \/ TickerPanics(p)
    BY <1>8, <2>4 DEF Crash, Exit, TickerPanics
  <2> QED
    BY <1>9, <2>1, <2>2, <2>3, <2>4
<1>10. CASE UNCHANGED vars
  <2>1. Base'
    BY <1>10 DEF vars, durable, promises, Base, TypeOK, ProcOK, CallOK
  <2>2. Promise'
    BY <1>10 DEF vars, durable, promises, Promise, LedgerPromise, ProcPromise, Calm,
                 CallsAreLive, CallPromise, Fresh, Above, OffUnwanted
  <2> QED
    BY <2>1, <2>2 DEF IInv
<1> QED
  BY <1>1, <1>2, <1>3, <1>4, <1>5, <1>6, <1>7, <1>9, <1>10 DEF Next

\* The inductive invariant of the office: what every call holds on its way
\* from the ledger or the maps of its process (service.go:131-360) to the
\* snapshot it appends.
THEOREM Inductive == Spec => []IInv
  BY InitIInv, NextIInv, PTL DEF Spec

\* The state of the office keeps its shape: IDs name what is filed under them
\* (ledger.go mergeSnapshot, scheduler.go schedules).
THEOREM TypeCorrect == Spec => []TypeOK
<1>1. IInv => TypeOK
  BY DEF IInv, Base
<1> QED
  BY <1>1, Inductive, PTL

\* Scheduler.Register and Stop leave no goroutine ticking that the map does
\* not hold, and none twice (scheduler.go:34-90), however calls overlap.
THEOREM JobsAreOwnHolds == Spec => []JobsAreOwn
<1>1. IInv => JobsAreOwn
  BY DEF IInv, Base, ProcOK, JobsAreOwn
<1> QED
  BY <1>1, Inductive, PTL

\* RegisterSchedule and StartScheduler hand the scheduler only what the ledger
\* has held (service.go:281-360): what ticks was recorded.
THEOREM JobsWereRecordedHolds == Spec => []JobsWereRecorded
<1>1. IInv => JobsWereRecorded
  <2> SUFFICES ASSUME IInv, NEW p \in Procs, NEW s \in Ids
               PROVE  /\ \A i \in DOMAIN svc[p].jobs[s] : svc[p].jobs[s][i] \in recorded
                      /\ svc[p].stragglers \subseteq recorded
    BY DEF JobsWereRecorded
  <2>1. ProcOK(svc[p])
    BY DEF IInv, Base
  <2>2. CASE svc[p].own[s].number = 0
    <3>1. svc[p].jobs[s] = << >>
      BY <2>1, <2>2 DEF ProcOK
    <3> QED
      BY <2>1, <3>1 DEF ProcOK
  <2>3. CASE svc[p].own[s].number # 0
    <3>1. svc[p].jobs[s] = << svc[p].own[s] >> /\ svc[p].own[s] \in recorded
      BY <2>1, <2>3 DEF ProcOK
    <3> QED
      BY <2>1, <3>1 DEF ProcOK
  <2> QED
    BY <2>2, <2>3
<1> QED
  BY <1>1, Inductive, PTL

\* In a calm office a schedule the scheduler took stays in the ledger through
\* every snapshot, crash, panic and failed append (service.go:281-360,
\* ledger.go mergeSnapshot).
THEOREM AcceptedStaysOnRecordHolds == Spec => []AcceptedStaysOnRecord
<1>1. IInv => AcceptedStaysOnRecord
  BY DEF IInv, Promise, LedgerPromise, Above, AcceptedStaysOnRecord
<1> QED
  BY <1>1, Inductive, PTL

\* ... and it ticks in every process that has restored (service.go
\* StartScheduler).
THEOREM AcceptedTicksHolds == Spec => []AcceptedTicks
<1>1. IInv => AcceptedTicks
  BY DEF IInv, Promise, ProcPromise, Above, AcceptedTicks
<1> QED
  BY <1>1, Inductive, PTL

\* In a calm office an actor registered without an error stays on the roster
\* of the organization (service.go RegisterActor, StartRuntime).
THEOREM EnrolledStaysOnRosterHolds == Spec => []EnrolledStaysOnRoster
<1>1. IInv => EnrolledStaysOnRoster
  BY DEF IInv, Promise, LedgerPromise, EnrolledStaysOnRoster
<1> QED
  BY <1>1, Inductive, PTL
=============================================================================
