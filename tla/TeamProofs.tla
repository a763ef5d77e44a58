----------------------------- MODULE TeamProofs -----------------------------
(***************************************************************************)
(* Proofs about Team, for any workers, names, tasks, columns and handoffs, *)
(* any choice of the calls that agents make and any bound on them.         *)
(***************************************************************************)
EXTENDS Team, TLAPS, SequenceTheorems, FiniteSetTheorems

-----------------------------------------------------------------------------
(* The shape of the calls under way *)

UpdateKinds == {"send", "add", "move", "create", "accept", "row", "board"}

Fields == {"phase", "update", "seen", "worker", "left"}

\* What is read belongs to the update that is written afterwards, so a call
\* that has yet to read has seen nothing.
CallShape(k) ==
    /\ DOMAIN k = Fields
    /\ k.worker \subseteq Workers
    /\ k.phase \in {"spawned", "wait"} => k.seen = {}
    /\ \A u \in k.update :
        /\ u.kind \in UpdateKinds
        /\ u.kind = "row" => u.worker \in Workers
        /\ k.phase = "default" => u.kind \in {"add", "move", "board"}

Shape ==
    /\ DOMAIN files = Files
    /\ DOMAIN call = Callers
    /\ \A a \in Callers : CallShape(call[a])
    /\ worker \in [Workers -> WorkerStatus]
    /\ known \subseteq Workers

\* The file of an update is the inbox for a message only, and the members'
\* file for a row only.
LEMMA FileOfKind ==
    ASSUME NEW u, u.kind \in UpdateKinds
    PROVE  /\ FileOf(u) \in {"inbox", "board", "handoffs", "members"}
           /\ FileOf(u) = "inbox" <=> u.kind = "send"
           /\ FileOf(u) = "board" <=> u.kind \in {"add", "move", "board"}
           /\ FileOf(u) = "members" <=> u.kind = "row"
  BY DEF FileOf, UpdateKinds

\* A caller without a call has the shape of one.
LEMMA IdleShape ==
    /\ CallShape(Idle)
    /\ Idle.phase = "idle" /\ Idle.update = {} /\ Idle.seen = {}
    /\ Idle.worker = {} /\ Idle.left = 0
  BY DEF Idle, CallShape, Fields

\* A call that has read a file.
LEMMA ReadsCall ==
    ASSUME Shape, NEW a \in Callers, NEW u, u.kind \in UpdateKinds,
           u.kind = "row" => u.worker \in Workers,
           NEW left, Reads(a, u, left)
    PROVE  LET k == [phase |-> Phase(u, files[FileOf(u)]), update |-> {u},
                     seen |-> {files[FileOf(u)]}, worker |-> {}, left |-> left]
           IN  /\ call' = [call EXCEPT ![a] = k]
               /\ CallShape(k)
               /\ k.phase = "default" => FileOf(u) = "board"
<1> DEFINE k == [phase |-> Phase(u, files[FileOf(u)]), update |-> {u},
                 seen |-> {files[FileOf(u)]}, worker |-> {}, left |-> left]
<1>1. call' = [call EXCEPT ![a] = k]
  BY DEF Reads
<1>2. /\ DOMAIN k = Fields /\ k.worker = {} /\ k.update = {u}
      /\ k.phase = Phase(u, files[FileOf(u)])
  BY DEF Fields
<1>3. /\ k.phase \notin {"spawned", "wait"}
      /\ k.phase = "default" => FileOf(u) = "board" /\ u.kind \in {"add", "move", "board"}
  BY <1>2, FileOfKind DEF Phase, NeedsDefault
<1> HIDE DEF k
<1>4. CallShape(k)
  BY <1>2, <1>3 DEF CallShape
<1> QED
  BY <1>1, <1>3, <1>4 DEF k

\* A call that has written is over, or has its row to write once more.
LEMMA AfterWriteCall ==
    ASSUME NEW a \in Callers, CallShape(call[a])
    PROVE  /\ CallShape(AfterWrite(a))
           /\ call[a].left = 0 => AfterWrite(a) = Idle
           /\ AfterWrite(a).update \subseteq call[a].update
           /\ AfterWrite(a).seen = {}
           /\ AfterWrite(a).phase # "write"
<1>1. CASE call[a].left = 0
  BY <1>1, IdleShape DEF AfterWrite
<1>2. CASE call[a].left # 0
  BY <1>2 DEF AfterWrite, CallShape, Fields
<1> QED
  BY <1>1, <1>2

-----------------------------------------------------------------------------
(* Every step keeps the shape *)

\* A step that leaves one caller with a call of the right shape.
LEMMA ShapeOfCall ==
    ASSUME Shape, NEW a \in Callers, NEW k, CallShape(k),
           call' = [call EXCEPT ![a] = k], DOMAIN files' = Files,
           worker' \in [Workers -> WorkerStatus], known' \subseteq Workers
    PROVE  Shape'
<1>1. DOMAIN call' = Callers /\ \A b \in Callers : call'[b] = IF b = a THEN k ELSE call[b]
  BY DEF Shape
<1>2. \A b \in Callers : CallShape(call'[b])
  BY <1>1 DEF Shape
<1>3. \A b \in Callers : CallShape(call[b])'
  BY <1>2 DEF CallShape
<1> QED
  BY <1>1, <1>3 DEF Shape

\* A step that changes no call.
LEMMA ShapeUnchanged ==
    ASSUME Shape, call' = call, DOMAIN files' = Files,
           worker' \in [Workers -> WorkerStatus], known' \subseteq Workers
    PROVE  Shape'
<1>1. \A a \in Callers : CallShape(call[a])'
  BY DEF Shape, CallShape
<1> QED
  BY <1>1 DEF Shape

\* No tool writes the row of a worker.
LEMMA OfferedShape ==
    ASSUME NEW a \in Agents, NEW u \in Offered(a)
    PROVE  u.kind \in UpdateKinds \ {"row"}
  BY DEF Offered, UpdateKinds

\* The update that writes the row of a worker.
LEMMA RowShape ==
    ASSUME NEW w, NEW status, NEW waited
    PROVE  LET u == Row(w, status, waited) IN
           /\ u.kind = "row" /\ u.worker = w /\ u.status = status /\ u.waited = waited
  BY DEF Row

\* A call that only moves on: it has read nothing yet.
LEMMA RowCall ==
    ASSUME NEW a \in Callers, CallShape(call[a]), call[a].phase \in {"spawned", "wait"},
           NEW w \in Workers, NEW waited
    PROVE  LET k == [call[a] EXCEPT !.phase = "row",
                                    !.update = {Row(w, worker[w], waited)}, !.worker = {}]
           IN  CallShape(k) /\ k.update = {Row(w, worker[w], waited)} /\ k.seen = {}
<1> DEFINE u == Row(w, worker[w], waited)
           k == [call[a] EXCEPT !.phase = "row", !.update = {u}, !.worker = {}]
<1>1. DOMAIN k = Fields /\ k.phase = "row" /\ k.worker = {} /\ k.update = {u} /\ k.seen = {}
  BY DEF CallShape, Fields
<1>2. u.kind = "row" /\ u.worker = w
  BY RowShape
<1> HIDE DEF u, k
<1>3. CallShape(k)
  BY <1>1, <1>2 DEF CallShape, UpdateKinds
<1> QED
  BY <1>1, <1>3 DEF u, k

\* The empty store has the shape.
LEMMA InitShape == Init => Shape
<1> SUFFICES ASSUME Init PROVE Shape
  OBVIOUS
<1>1. DOMAIN files = Files
  BY DEF Init, Blank, Files
<1>2. \A a \in Callers : CallShape(call[a])
  BY IdleShape DEF Init
<1> QED
  BY <1>1, <1>2 DEF Init, Shape, WorkerStatus

\* One step per action; a call that changes is one of those above.
LEMMA NextShape == Shape /\ [Next]_vars => Shape'
<1> SUFFICES ASSUME Shape, [Next]_vars PROVE Shape'
  OBVIOUS
<1>0. \A a \in Callers : CallShape(call[a])
  BY DEF Shape
<1>1. ASSUME NEW a \in Agents, Begin(a) PROVE Shape'
  <2>1. PICK u \in Offered(a) : Reads(a, u, 0)
    BY <1>1 DEF Begin
  <2>2. u.kind \in UpdateKinds \ {"row"} /\ a \in Callers
    BY OfferedShape DEF Callers
  <2>3. PICK k : call' = [call EXCEPT ![a] = k] /\ CallShape(k)
    BY <2>1, <2>2, ReadsCall
  <2>4. DOMAIN files' = Files
    BY <1>1 DEF Begin, Shape
  <2>5. worker' \in [Workers -> WorkerStatus] /\ known' \subseteq Workers
    BY <1>1 DEF Begin, manager, Shape
  <2> QED
    BY <2>2, <2>3, <2>4, <2>5, ShapeOfCall
<1>2. ASSUME NEW a \in Agents, NEW w \in Workers, Spawn(a, w) PROVE Shape'
  <2> DEFINE k == [Idle EXCEPT !.phase = "spawned", !.worker = {w}, !.left = Rows[w] - 1]
  <2>1. CallShape(k)
    BY DEF Idle, CallShape, Fields
  <2>2. call' = [call EXCEPT ![a] = k] /\ files' = files
    BY <1>2 DEF Spawn
  <2> HIDE DEF k
  <2>3. worker' \in [Workers -> WorkerStatus] /\ known' \subseteq Workers
    BY <1>2 DEF Spawn, Shape, WorkerStatus
  <2> QED
    BY <2>1, <2>2, <2>3, ShapeOfCall DEF Shape, Callers
<1>3. ASSUME NEW a \in Agents, NEW w \in Workers, Wait(a, w) PROVE Shape'
  <2> DEFINE k == [Idle EXCEPT !.phase = "wait", !.worker = {w}]
  <2>1. CallShape(k)
    BY DEF Idle, CallShape, Fields
  <2>2. call' = [call EXCEPT ![a] = k] /\ files' = files
    BY <1>3 DEF Wait
  <2> HIDE DEF k
  <2> QED
    BY <1>3, <2>1, <2>2, ShapeOfCall DEF Wait, manager, Shape, Callers
<1>4. ASSUME NEW a \in Callers, WriteDefault(a) PROVE Shape'
  <2>1. PICK u \in call[a].update :
            call' = [call EXCEPT ![a] =
                       CASE a = Screen -> [Idle EXCEPT !.phase = "show"]
                         [] a # Screen /\ u.kind = "board" -> Idle
                         [] OTHER -> [call[a] EXCEPT !.phase = "write", !.seen = {DefaultBoard}]]
    BY <1>4 DEF WriteDefault
  <2>2. CallShape([Idle EXCEPT !.phase = "show"])
    BY DEF Idle, CallShape, Fields
  <2>3. CallShape([call[a] EXCEPT !.phase = "write", !.seen = {DefaultBoard}])
    BY <1>0 DEF CallShape, Fields
  <2>4. DOMAIN files' = Files
    BY <1>4 DEF WriteDefault, Shape
  <2> QED
    BY <1>4, <2>1, <2>2, <2>3, <2>4, IdleShape, ShapeOfCall
       DEF WriteDefault, manager, Shape
<1>5. ASSUME NEW a \in Callers, Write(a) \/ WriteFails(a) PROVE Shape'
  <2>1. DOMAIN files' = Files
    BY <1>5 DEF Write, WriteFails, Truncated, Shape
  <2>2. call' = [call EXCEPT ![a] = AfterWrite(a)]
    BY <1>5 DEF Write, WriteFails
  <2> QED
    BY <1>0, <1>5, <2>1, <2>2, AfterWriteCall, ShapeOfCall
       DEF Write, WriteFails, manager, Shape
<1>6. ASSUME NEW a \in Callers, SpawnReturns(a) \/ WaitReturns(a) PROVE Shape'
  <2>1. PICK w \in call[a].worker, waited \in BOOLEAN :
            /\ call[a].phase \in {"spawned", "wait"}
            /\ call' = [call EXCEPT ![a].phase = "row",
                                    ![a].update = {Row(w, worker[w], waited)},
                                    ![a].worker = {}]
    BY <1>6 DEF SpawnReturns, WaitReturns
  <2>2. w \in Workers
    BY <1>0 DEF CallShape
  <2>3. call' = [call EXCEPT ![a] =
                   [call[a] EXCEPT !.phase = "row", !.update = {Row(w, worker[w], waited)},
                                   !.worker = {}]]
    BY <2>1 DEF Shape
  <2> DEFINE k == [call[a] EXCEPT !.phase = "row", !.update = {Row(w, worker[w], waited)},
                                  !.worker = {}]
  <2>4. CallShape(k)
    BY <1>0, <2>1, <2>2, RowCall
  <2>5. files' = files /\ worker' = worker /\ known' = known
    BY <1>6 DEF SpawnReturns, WaitReturns, manager
  <2> HIDE DEF k
  <2> QED
    BY <2>3, <2>4, <2>5, ShapeOfCall DEF Shape, k
<1>7. ASSUME NEW a \in Callers, ReadMembers(a) PROVE Shape'
  <2>1. PICK u \in call[a].update :
            \/ Reads(a, u, call[a].left)
            \/ call' = [call EXCEPT ![a] = AfterWrite(a)]
    BY <1>7 DEF ReadMembers
  <2>2. u.kind \in UpdateKinds /\ (u.kind = "row" => u.worker \in Workers)
    BY <1>0 DEF CallShape
  <2>3. files' = files /\ worker' = worker /\ known' = known
    BY <1>7 DEF ReadMembers, manager
  <2>4. CASE Reads(a, u, call[a].left)
    <3>1. \E k : CallShape(k) /\ call' = [call EXCEPT ![a] = k]
      BY <2>2, <2>4, ReadsCall
    <3> QED
      BY <2>3, <3>1, ShapeOfCall DEF Shape
  <2>5. CASE call' = [call EXCEPT ![a] = AfterWrite(a)]
    BY <1>0, <2>3, <2>5, AfterWriteCall, ShapeOfCall DEF Shape
  <2> QED
    BY <2>1, <2>4, <2>5
<1>8. ASSUME NEW a \in Callers, WaitCancelled(a) PROVE Shape'
  BY <1>8, IdleShape, ShapeOfCall DEF WaitCancelled, manager, Shape
<1>9. ASSUME Interrupt PROVE Shape'
  BY <1>9, IdleShape, ShapeOfCall DEF Interrupt, manager, Shape, Callers, Agents
<1>10. ASSUME NEW w \in Workers, WorkerStep(w) \/ Cancel(w) PROVE Shape'
  <2>1. worker' \in [Workers -> WorkerStatus]
    BY <1>10 DEF WorkerStep, RunWorker, Finish, Cancel, Ends, Shape, WorkerStatus, Final
  <2> QED
    BY <1>10, <2>1, ShapeUnchanged DEF WorkerStep, RunWorker, Finish, Cancel, Shape
<1>11. ASSUME Snapshot PROVE Shape'
  <2> DEFINE show == [Idle EXCEPT !.phase = "show"]
             make == [Idle EXCEPT !.phase = "default", !.update = {[kind |-> "board"]},
                                  !.seen = {files["board"]}]
  <2>1. CallShape(show) /\ CallShape(make)
    BY DEF Idle, CallShape, Fields, UpdateKinds
  <2>2. call' = [call EXCEPT ![Screen] = show] \/ call' = [call EXCEPT ![Screen] = make]
    BY <1>11 DEF Snapshot
  <2> HIDE DEF show, make
  <2> QED
    BY <1>11, <2>1, <2>2, ShapeOfCall DEF Snapshot, manager, Shape, Callers
<1>12. ASSUME Materialize PROVE Shape'
  <2>1. DOMAIN files' = Files
    BY <1>12 DEF Materialize, Truncated, Shape
  <2> QED
    BY <1>12, <2>1, IdleShape, ShapeOfCall DEF Materialize, manager, Shape, Callers
<1>13. ASSUME Crash PROVE Shape'
  <2>1. DOMAIN files' = Files
    BY <1>13 DEF Crash, Truncated, Shape
  <2>2. call' = [a \in Callers |-> Idle] /\ worker' = worker /\ known' = {}
    BY <1>13 DEF Crash
  <2>3. \A a \in Callers : CallShape(call[a])'
    BY <2>2, IdleShape DEF CallShape
  <2> QED
    BY <2>1, <2>2, <2>3 DEF Shape
<1>14. ASSUME UNCHANGED vars PROVE Shape'
  BY <1>14, ShapeUnchanged DEF vars, manager, Shape
<1> QED
  BY <1>1, <1>2, <1>3, <1>4, <1>5, <1>6, <1>7, <1>8, <1>9, <1>10, <1>11, <1>12,
     <1>13, <1>14 DEF Next, CallStep

-----------------------------------------------------------------------------
(* How workers end *)

\* A status that says how w ended is right; nothing need be so of the others.
Truthful(w, status) == status \in Final => status = worker[w]

RowsTrue(rows) ==
    /\ DOMAIN rows = Names
    /\ \A n \in Names : \A w \in rows[n].session :
        w \in Workers /\ Truthful(w, rows[n].status)

RecordsTrue(records) == \A w \in Workers : Truthful(w, records[w])

\* What a call writes to the members' file, and what it has read of it.
CallTrue(k) ==
    \A u \in k.update :
        u.kind = "row" =>
            /\ Truthful(u.worker, u.status)
            /\ u.waited => u.status \in Final
            /\ \A seen \in k.seen : RowsTrue(seen)

Ended == \A w \in done : worker[w] \in Final

EndsInv ==
    /\ RowsTrue(files["members"])
    /\ RecordsTrue(files["records"])
    /\ \A a \in Callers : CallTrue(call[a])
    /\ Ended

\* The rows and records of an empty file say nothing of an end.
LEMMA BlankTrue == RowsTrue(Blank["members"]) /\ RecordsTrue(Blank["records"])
  BY DEF Blank, RowsTrue, RecordsTrue, Truthful, Final

\* A row that is true leaves the file true.
LEMMA UpsertTrue ==
    ASSUME NEW rows, RowsTrue(rows), NEW u,
           u.worker \in Workers, Truthful(u.worker, u.status)
    PROVE  RowsTrue(Upsert(rows, u))
<1> DEFINE row == [session |-> {u.worker}, status |-> u.status]
           new == [rows EXCEPT ![NameOf[u.worker]] = row]
<1>1. Upsert(rows, u) = new
  BY DEF Upsert
<1>2. /\ DOMAIN new = Names
      /\ \A n \in Names : new[n] = IF n = NameOf[u.worker] THEN row ELSE rows[n]
  BY DEF RowsTrue
<1>3. row.session = {u.worker} /\ row.status = u.status
  OBVIOUS
<1> HIDE DEF row, new
<1> QED
  BY <1>1, <1>2, <1>3 DEF RowsTrue

\* Records made of true rows, or kept, are true.
LEMMA ProjectTrue ==
    ASSUME NEW rows, RowsTrue(rows), NEW records, RecordsTrue(records)
    PROVE  RecordsTrue(Project(records, rows))
<1> SUFFICES ASSUME NEW w \in Workers
             PROVE  Truthful(w, Project(records, rows)[w])
  BY DEF RecordsTrue
<1>1. CASE \E n \in Names : rows[n].session = {w}
  <2> DEFINE n == CHOOSE n \in Names : rows[n].session = {w}
  <2>1. n \in Names /\ rows[n].session = {w}
    BY <1>1
  <2>2. Project(records, rows)[w] = rows[n].status
    BY <1>1 DEF Project
  <2> QED
    BY <2>1, <2>2 DEF RowsTrue
<1>2. CASE ~ \E n \in Names : rows[n].session = {w}
  BY <1>2 DEF Project, RecordsTrue
<1> QED
  BY <1>1, <1>2

\* A step that moves no worker.
LEMMA EndsKept ==
    ASSUME EndsInv, worker' = worker, done' \subseteq done,
           RowsTrue(files'["members"]), RecordsTrue(files'["records"]),
           \A a \in Callers : CallTrue(call'[a])
    PROVE  EndsInv'
  BY DEF EndsInv, RowsTrue, RecordsTrue, CallTrue, Truthful, Ended

\* A step that changes one call, too.
LEMMA EndsOfCall ==
    ASSUME Shape, EndsInv, NEW a \in Callers, NEW k, CallTrue(k),
           call' = [call EXCEPT ![a] = k], worker' = worker, done' = done,
           RowsTrue(files'["members"]), RecordsTrue(files'["records"])
    PROVE  EndsInv'
<1>1. \A b \in Callers : call'[b] = IF b = a THEN k ELSE call[b]
  BY DEF Shape
<1>2. \A b \in Callers : CallTrue(call'[b])
  BY <1>1 DEF EndsInv
<1> QED
  BY <1>2, EndsKept

\* A worker that moves has not ended: nothing true can say it has.
LEMMA EndsOfWorker ==
    ASSUME Shape, EndsInv, NEW w \in Workers, worker[w] \notin Final,
           NEW status, worker' = [worker EXCEPT ![w] = status],
           UNCHANGED <<files, call>>,
           \A v \in done' : v \in done \/ (v = w /\ status \in Final)
    PROVE  EndsInv'
<1>1. /\ worker'[w] = status
      /\ \A v \in Workers \ {w} : worker'[v] = worker[v]
  BY DEF Shape
<1>2. ASSUME NEW v \in Workers, NEW st, Truthful(v, st)
      PROVE  Truthful(v, st)' /\ (st \in Final => st = worker'[v])
  BY <1>1, <1>2 DEF Truthful
<1>3. RowsTrue(files["members"])'
  BY <1>2 DEF EndsInv, RowsTrue
<1>4. RecordsTrue(files["records"])'
  BY <1>2 DEF EndsInv, RecordsTrue
<1>5. ASSUME NEW a \in Callers
      PROVE  CallTrue(call[a])'
  <2> SUFFICES ASSUME NEW u \in call[a].update, u.kind = "row"
               PROVE  /\ Truthful(u.worker, u.status)'
                      /\ u.waited => u.status \in Final
                      /\ \A seen \in call[a].seen : RowsTrue(seen)'
    BY DEF CallTrue
  <2>1. u.worker \in Workers /\ CallTrue(call[a])
    BY DEF Shape, CallShape, EndsInv
  <2>2. \A seen \in call[a].seen : RowsTrue(seen)'
    BY <1>2, <2>1 DEF CallTrue, RowsTrue
  <2> QED
    BY <1>2, <2>1, <2>2 DEF CallTrue
<1>6. Ended'
  BY <1>1 DEF EndsInv, Ended
<1> QED
  BY <1>3, <1>4, <1>5, <1>6 DEF EndsInv

\* A write cut off leaves a file as it was, or without anything to say.
LEMMA TruncatedTrue ==
    ASSUME Shape, EndsInv, NEW f \in Files, Truncated(f)
    PROVE  RowsTrue(files'["members"]) /\ RecordsTrue(files'["records"])
<1>1. \A g \in Files : files'[g] = IF g = f THEN Blank[f] ELSE files[g]
  BY DEF Truncated, Shape
<1>2. "members" \in Files /\ "records" \in Files
  BY DEF Files
<1> QED
  BY <1>1, <1>2, BlankTrue DEF EndsInv

\* No worker has ended at first, and no row says so.
LEMMA InitEnds == Init => EndsInv
<1> SUFFICES ASSUME Init PROVE EndsInv
  OBVIOUS
<1>1. \A a \in Callers : CallTrue(call[a])
  BY IdleShape DEF Init, CallTrue
<1>2. files = Blank /\ done = {}
  BY DEF Init
<1> QED
  BY <1>1, <1>2, BlankTrue DEF EndsInv, Ended

\* One step per action: a row says what the worker's status is when it is
\* made, and a worker that has ended does not move.
LEMMA NextEnds == Shape /\ EndsInv /\ [Next]_vars => EndsInv'
<1> SUFFICES ASSUME Shape, EndsInv, [Next]_vars PROVE EndsInv'
  OBVIOUS
<1>0. /\ \A a \in Callers : CallShape(call[a]) /\ CallTrue(call[a])
      /\ RowsTrue(files["members"]) /\ RecordsTrue(files["records"])
      /\ \A k : k.update = {} => CallTrue(k)
  BY DEF Shape, EndsInv, CallTrue
<1>1. ASSUME NEW a \in Agents, Begin(a) PROVE EndsInv'
  <2>1. PICK u \in Offered(a) : Reads(a, u, 0)
    BY <1>1 DEF Begin
  <2>2. u.kind \in UpdateKinds \ {"row"}
    BY OfferedShape
  <2> DEFINE k == [phase |-> Phase(u, files[FileOf(u)]), update |-> {u},
                   seen |-> {files[FileOf(u)]}, worker |-> {}, left |-> 0]
  <2>3. call' = [call EXCEPT ![a] = k]
    BY <2>1 DEF Reads
  <2>4. CallTrue(k)
    BY <2>2 DEF CallTrue
  <2> HIDE DEF k
  <2>5. files' = files /\ worker' = worker /\ done' = done /\ a \in Callers
    BY <1>1 DEF Begin, manager, Callers
  <2> QED
    BY <1>0, <2>3, <2>4, <2>5, EndsOfCall
<1>2. ASSUME NEW a \in Agents, NEW w \in Workers, Spawn(a, w) PROVE EndsInv'
  <2> DEFINE k == [Idle EXCEPT !.phase = "spawned", !.worker = {w}, !.left = Rows[w] - 1]
  <2>1. CallTrue(k)
    BY DEF Idle, CallTrue
  <2>2. call' = [call EXCEPT ![a] = k]
    BY <1>2 DEF Spawn
  <2> HIDE DEF k
  <2>3. /\ worker[w] \notin Final
        /\ worker' = [worker EXCEPT ![w] = "queued"]
        /\ files' = files /\ done' = done /\ a \in Callers
    BY <1>2 DEF Spawn, Final, Callers
  <2>4. \A v \in Workers : worker[v] \in Final => worker'[v] = worker[v]
    BY <2>3 DEF Shape
  <2>6. \A v \in Workers : \A st : Truthful(v, st) => Truthful(v, st)'
    BY <2>4 DEF Truthful
  <2>7. RowsTrue(files["members"])' /\ RecordsTrue(files["records"])'
    BY <1>0, <2>3, <2>6 DEF RowsTrue, RecordsTrue
  <2>8. Ended'
    BY <2>3, <2>4 DEF EndsInv, Ended, Shape
  <2>9. ASSUME NEW b \in Callers PROVE CallTrue(call[b])'
    <3>1. CASE b = a
      <4>1. call'[b].update = {}
        BY <2>2, <3>1 DEF Shape, k, Idle
      <4> QED
        BY <4>1 DEF CallTrue
    <3>2. CASE b # a
      <4>1. call'[b] = call[b]
        BY <2>2, <3>2 DEF Shape
      <4>2. \A seen : RowsTrue(seen) => RowsTrue(seen)'
        BY <2>6 DEF RowsTrue
      <4> QED
        BY <1>0, <2>6, <4>1, <4>2 DEF CallTrue, CallShape
    <3> QED
      BY <3>1, <3>2
  <2> QED
    BY <2>7, <2>8, <2>9 DEF EndsInv
<1>3. ASSUME NEW a \in Agents, NEW w \in Workers, Wait(a, w) PROVE EndsInv'
  <2> DEFINE k == [Idle EXCEPT !.phase = "wait", !.worker = {w}]
  <2>1. CallTrue(k)
    BY DEF Idle, CallTrue
  <2>2. call' = [call EXCEPT ![a] = k]
    BY <1>3 DEF Wait
  <2> HIDE DEF k
  <2>3. files' = files /\ worker' = worker /\ done' = done /\ a \in Callers
    BY <1>3 DEF Wait, manager, Callers
  <2> QED
    BY <1>0, <2>1, <2>2, <2>3, EndsOfCall
<1>4. ASSUME NEW a \in Callers, WriteDefault(a) PROVE EndsInv'
  <2>1. PICK u \in call[a].update :
            call' = [call EXCEPT ![a] =
                       CASE a = Screen -> [Idle EXCEPT !.phase = "show"]
                         [] a # Screen /\ u.kind = "board" -> Idle
                         [] OTHER -> [call[a] EXCEPT !.phase = "write", !.seen = {DefaultBoard}]]
    BY <1>4 DEF WriteDefault
  <2>2. CallTrue([Idle EXCEPT !.phase = "show"]) /\ CallTrue(Idle)
    BY DEF Idle, CallTrue
  <2>3. CallTrue([call[a] EXCEPT !.phase = "write", !.seen = {DefaultBoard}])
    BY <1>0, <1>4 DEF WriteDefault, CallShape, CallTrue, Fields
  <2>4. /\ files'["members"] = files["members"] /\ files'["records"] = files["records"]
        /\ worker' = worker /\ done' = done
    BY <1>4 DEF WriteDefault, manager, Shape, Files
  <2> QED
    BY <1>0, <2>1, <2>2, <2>3, <2>4, EndsOfCall
<1>5. ASSUME NEW a \in Callers, Write(a) PROVE EndsInv'
  <2>1. PICK u \in call[a].update, seen \in call[a].seen :
            files' = [files EXCEPT ![FileOf(u)] = Apply(u, seen)]
    BY <1>5 DEF Write
  <2>2. CallTrue(AfterWrite(a))
    BY <1>0, AfterWriteCall DEF CallTrue
  <2>3. u.kind \in UpdateKinds /\ (u.kind = "row" => u.worker \in Workers)
    BY <1>0 DEF CallShape
  <2>4. files'["records"] = files["records"]
    BY <2>1, <2>3, FileOfKind DEF Shape, Files
  <2>5. RowsTrue(files'["members"])
    <3>1. CASE u.kind = "row"
      <4>1. Apply(u, seen) = Upsert(seen, u)
        BY <3>1 DEF Apply
      <4>2. files'["members"] = Upsert(seen, u)
        BY <2>1, <2>3, <3>1, <4>1, FileOfKind DEF Shape, Files
      <4>3. RowsTrue(seen) /\ Truthful(u.worker, u.status)
        BY <1>0, <3>1 DEF CallTrue
      <4> QED
        BY <2>3, <3>1, <4>2, <4>3, UpsertTrue
    <3>2. CASE u.kind # "row"
      BY <1>0, <2>1, <2>3, <3>2, FileOfKind DEF Shape, Files
    <3> QED
      BY <3>1, <3>2
  <2>6. call' = [call EXCEPT ![a] = AfterWrite(a)] /\ worker' = worker /\ done' = done
    BY <1>5 DEF Write, manager
  <2> QED
    BY <1>0, <2>2, <2>4, <2>5, <2>6, EndsOfCall
<1>6. ASSUME NEW a \in Callers, WriteFails(a) PROVE EndsInv'
  <2>1. PICK u \in call[a].update : Truncated(FileOf(u))
    BY <1>6 DEF WriteFails
  <2>2. FileOf(u) \in Files
    BY <1>0, FileOfKind DEF CallShape, Files
  <2>3. RowsTrue(files'["members"]) /\ RecordsTrue(files'["records"])
    BY <2>1, <2>2, TruncatedTrue
  <2>4. CallTrue(AfterWrite(a))
    BY <1>0, AfterWriteCall DEF CallTrue
  <2>5. call' = [call EXCEPT ![a] = AfterWrite(a)] /\ worker' = worker /\ done' = done
    BY <1>6 DEF WriteFails, manager
  <2> QED
    BY <2>3, <2>4, <2>5, EndsOfCall
<1>7. ASSUME NEW a \in Callers, SpawnReturns(a) \/ WaitReturns(a) PROVE EndsInv'
  <2>1. PICK w \in call[a].worker, waited \in BOOLEAN :
            /\ call[a].phase \in {"spawned", "wait"}
            /\ waited => w \in done
            /\ call' = [call EXCEPT ![a].phase = "row",
                                    ![a].update = {Row(w, worker[w], waited)},
                                    ![a].worker = {}]
    BY <1>7 DEF SpawnReturns, WaitReturns
  <2> DEFINE u == Row(w, worker[w], waited)
             k == [call[a] EXCEPT !.phase = "row", !.update = {u}, !.worker = {}]
  <2>2. call' = [call EXCEPT ![a] = k]
    BY <2>1 DEF Shape
  <2>3. w \in Workers /\ k.update = {u} /\ k.seen = {}
    BY <1>0, <2>1, RowCall DEF CallShape
  <2>4. u.worker = w /\ u.status = worker[w] /\ u.waited = waited
    BY RowShape
  <2>5. waited => worker[w] \in Final
    BY <2>1 DEF EndsInv, Ended
  <2> HIDE DEF u, k
  <2>6. CallTrue(k)
    BY <2>3, <2>4, <2>5 DEF CallTrue, Truthful
  <2>7. files' = files /\ worker' = worker /\ done' = done
    BY <1>7 DEF SpawnReturns, WaitReturns, manager
  <2> QED
    BY <1>0, <2>2, <2>6, <2>7, EndsOfCall
<1>8. ASSUME NEW a \in Callers, ReadMembers(a) PROVE EndsInv'
  <2>1. PICK u \in call[a].update :
            \/ Reads(a, u, call[a].left)
            \/ call' = [call EXCEPT ![a] = AfterWrite(a)]
    BY <1>8 DEF ReadMembers
  <2>2. files' = files /\ worker' = worker /\ done' = done
    BY <1>8 DEF ReadMembers, manager
  <2>3. CASE Reads(a, u, call[a].left)
    <3> DEFINE k == [phase |-> Phase(u, files[FileOf(u)]), update |-> {u},
                     seen |-> {files[FileOf(u)]}, worker |-> {}, left |-> call[a].left]
    <3>1. call' = [call EXCEPT ![a] = k]
      BY <2>3 DEF Reads
    <3>2. k.update = {u} /\ k.seen = {files[FileOf(u)]}
      OBVIOUS
    <3> HIDE DEF k
    <3>3. u.kind = "row" => FileOf(u) = "members"
      BY DEF FileOf
    <3>4. CallTrue(k)
      BY <1>0, <3>2, <3>3 DEF CallTrue
    <3> QED
      BY <1>0, <2>2, <3>1, <3>4, EndsOfCall
  <2>4. CASE call' = [call EXCEPT ![a] = AfterWrite(a)]
    <3>1. CallTrue(AfterWrite(a))
      BY <1>0, AfterWriteCall DEF CallTrue
    <3> QED
      BY <1>0, <2>2, <2>4, <3>1, EndsOfCall
  <2> QED
    BY <2>1, <2>3, <2>4
<1>9. ASSUME NEW a \in Callers, call' = [call EXCEPT ![a] = Idle],
             UNCHANGED <<files, manager>>
      PROVE  EndsInv'
  BY <1>0, <1>9, IdleShape, EndsOfCall DEF manager
<1>10. ASSUME NEW w \in Workers, RunWorker(w) PROVE EndsInv'
  <2>1. PICK status : worker' = [worker EXCEPT ![w] = status]
    BY <1>10 DEF RunWorker, Ends
  <2>2. worker[w] \notin Final
    BY <1>10 DEF RunWorker, Final
  <2> QED
    BY <1>10, <2>1, <2>2, EndsOfWorker DEF RunWorker
<1>11. ASSUME NEW w \in Workers, Finish(w) PROVE EndsInv'
  <2>1. PICK status \in Final : worker' = [worker EXCEPT ![w] = status]
    BY <1>11 DEF Finish, Ends, Final
  <2>2. worker[w] \notin Final
    BY <1>11 DEF Finish, Final
  <2> QED
    BY <1>11, <2>1, <2>2, EndsOfWorker DEF Finish
<1>12. ASSUME NEW w \in Workers, Cancel(w) PROVE EndsInv'
  BY <1>0, <1>12, EndsKept DEF Cancel
<1>13. ASSUME Snapshot PROVE EndsInv'
  <2> DEFINE show == [Idle EXCEPT !.phase = "show"]
             make == [Idle EXCEPT !.phase = "default", !.update = {[kind |-> "board"]},
                                  !.seen = {files["board"]}]
  <2>1. CallTrue(show) /\ CallTrue(make)
    BY DEF Idle, CallTrue
  <2>2. call' = [call EXCEPT ![Screen] = show] \/ call' = [call EXCEPT ![Screen] = make]
    BY <1>13 DEF Snapshot
  <2> HIDE DEF show, make
  <2>3. files' = files /\ worker' = worker /\ done' = done /\ Screen \in Callers
    BY <1>13 DEF Snapshot, manager, Callers
  <2> QED
    BY <1>0, <2>1, <2>2, <2>3, EndsOfCall
<1>14. ASSUME Materialize PROVE EndsInv'
  <2>1. /\ call' = [call EXCEPT ![Screen] = Idle] /\ Screen \in Callers
        /\ worker' = worker /\ done' = done
    BY <1>14 DEF Materialize, manager, Callers
  <2>2. RowsTrue(files'["members"]) /\ RecordsTrue(files'["records"])
    <3>1. CASE files' = files
      BY <1>0, <3>1
    <3>2. CASE Truncated("records")
      BY <3>2, TruncatedTrue DEF Files
    <3>3. CASE files' = [files EXCEPT !["records"] = Project(@, files["members"])]
      <4>1. /\ files'["members"] = files["members"]
            /\ files'["records"] = Project(files["records"], files["members"])
        BY <3>3 DEF Shape, Files
      <4> QED
        BY <1>0, <4>1, ProjectTrue
    <3> QED
      BY <1>14, <3>1, <3>2, <3>3 DEF Materialize
  <2> QED
    BY <1>0, <2>1, <2>2, IdleShape, EndsOfCall
<1>15. ASSUME Crash PROVE EndsInv'
  <2>1. RowsTrue(files'["members"]) /\ RecordsTrue(files'["records"])
    <3>1. CASE files' = files
      BY <1>0, <3>1
    <3>2. ASSUME NEW f \in Files, Truncated(f)
          PROVE  RowsTrue(files'["members"]) /\ RecordsTrue(files'["records"])
      BY <3>2, TruncatedTrue
    <3>3. \A a \in Callers : \A u \in call[a].update : FileOf(u) \in Files
      BY <1>0, FileOfKind DEF CallShape, Files
    <3>4. "board" \in Files /\ "records" \in Files
      BY DEF Files
    <3> QED
      BY <1>15, <3>1, <3>2, <3>3, <3>4 DEF Crash
  <2>2. \A a \in Callers : CallTrue(call'[a])
    BY <1>0, <1>15, IdleShape DEF Crash
  <2>3. worker' = worker /\ done' \subseteq done
    BY <1>15 DEF Crash
  <2> QED
    BY <2>1, <2>2, <2>3, EndsKept
<1>16. ASSUME UNCHANGED vars PROVE EndsInv'
  BY <1>0, <1>16, EndsKept DEF vars, manager
<1>17. ASSUME NEW a \in Callers, CallStep(a) PROVE EndsInv'
  <2>1. CASE WaitCancelled(a)
    BY <1>9, <2>1 DEF WaitCancelled
  <2> QED
    BY <1>4, <1>5, <1>7, <1>8, <1>17, <2>1 DEF CallStep
<1>18. ASSUME Interrupt PROVE EndsInv'
  BY <1>9, <1>18 DEF Interrupt, Callers, Agents
<1> QED
  BY <1>1, <1>2, <1>3, <1>6, <1>10, <1>11, <1>12, <1>13, <1>14, <1>15, <1>16, <1>17,
     <1>18 DEF Next, WorkerStep

-----------------------------------------------------------------------------
(* The inbox *)

Ordered(inbox) ==
    \A i, j \in DOMAIN inbox :
        (i < j /\ inbox[i].by = inbox[j].by) => inbox[i].n < inbox[j].n

\* Call k is sending a message.
Sending(k) == \E u \in k.update : u.kind = "send"

\* No inbox, on file or as some call has read it, has a message that is still
\* to be sent; the message a call is sending is its sender's latest.
InboxTrue(inbox) ==
    /\ inbox \in Seq(Message)
    /\ Ordered(inbox)
    /\ \A i \in DOMAIN inbox :
        /\ inbox[i].n <= sends[inbox[i].by]
        /\ Sending(call[inbox[i].by]) => inbox[i].n < sends[inbox[i].by]

SendTrue(a) ==
    \A u \in call[a].update :
        u.kind = "send" =>
            /\ a \in Agents
            /\ u.by = a /\ u.n = sends[a]
            /\ call[a].left = 0
            /\ call[a].phase = "write"
            /\ \A seen \in call[a].seen : InboxTrue(seen)

InboxInv ==
    /\ sends \in [Agents -> Nat]
    /\ InboxTrue(files["inbox"])
    /\ \A a \in Callers : SendTrue(a)

\* Every message is of an agent and has a number.
LEMMA MessagesOf ==
    ASSUME NEW inbox \in Seq(Message), NEW i \in DOMAIN inbox
    PROVE  inbox[i].by \in Agents /\ inbox[i].n \in Nat
<1>1. inbox[i] \in Message
  BY LenProperties, ElementOfSeq
<1> QED
  BY <1>1 DEF Message

\* A step that begins no sending leaves what is true of an inbox true.
LEMMA InboxStaysTrue ==
    ASSUME UNCHANGED sends,
           \A b \in Agents : Sending(call'[b]) => Sending(call[b]),
           NEW inbox, InboxTrue(inbox)
    PROVE  InboxTrue(inbox)'
<1>1. \A i \in DOMAIN inbox : inbox[i].by \in Agents
  BY MessagesOf DEF InboxTrue
<1> QED
  BY <1>1 DEF InboxTrue, Sending

\* A step that neither begins to send nor writes a message.
LEMMA InboxKept ==
    ASSUME InboxInv, UNCHANGED sends,
           files'["inbox"] = files["inbox"] \/ files'["inbox"] = << >>,
           \A a \in Callers : call'[a] = call[a] \/ ~Sending(call'[a])
    PROVE  InboxInv'
<1>1. \A b \in Agents : Sending(call'[b]) => Sending(call[b])
  BY DEF Callers
<1>2. \A inbox : InboxTrue(inbox) => InboxTrue(inbox)'
  BY <1>1, InboxStaysTrue
<1>3. InboxTrue(<< >>)
  <2>1. << >> \in Seq(Message) /\ DOMAIN << >> = {}
    BY EmptySeq
  <2> QED
    BY <2>1 DEF InboxTrue, Ordered
<1>4. InboxTrue(files["inbox"])'
  BY <1>2, <1>3 DEF InboxInv, InboxTrue
<1>5. ASSUME NEW a \in Callers PROVE SendTrue(a)'
  <2>1. CASE call'[a] = call[a]
    BY <1>2, <2>1 DEF InboxInv, SendTrue
  <2>2. CASE ~Sending(call'[a])
    BY <2>2 DEF SendTrue, Sending
  <2> QED
    BY <2>1, <2>2
<1> QED
  BY <1>4, <1>5 DEF InboxInv

\* A step that changes one call.
LEMMA InboxOfCall ==
    ASSUME Shape, InboxInv, NEW a \in Callers, NEW k, ~Sending(k),
           call' = [call EXCEPT ![a] = k], UNCHANGED sends,
           files'["inbox"] = files["inbox"] \/ files'["inbox"] = << >>
    PROVE  InboxInv'
<1>1. \A b \in Callers : call'[b] = IF b = a THEN k ELSE call[b]
  BY DEF Shape
<1> QED
  BY <1>1, InboxKept

\* The inbox is empty at first.
LEMMA InitInbox == Init => InboxInv
<1> SUFFICES ASSUME Init PROVE InboxInv
  OBVIOUS
<1>1. files["inbox"] = << >> /\ << >> \in Seq(Message) /\ DOMAIN << >> = {}
  BY EmptySeq DEF Init, Blank
<1>2. \A a \in Callers : SendTrue(a)
  BY IdleShape DEF Init, SendTrue
<1> QED
  BY <1>1, <1>2 DEF Init, InboxInv, InboxTrue, Ordered

\* The sender numbers its messages; what it reads holds earlier ones only.
LEMMA BeginInbox ==
    ASSUME Shape, InboxInv, NEW a \in Agents, Begin(a)
    PROVE  InboxInv'
<1>1. PICK u \in Offered(a) :
        /\ Reads(a, u, 0)
        /\ sends' = [sends EXCEPT ![a] = @ + IF u.kind = "send" THEN 1 ELSE 0]
  BY DEF Begin
<1> DEFINE k == [phase |-> Phase(u, files[FileOf(u)]), update |-> {u},
                 seen |-> {files[FileOf(u)]}, worker |-> {}, left |-> 0]
<1>2. call' = [call EXCEPT ![a] = k] /\ files' = files /\ a \in Callers
  BY <1>1 DEF Reads, Begin, Callers
<1>3. /\ k.update = {u} /\ k.seen = {files[FileOf(u)]} /\ k.left = 0
      /\ k.phase = Phase(u, files[FileOf(u)])
  OBVIOUS
<1> HIDE DEF k
<1>4. \A b \in Callers : call'[b] = IF b = a THEN k ELSE call[b]
  BY <1>2 DEF Shape
<1>5. CASE u.kind # "send"
  <2>1. sends' = sends
    BY <1>1, <1>5 DEF InboxInv
  <2>2. ~Sending(k)
    BY <1>3, <1>5 DEF Sending
  <2> QED
    BY <1>2, <2>1, <2>2, InboxOfCall
<1>6. CASE u.kind = "send"
  <2>1. u.by = a /\ u.n = sends[a] + 1
    BY <1>6 DEF Offered
  <2>2. /\ sends' \in [Agents -> Nat] /\ sends'[a] = sends[a] + 1 /\ sends[a] \in Nat
        /\ \A b \in Agents \ {a} : sends'[b] = sends[b]
    BY <1>1, <1>6 DEF InboxInv
  <2>3. FileOf(u) = "inbox" /\ Phase(u, files[FileOf(u)]) = "write"
    BY <1>6 DEF FileOf, Phase, NeedsDefault
  <2>4. ASSUME NEW inbox, InboxTrue(inbox) PROVE InboxTrue(inbox)'
    <3>1. \A i \in DOMAIN inbox : inbox[i].by \in Agents /\ inbox[i].n \in Nat
      BY <2>4, MessagesOf DEF InboxTrue
    <3>2. ASSUME NEW i \in DOMAIN inbox
          PROVE  /\ inbox[i].n <= sends'[inbox[i].by]
                 /\ Sending(call'[inbox[i].by]) => inbox[i].n < sends'[inbox[i].by]
      <4>1. CASE inbox[i].by = a
        BY <2>2, <2>4, <3>1, <4>1 DEF InboxTrue
      <4>2. CASE inbox[i].by # a
        BY <1>4, <2>2, <2>4, <3>1, <4>2 DEF InboxTrue, Callers
      <4> QED
        BY <4>1, <4>2
    <3> QED
      BY <2>4, <3>2 DEF InboxTrue, Ordered, Sending
  <2>5. ASSUME NEW b \in Callers PROVE SendTrue(b)'
    <3>1. CASE b = a
      BY <1>3, <1>4, <2>1, <2>2, <2>3, <2>4, <3>1 DEF InboxInv, SendTrue
    <3>2. CASE b # a
      BY <1>4, <2>2, <2>4, <3>2 DEF InboxInv, SendTrue
    <3> QED
      BY <3>1, <3>2
  <2> QED
    BY <1>2, <2>2, <2>4, <2>5 DEF InboxInv
<1> QED
  BY <1>5, <1>6

\* The message goes behind all that its sender has sent before.
LEMMA WriteInbox ==
    ASSUME Shape, InboxInv, NEW a \in Callers, Write(a)
    PROVE  InboxInv'
<1>0. CallShape(call[a])
  BY DEF Shape
<1>1. PICK u \in call[a].update, seen \in call[a].seen :
        files' = [files EXCEPT ![FileOf(u)] = Apply(u, seen)]
  BY DEF Write
<1>2. u.kind \in UpdateKinds
  BY <1>0 DEF CallShape
<1>3. call' = [call EXCEPT ![a] = AfterWrite(a)] /\ sends' = sends
  BY DEF Write
<1>4. CASE u.kind # "send"
  <2>1. files'["inbox"] = files["inbox"]
    BY <1>1, <1>2, <1>4, FileOfKind DEF Shape, Files
  <2>2. CASE Sending(call[a])
    <3>1. AfterWrite(a) = Idle
      BY <1>0, <2>2, AfterWriteCall DEF InboxInv, SendTrue, Sending
    <3>2. ~Sending(Idle)
      BY IdleShape DEF Sending
    <3> QED
      BY <1>3, <2>1, <3>1, <3>2, InboxOfCall
  <2>3. CASE ~Sending(call[a])
    <3>1. ~Sending(AfterWrite(a))
      BY <1>0, <2>3, AfterWriteCall DEF Sending
    <3> QED
      BY <1>3, <2>1, <3>1, InboxOfCall
  <2> QED
    BY <2>2, <2>3
<1>5. CASE u.kind = "send"
  <2> DEFINE m == [by |-> u.by, n |-> u.n]
             new == Append(seen, m)
  <2>1. /\ a \in Agents /\ u.by = a /\ u.n = sends[a] /\ call[a].left = 0
        /\ InboxTrue(seen)
    BY <1>5 DEF InboxInv, SendTrue
  <2>2. m \in Message /\ m.by = a /\ m.n = sends[a] /\ sends[a] \in Nat
    BY <2>1 DEF Message, InboxInv
  <2> HIDE DEF m
  <2>3. files'["inbox"] = new
    <3>1. Apply(u, seen) = new /\ FileOf(u) = "inbox"
      BY <1>5 DEF Apply, SendMessage, FileOf, m
    <3> QED
      BY <1>1, <3>1 DEF Shape, Files
  <2>4. /\ seen \in Seq(Message) /\ new \in Seq(Message)
        /\ Len(seen) \in Nat /\ Len(new) = Len(seen) + 1
        /\ \A i \in 1 .. Len(seen) : new[i] = seen[i]
        /\ new[Len(seen) + 1] = m
    BY <2>1, <2>2, AppendProperties, LenProperties DEF InboxTrue
  <2>5. DOMAIN seen = 1 .. Len(seen) /\ DOMAIN new = 1 .. Len(seen) + 1
    BY <2>4, LenProperties
  <2> HIDE DEF new
  <2>6. AfterWrite(a) = Idle /\ ~Sending(Idle)
    BY <1>0, <2>1, AfterWriteCall, IdleShape DEF Sending
  <2>7. \A b \in Callers : call'[b] = IF b = a THEN Idle ELSE call[b]
    BY <1>3, <2>6 DEF Shape
  <2>8. Sending(call[a]) /\ ~Sending(call'[a])
    BY <1>5, <2>6, <2>7 DEF Sending
  <2>9. \A i \in DOMAIN seen :
           seen[i].by \in Agents /\ seen[i].n \in Nat /\ seen[i].n <= sends[seen[i].by]
    BY <2>1, <2>4, MessagesOf DEF InboxTrue
  <2>10. \A i \in DOMAIN seen : seen[i].by = a => seen[i].n < sends[a]
    BY <2>1, <2>8 DEF InboxTrue
  <2>11. Ordered(new)
    <3> SUFFICES ASSUME NEW i \in 1 .. Len(seen) + 1, NEW j \in 1 .. Len(seen) + 1,
                        i < j, new[i].by = new[j].by
                 PROVE  new[i].n < new[j].n
      BY <2>5 DEF Ordered
    <3>1. i \in DOMAIN seen /\ new[i] = seen[i]
      BY <2>4, <2>5
    <3>2. CASE j = Len(seen) + 1
      BY <2>2, <2>4, <2>10, <3>1, <3>2
    <3>3. CASE j # Len(seen) + 1
      <4>1. j \in DOMAIN seen /\ new[j] = seen[j]
        BY <2>4, <2>5, <3>3
      <4> QED
        BY <2>1, <3>1, <4>1 DEF InboxTrue, Ordered
    <3> QED
      BY <3>2, <3>3
  <2>12. ASSUME NEW i \in DOMAIN new
         PROVE  /\ new[i].n <= sends[new[i].by]
                /\ Sending(call'[new[i].by]) => new[i].n < sends[new[i].by]
    <3>1. CASE i = Len(seen) + 1
      BY <2>2, <2>4, <2>8, <3>1
    <3>2. CASE i # Len(seen) + 1
      <4>1. i \in DOMAIN seen /\ new[i] = seen[i]
        BY <2>4, <2>5, <3>2
      <4>2. seen[i].by \in Callers
        BY <2>9, <4>1 DEF Callers
      <4>3. Sending(call'[seen[i].by]) => Sending(call[seen[i].by])
        BY <2>7, <2>8, <4>2
      <4> QED
        BY <2>1, <4>1, <4>3 DEF InboxTrue
    <3> QED
      BY <3>1, <3>2
  <2>13. InboxTrue(files["inbox"])'
    BY <1>3, <2>3, <2>4, <2>11, <2>12 DEF InboxTrue, Ordered, Sending
  <2>14. \A b \in Agents : Sending(call'[b]) => Sending(call[b])
    BY <2>7, <2>8 DEF Callers
  <2>15. \A inbox : InboxTrue(inbox) => InboxTrue(inbox)'
    BY <1>3, <2>14, InboxStaysTrue
  <2>16. ASSUME NEW b \in Callers PROVE SendTrue(b)'
    <3>1. CASE b = a
      BY <2>7, <3>1, IdleShape DEF SendTrue
    <3>2. CASE b # a
      BY <1>3, <2>7, <2>15, <3>2 DEF InboxInv, SendTrue
    <3> QED
      BY <3>1, <3>2
  <2> QED
    BY <1>3, <2>13, <2>16 DEF InboxInv
<1> QED
  BY <1>4, <1>5

\* One step per action; only Begin and Write have to do with messages.
LEMMA NextInbox == Shape /\ InboxInv /\ [Next]_vars => InboxInv'
<1> SUFFICES ASSUME Shape, InboxInv, [Next]_vars PROVE InboxInv'
  OBVIOUS
<1>0. /\ \A a \in Callers : CallShape(call[a]) /\ SendTrue(a)
      /\ \A k : k.update = {} => ~Sending(k)
      /\ ~Sending(Idle)
  BY IdleShape DEF Shape, InboxInv, Sending
<1>1. ASSUME NEW a \in Agents, NEW w \in Workers, Spawn(a, w) PROVE InboxInv'
  <2> DEFINE k == [Idle EXCEPT !.phase = "spawned", !.worker = {w}, !.left = Rows[w] - 1]
  <2>1. k.update = {}
    BY DEF Idle
  <2>2. call' = [call EXCEPT ![a] = k] /\ files' = files /\ sends' = sends /\ a \in Callers
    BY <1>1 DEF Spawn, Callers
  <2> HIDE DEF k
  <2> QED
    BY <1>0, <2>1, <2>2, InboxOfCall
<1>2. ASSUME NEW a \in Agents, NEW w \in Workers, Wait(a, w) PROVE InboxInv'
  <2> DEFINE k == [Idle EXCEPT !.phase = "wait", !.worker = {w}]
  <2>1. k.update = {}
    BY DEF Idle
  <2>2. call' = [call EXCEPT ![a] = k] /\ files' = files /\ sends' = sends /\ a \in Callers
    BY <1>2 DEF Wait, Callers
  <2> HIDE DEF k
  <2> QED
    BY <1>0, <2>1, <2>2, InboxOfCall
<1>3. ASSUME NEW a \in Callers, WriteDefault(a) PROVE InboxInv'
  <2>1. PICK u \in call[a].update :
            call' = [call EXCEPT ![a] =
                       CASE a = Screen -> [Idle EXCEPT !.phase = "show"]
                         [] a # Screen /\ u.kind = "board" -> Idle
                         [] OTHER -> [call[a] EXCEPT !.phase = "write", !.seen = {DefaultBoard}]]
    BY <1>3 DEF WriteDefault
  <2>2. [Idle EXCEPT !.phase = "show"].update = {}
    BY DEF Idle
  <2>3. ~Sending([call[a] EXCEPT !.phase = "write", !.seen = {DefaultBoard}])
    BY <1>0, <1>3 DEF WriteDefault, CallShape, Sending, Fields
  <2>4. files'["inbox"] = files["inbox"] /\ sends' = sends
    BY <1>3 DEF WriteDefault, Shape, Files
  <2> QED
    BY <1>0, <2>1, <2>2, <2>3, <2>4, InboxOfCall
<1>4. ASSUME NEW f \in Files, Truncated(f)
      PROVE  files'["inbox"] = files["inbox"] \/ files'["inbox"] = << >>
  BY <1>4 DEF Truncated, Blank, Shape, Files
<1>5. ASSUME NEW a \in Callers, call' = [call EXCEPT ![a] = AfterWrite(a)],
             call[a].phase # "write" \/ \E f \in Files : Truncated(f),
             files' = files \/ \E f \in Files : Truncated(f), sends' = sends
      PROVE  InboxInv'
  <2>1. ~Sending(AfterWrite(a))
    <3>1. CASE Sending(call[a])
      BY <1>0, <3>1, AfterWriteCall DEF SendTrue, Sending
    <3>2. CASE ~Sending(call[a])
      BY <1>0, <3>2, AfterWriteCall DEF Sending
    <3> QED
      BY <3>1, <3>2
  <2> QED
    BY <1>4, <1>5, <2>1, InboxOfCall
<1>6. ASSUME NEW a \in Callers, WriteFails(a) PROVE InboxInv'
  <2>1. \E f \in Files : Truncated(f)
    BY <1>0, <1>6, FileOfKind DEF WriteFails, CallShape, Files
  <2> QED
    BY <1>5, <1>6, <2>1 DEF WriteFails
<1>7. ASSUME NEW a \in Callers, SpawnReturns(a) \/ WaitReturns(a) PROVE InboxInv'
  <2>1. PICK w \in call[a].worker, waited \in BOOLEAN :
            /\ call[a].phase \in {"spawned", "wait"}
            /\ call' = [call EXCEPT ![a].phase = "row",
                                    ![a].update = {Row(w, worker[w], waited)},
                                    ![a].worker = {}]
    BY <1>7 DEF SpawnReturns, WaitReturns
  <2> DEFINE u == Row(w, worker[w], waited)
             k == [call[a] EXCEPT !.phase = "row", !.update = {u}, !.worker = {}]
  <2>2. call' = [call EXCEPT ![a] = k]
    BY <2>1 DEF Shape
  <2>3. k.update = {u} /\ u.kind = "row"
    BY <1>0, <2>1, RowCall, RowShape DEF CallShape
  <2> HIDE DEF u, k
  <2>4. ~Sending(k)
    BY <2>3 DEF Sending
  <2>5. files' = files /\ sends' = sends
    BY <1>7 DEF SpawnReturns, WaitReturns
  <2> QED
    BY <2>2, <2>4, <2>5, InboxOfCall
<1>8. ASSUME NEW a \in Callers, ReadMembers(a) PROVE InboxInv'
  <2>1. PICK u \in call[a].update :
            \/ Reads(a, u, call[a].left)
            \/ call' = [call EXCEPT ![a] = AfterWrite(a)]
    BY <1>8 DEF ReadMembers
  <2>2. files' = files /\ sends' = sends /\ call[a].phase = "row"
    BY <1>8 DEF ReadMembers
  <2>3. CASE Reads(a, u, call[a].left)
    <3> DEFINE k == [phase |-> Phase(u, files[FileOf(u)]), update |-> {u},
                     seen |-> {files[FileOf(u)]}, worker |-> {}, left |-> call[a].left]
    <3>1. call' = [call EXCEPT ![a] = k] /\ k.update = {u}
      BY <2>3 DEF Reads
    <3> HIDE DEF k
    <3>2. u.kind # "send"
      BY <1>0, <2>2 DEF SendTrue
    <3>3. ~Sending(k)
      BY <3>1, <3>2 DEF Sending
    <3> QED
      BY <2>2, <3>1, <3>3, InboxOfCall
  <2>4. CASE call' = [call EXCEPT ![a] = AfterWrite(a)]
    BY <1>5, <2>2, <2>4
  <2> QED
    BY <2>1, <2>3, <2>4
<1>9. ASSUME NEW a \in Callers, call' = [call EXCEPT ![a] = Idle],
             UNCHANGED <<files, sends>>
      PROVE  InboxInv'
  BY <1>0, <1>9, InboxOfCall
<1>10. ASSUME NEW w \in Workers, WorkerStep(w) \/ Cancel(w) PROVE InboxInv'
  BY <1>10, InboxKept DEF WorkerStep, RunWorker, Finish, Cancel
<1>11. ASSUME Snapshot PROVE InboxInv'
  <2> DEFINE show == [Idle EXCEPT !.phase = "show"]
             make == [Idle EXCEPT !.phase = "default", !.update = {[kind |-> "board"]},
                                  !.seen = {files["board"]}]
  <2>1. ~Sending(show) /\ ~Sending(make)
    BY DEF Idle, Sending
  <2>2. call' = [call EXCEPT ![Screen] = show] \/ call' = [call EXCEPT ![Screen] = make]
    BY <1>11 DEF Snapshot
  <2> HIDE DEF show, make
  <2>3. files' = files /\ sends' = sends /\ Screen \in Callers
    BY <1>11 DEF Snapshot, Callers
  <2> QED
    BY <2>1, <2>2, <2>3, InboxOfCall
<1>12. ASSUME Materialize PROVE InboxInv'
  <2>1. call' = [call EXCEPT ![Screen] = Idle] /\ Screen \in Callers /\ sends' = sends
    BY <1>12 DEF Materialize, Callers
  <2>2. files'["inbox"] = files["inbox"] \/ files'["inbox"] = << >>
    <3>1. CASE files' = [files EXCEPT !["records"] = Project(@, files["members"])]
      BY <3>1 DEF Shape, Files
    <3> QED
      BY <1>4, <1>12, <3>1 DEF Materialize, Files
  <2> QED
    BY <1>0, <2>1, <2>2, InboxOfCall
<1>13. ASSUME Crash PROVE InboxInv'
  <2>1. files'["inbox"] = files["inbox"] \/ files'["inbox"] = << >>
    <3>1. \A a \in Callers : \A u \in call[a].update : FileOf(u) \in Files
      BY <1>0, FileOfKind DEF CallShape, Files
    <3>2. "board" \in Files /\ "records" \in Files
      BY DEF Files
    <3> QED
      BY <1>4, <1>13, <3>1, <3>2 DEF Crash
  <2>2. sends' = sends /\ \A a \in Callers : call'[a] = Idle
    BY <1>13 DEF Crash
  <2> QED
    BY <1>0, <2>1, <2>2, InboxKept
<1>14. ASSUME UNCHANGED vars PROVE InboxInv'
  BY <1>14, InboxKept DEF vars
<1>15. ASSUME NEW a \in Callers, CallStep(a) PROVE InboxInv'
  <2>1. CASE WaitCancelled(a)
    BY <1>9, <2>1 DEF WaitCancelled
  <2> QED
    BY <1>3, <1>7, <1>8, <1>15, <2>1, WriteInbox DEF CallStep
<1>16. ASSUME Interrupt PROVE InboxInv'
  BY <1>9, <1>16 DEF Interrupt, Callers, Agents
<1> QED
  BY <1>1, <1>2, <1>6, <1>10, <1>11, <1>12, <1>13, <1>14, <1>15, <1>16, BeginInbox
     DEF Next

-----------------------------------------------------------------------------
(* The types, and what calls that do not overlap leave in the files *)

\* A board that was not made is an empty file: only the default is written
\* over it.
MadeOrBlank(board) == board.made \/ board = Blank["board"]

\* A call writes what it makes of content of the same file; a default only
\* over a board that it saw missing; and only a row more than once.
CallTyped(k) ==
    /\ k.phase \in {"idle", "default", "write", "spawned", "row", "wait", "show"}
    /\ k.update \subseteq Update
    /\ k.worker \subseteq Workers
    /\ k.left \in Nat
    /\ \A u \in k.update :
        /\ k.seen \subseteq Contents(FileOf(u))
        /\ u.kind # "row" => k.left = 0 /\ k.phase # "row"
        /\ FileOf(u) = "board" => \A seen \in k.seen :
             /\ MadeOrBlank(seen)
             /\ k.phase = "default" => ~seen.made
             /\ k.phase = "write" => seen.made

FilesTyped ==
    /\ DOMAIN files = Files /\ DOMAIN expected = Files
    /\ \A f \in Files : files[f] \in Contents(f) /\ expected[f] \in Contents(f)
    /\ MadeOrBlank(files["board"])
    /\ torn \subseteq Files /\ disturbed \subseteq Files
    /\ AcknowledgedIsKept

RestTyped ==
    /\ worker \in [Workers -> WorkerStatus]
    /\ known \subseteq Workers /\ done \subseteq known /\ cancelled \subseteq known
    /\ sends \in [Agents -> Nat]
    /\ calls \in 0..MaxCalls
    /\ added \in [Tasks -> Nat]

TypedInv == FilesTyped /\ RestTyped /\ \A a \in Callers : CallTyped(call[a])

LEMMA ContentsAre ==
    /\ Contents("inbox") = Seq(Message)
    /\ Contents("board") = TaskBoard
    /\ Contents("handoffs") = [Handoffs -> Handoff]
    /\ Contents("members") = [Names -> Member]
    /\ Contents("records") = [Workers -> WorkerStatus]
  BY DEF Contents

\* An empty file, and the default board, are contents.
LEMMA BlankTyped ==
    /\ \A f \in Files : Blank[f] \in Contents(f)
    /\ MadeOrBlank(Blank["board"]) /\ ~Blank["board"].made
    /\ DefaultBoard \in TaskBoard /\ DefaultBoard.made
    /\ DefaultBoard = [Blank["board"] EXCEPT !.made = TRUE]
    /\ \A c \in Columns : Blank["board"].columns[c] = {} /\ DefaultBoard.columns[c] = {}
<1>1. /\ Blank["inbox"] = << >>
      /\ Blank["board"] = [made |-> FALSE, columns |-> [c \in Columns |-> {}]]
      /\ Blank["handoffs"] = [h \in Handoffs |-> [status |-> "none", by |-> {}]]
      /\ Blank["members"] = [n \in Names |-> [session |-> {}, status |-> "unborn"]]
      /\ Blank["records"] = [w \in Workers |-> "unborn"]
  BY DEF Blank
<1>2. Blank["inbox"] \in Seq(Message)
  BY <1>1, EmptySeq
<1>3. Blank["board"] \in TaskBoard
  BY <1>1 DEF TaskBoard
<1>4. Blank["handoffs"] \in [Handoffs -> Handoff]
  BY <1>1 DEF Handoff
<1>5. Blank["members"] \in [Names -> Member]
  BY <1>1 DEF Member, WorkerStatus
<1>6. Blank["records"] \in [Workers -> WorkerStatus]
  BY <1>1 DEF WorkerStatus
<1>7. DefaultBoard = [Blank["board"] EXCEPT !.made = TRUE]
  BY DEF DefaultBoard
<1>8. DefaultBoard = [made |-> TRUE, columns |-> [c \in Columns |-> {}]]
  <2> PICK none : none = [c \in Columns |-> {}]
    OBVIOUS
  <2>1. Blank["board"] = [made |-> FALSE, columns |-> none]
    BY <1>1
  <2>2. Blank["board"] \in [made : BOOLEAN, columns : {none}]
    BY <2>1
  <2>3. DefaultBoard \in [made : {TRUE}, columns : {none}]
    BY <1>7, <2>2
  <2>4. DefaultBoard = [made |-> TRUE, columns |-> none]
    BY <2>3
  <2> QED
    BY <2>4
<1>9. DefaultBoard \in TaskBoard
  BY <1>8 DEF TaskBoard
<1>10. \A f \in Files : Blank[f] \in Contents(f)
  BY <1>2, <1>3, <1>4, <1>5, <1>6, ContentsAre DEF Files
<1>11. ~Blank["board"].made /\ MadeOrBlank(Blank["board"])
  BY <1>1 DEF MadeOrBlank
<1>12. DefaultBoard.made /\ \A c \in Columns : Blank["board"].columns[c] = {} /\ DefaultBoard.columns[c] = {}
  BY <1>1, <1>8
<1> QED
  BY <1>7, <1>9, <1>10, <1>11, <1>12

\* What each kind of update says.
LEMMA UpdateFields ==
    ASSUME NEW u \in Update
    PROVE  /\ u.kind \in UpdateKinds
           /\ u.kind = "send" => u.by \in Agents /\ u.n \in Nat
           /\ u.kind \in {"add", "move"} => u.task \in Tasks /\ u.column \in Columns
           /\ u.kind \in {"create", "accept"} => u.handoff \in Handoffs /\ u.by \in Agents
           /\ u.kind = "row" => u.worker \in Workers /\ u.status \in WorkerStatus
  BY DEF Update, UpdateKinds

\* Every update makes content of the file of content of it.
LEMMA ApplyTyped ==
    ASSUME NEW u \in Update, NEW data \in Contents(FileOf(u))
    PROVE  /\ Apply(u, data) \in Contents(FileOf(u))
           /\ FileOf(u) = "board" => Apply(u, data).made = data.made
<1>0. u.kind \in UpdateKinds
  BY UpdateFields
<1>1. CASE u.kind = "send"
  <2>1. FileOf(u) = "inbox" /\ Apply(u, data) = Append(data, [by |-> u.by, n |-> u.n])
    BY <1>1 DEF FileOf, Apply, SendMessage
  <2>2. [by |-> u.by, n |-> u.n] \in Message
    BY <1>1, UpdateFields DEF Message
  <2>3. data \in Seq(Message)
    BY <2>1, ContentsAre
  <2>4. Apply(u, data) \in Seq(Message)
    BY <2>1, <2>2, <2>3, AppendProperties
  <2>5. Apply(u, data) \in Contents(FileOf(u))
    BY <2>1, <2>4, ContentsAre
  <2>6. FileOf(u) # "board"
    BY <2>1
  <2> QED
    BY <2>5, <2>6
<1>2. CASE u.kind \in {"add", "move", "board"}
  <2>1. FileOf(u) = "board"
    BY <1>2 DEF FileOf
  <2>2. data \in TaskBoard
    BY <2>1, ContentsAre
  <2>3. CASE u.kind = "board"
    BY <2>1, <2>2, <2>3, ContentsAre DEF Apply
  <2>4. CASE u.kind = "add"
    <3>1. Apply(u, data) = [data EXCEPT !.columns = AddTaskToColumn(@, u.task, u.column)]
      BY <2>4 DEF Apply
    <3>2. AddTaskToColumn(data.columns, u.task, u.column) \in [Columns -> SUBSET Tasks]
      BY <2>2, <2>4, UpdateFields DEF TaskBoard, AddTaskToColumn
    <3>3. Apply(u, data) \in TaskBoard /\ Apply(u, data).made = data.made
      BY <2>2, <3>1, <3>2 DEF TaskBoard
    <3> QED
      BY <2>1, <3>3, ContentsAre
  <2>5. CASE u.kind = "move"
    <3>1. Apply(u, data) = [data EXCEPT !.columns = MoveTask(@, u.task, u.column)]
      BY <2>5 DEF Apply
    <3>2. MoveTask(data.columns, u.task, u.column) \in [Columns -> SUBSET Tasks]
      BY <2>2, <2>5, UpdateFields DEF TaskBoard, MoveTask
    <3>3. Apply(u, data) \in TaskBoard /\ Apply(u, data).made = data.made
      BY <2>2, <3>1, <3>2 DEF TaskBoard
    <3> QED
      BY <2>1, <3>3, ContentsAre
  <2> QED
    BY <1>2, <2>3, <2>4, <2>5
<1>3. CASE u.kind \in {"create", "accept"}
  <2>1. FileOf(u) = "handoffs" /\ data \in [Handoffs -> Handoff]
    BY <1>3, ContentsAre DEF FileOf
  <2>2. \E status \in {"pending", "accepted"} :
          Apply(u, data) = [data EXCEPT ![u.handoff] = [status |-> status, by |-> {u.by}]]
    BY <1>3 DEF Apply
  <2>3. \A status \in {"pending", "accepted"} : [status |-> status, by |-> {u.by}] \in Handoff
    BY <1>3, UpdateFields DEF Handoff
  <2>4. Apply(u, data) \in [Handoffs -> Handoff]
    BY <2>1, <2>2, <2>3
  <2> QED
    BY <2>1, <2>4, ContentsAre
<1>4. CASE u.kind = "row"
  <2>1. FileOf(u) = "members" /\ data \in [Names -> Member]
    BY <1>4, ContentsAre DEF FileOf
  <2>2. Apply(u, data) = [data EXCEPT ![NameOf[u.worker]] = [session |-> {u.worker}, status |-> u.status]]
    BY <1>4 DEF Apply, Upsert
  <2>3. [session |-> {u.worker}, status |-> u.status] \in Member
    BY <1>4, UpdateFields DEF Member
  <2>4. Apply(u, data) \in [Names -> Member]
    BY <2>1, <2>2, <2>3
  <2> QED
    BY <2>1, <2>4, ContentsAre
<1> QED
  BY <1>0, <1>1, <1>2, <1>3, <1>4 DEF UpdateKinds

LEMMA IdleTyped ==
    /\ CallTyped(Idle)
    /\ CallTyped([Idle EXCEPT !.phase = "show"])
  BY DEF Idle, CallTyped

\* A call without an update: one that spawns, or waits.
LEMMA BareTyped ==
    ASSUME NEW w \in Workers, NEW left \in Nat
    PROVE  /\ CallTyped([Idle EXCEPT !.phase = "spawned", !.worker = {w}, !.left = left])
           /\ CallTyped([Idle EXCEPT !.phase = "wait", !.worker = {w}])
  BY DEF Idle, CallTyped

\* A call that has read what it will write.
LEMMA ReadsTyped ==
    ASSUME FilesTyped, NEW a \in Callers, NEW u \in Update, NEW left \in Nat,
           u.kind # "row" => left = 0, Reads(a, u, left)
    PROVE  \E k : /\ call' = [call EXCEPT ![a] = k] /\ CallTyped(k) /\ CallShape(k)
                  /\ k.update = {u} /\ k.seen = {files[FileOf(u)]} /\ k.left = left
<1> PICK f : f = FileOf(u)
  OBVIOUS
<1> PICK k : k = [phase |-> Phase(u, files[f]), update |-> {u},
                  seen |-> {files[f]}, worker |-> {}, left |-> left]
  OBVIOUS
<1>1. call' = [call EXCEPT ![a] = k]
  BY DEF Reads
<1>2. /\ DOMAIN k = Fields /\ k.phase = Phase(u, files[f]) /\ k.update = {u}
      /\ k.seen = {files[f]} /\ k.worker = {} /\ k.left = left
  BY DEF Fields
<1>3. u.kind \in UpdateKinds /\ (u.kind = "row" => u.worker \in Workers)
  BY UpdateFields
<1>4. f \in Files /\ (f = "board" <=> u.kind \in {"add", "move", "board"})
  BY <1>3, FileOfKind DEF Files
<1>5. /\ k.phase \in {"default", "write"}
      /\ k.phase = "default" => f = "board" /\ ~files[f].made
      /\ (k.phase = "write" /\ f = "board") => files[f].made
  BY <1>2 DEF Phase, NeedsDefault
<1>6. CallShape(k)
  BY <1>2, <1>3, <1>4, <1>5 DEF CallShape
<1>7. files[f] \in Contents(f) /\ (f = "board" => MadeOrBlank(files[f]))
  BY <1>4 DEF FilesTyped
<1>8. CallTyped(k)
  BY <1>2, <1>5, <1>7 DEF CallTyped
<1> QED
  BY <1>1, <1>2, <1>6, <1>8

LEMMA AfterWriteTyped ==
    ASSUME NEW a \in Callers, CallTyped(call[a]), CallShape(call[a])
    PROVE  CallTyped(AfterWrite(a))
<1>1. CASE call[a].left = 0
  BY <1>1, IdleTyped DEF AfterWrite
<1>2. CASE call[a].left # 0
  <2> PICK k : k = AfterWrite(a)
    OBVIOUS
  <2>1. k = [call[a] EXCEPT !.phase = "row", !.seen = {}, !.left = call[a].left - 1]
    BY <1>2 DEF AfterWrite
  <2>2. /\ k.phase = "row" /\ k.seen = {} /\ k.left = call[a].left - 1
        /\ k.update = call[a].update /\ k.worker = call[a].worker
    BY <2>1 DEF CallShape, Fields
  <2>3. k.left \in Nat
    BY <1>2, <2>2 DEF CallTyped
  <2>4. \A u \in k.update : u.kind = "row"
    BY <1>2, <2>2 DEF CallTyped
  <2> QED
    BY <2>2, <2>3, <2>4 DEF CallTyped
<1> QED
  BY <1>1, <1>2

\* The row of a worker that was spawned or waited for.
LEMMA RowTyped ==
    ASSUME RestTyped, NEW a \in Callers, CallTyped(call[a]), CallShape(call[a]),
           call[a].phase \in {"spawned", "wait"}, NEW w \in Workers, NEW waited \in BOOLEAN
    PROVE  CallTyped([call[a] EXCEPT !.phase = "row",
                                     !.update = {Row(w, worker[w], waited)}, !.worker = {}])
<1> PICK u : u = Row(w, worker[w], waited)
  OBVIOUS
<1> PICK k : k = [call[a] EXCEPT !.phase = "row", !.update = {u}, !.worker = {}]
  OBVIOUS
<1>1. /\ k.phase = "row" /\ k.worker = {} /\ k.update = {u}
      /\ k.seen = call[a].seen /\ k.left = call[a].left
  BY DEF CallShape, Fields
<1>2. k.seen = {} /\ k.left \in Nat
  BY <1>1 DEF CallShape, CallTyped
<1>3. u.kind = "row" /\ u \in Update
  <2>1. worker[w] \in WorkerStatus
    BY DEF RestTyped
  <2> QED
    BY <2>1 DEF Row, Update
<1>4. CallTyped(k)
  BY <1>1, <1>2, <1>3 DEF CallTyped
<1> QED
  BY <1>4

\* A step that leaves one caller with a call of the right types.
LEMMA TypedOfCall ==
    ASSUME Shape, TypedInv, NEW a \in Callers, NEW k, CallTyped(k),
           call' = [call EXCEPT ![a] = k], FilesTyped', RestTyped'
    PROVE  TypedInv'
<1>1. \A b \in Callers : call'[b] = IF b = a THEN k ELSE call[b]
  BY DEF Shape
<1>2. \A b \in Callers : CallTyped(call'[b])
  BY <1>1 DEF TypedInv
<1>3. \A b \in Callers : CallTyped(call[b])'
  BY <1>2 DEF CallTyped
<1> QED
  BY <1>3 DEF TypedInv

LEMMA TypedUnchanged ==
    ASSUME TypedInv, UNCHANGED call, FilesTyped', RestTyped'
    PROVE  TypedInv'
<1>1. \A b \in Callers : CallTyped(call[b])'
  BY DEF TypedInv, CallTyped
<1> QED
  BY <1>1 DEF TypedInv

LEMMA FilesStay ==
    ASSUME FilesTyped, UNCHANGED <<files, expected, torn, disturbed>>
    PROVE  FilesTyped'
  BY DEF FilesTyped, MadeOrBlank, AcknowledgedIsKept

\* A write that fails disturbs its file.
LEMMA FilesTruncated ==
    ASSUME FilesTyped, NEW f \in Files, Truncated(f), UNCHANGED expected
    PROVE  FilesTyped'
<1>1. /\ files' = [files EXCEPT ![f] = Blank[f]]
      /\ torn' \subseteq Files /\ disturbed' = disturbed \cup {f}
  BY DEF Truncated, FilesTyped
<1>2. DOMAIN files' = Files /\ \A g \in Files : files'[g] = IF g = f THEN Blank[f] ELSE files[g]
  BY <1>1 DEF FilesTyped
<1>3. \A g \in Files : files'[g] \in Contents(g)
  BY <1>2, BlankTyped DEF FilesTyped
<1>4. "board" \in Files
  BY DEF Files
<1>5. MadeOrBlank(files'["board"])
  BY <1>2, <1>4, BlankTyped DEF FilesTyped
<1>6. AcknowledgedIsKept'
  BY <1>1, <1>2 DEF FilesTyped, AcknowledgedIsKept
<1> QED
  BY <1>1, <1>2, <1>3, <1>5, <1>6 DEF FilesTyped, MadeOrBlank

LEMMA RestStays ==
    ASSUME RestTyped, UNCHANGED <<manager, sends, added>>, UNCHANGED calls \/ NewCall \/ Fault
    PROVE  RestTyped'
<1>1. calls' \in 0..MaxCalls
  <2>1. calls \in 0..MaxCalls /\ MaxCalls \in Nat
    BY TeamAssumption DEF RestTyped
  <2>2. CASE UNCHANGED calls
    BY <2>1, <2>2
  <2>3. CASE NewCall
    BY <2>1, <2>3 DEF NewCall
  <2>4. CASE Fault
    BY <2>1, <2>4 DEF Fault
  <2> QED
    BY <2>2, <2>3, <2>4
<1> QED
  BY <1>1 DEF RestTyped, manager

\* The files after a step that writes one of them; if it was as the call has
\* read it, what it should hold and what it does hold go together.
LEMMA FilesWritten ==
    ASSUME FilesTyped, NEW f \in Files, NEW seen, NEW new, NEW should,
           files' = [files EXCEPT ![f] = new], expected' = [expected EXCEPT ![f] = should],
           torn' = torn \ {f}, Overwrites(f, seen),
           new \in Contents(f), should \in Contents(f), f = "board" => new.made,
           (files[f] = seen /\ expected[f] = seen) => new = should
    PROVE  FilesTyped'
<1>1. /\ DOMAIN files' = Files /\ \A g \in Files : files'[g] = IF g = f THEN new ELSE files[g]
      /\ DOMAIN expected' = Files
      /\ \A g \in Files : expected'[g] = IF g = f THEN should ELSE expected[g]
  BY DEF FilesTyped
<1>2. \A g \in Files : files'[g] \in Contents(g) /\ expected'[g] \in Contents(g)
  BY <1>1 DEF FilesTyped
<1>3. "board" \in Files
  BY DEF Files
<1>4. MadeOrBlank(files'["board"])
  BY <1>1, <1>3 DEF FilesTyped, MadeOrBlank
<1>5. /\ disturbed' \subseteq Files /\ disturbed \subseteq disturbed'
      /\ f \notin disturbed' => files[f] = seen
  BY DEF Overwrites, FilesTyped
<1>6. ASSUME NEW g \in Files \ (disturbed' \cup {"records"})
      PROVE  files'[g] = expected'[g]
  <2>1. g \in Files \ (disturbed \cup {"records"})
    BY <1>5, <1>6
  <2>2. files[g] = expected[g]
    BY <2>1 DEF FilesTyped, AcknowledgedIsKept
  <2>3. CASE g = f
    <3>1. files[f] = seen /\ expected[f] = seen
      BY <1>5, <1>6, <2>2, <2>3
    <3> QED
      BY <1>1, <2>3, <3>1
  <2>4. CASE g # f
    BY <1>1, <2>1, <2>2, <2>4
  <2> QED
    BY <2>3, <2>4
<1>7. torn' \subseteq Files
  BY DEF FilesTyped
<1> QED
  BY <1>1, <1>2, <1>4, <1>5, <1>6, <1>7 DEF FilesTyped, MadeOrBlank, AcknowledgedIsKept

LEMMA WriteTyped ==
    ASSUME Shape, TypedInv, NEW a \in Callers, Write(a)
    PROVE  TypedInv'
<1>1. CallTyped(call[a]) /\ CallShape(call[a]) /\ FilesTyped /\ RestTyped
  BY DEF Shape, TypedInv
<1>2. PICK u \in call[a].update, seen \in call[a].seen :
        /\ files' = [files EXCEPT ![FileOf(u)] = Apply(u, seen)]
        /\ expected' = [expected EXCEPT ![FileOf(u)] = Apply(u, @)]
        /\ torn' = torn \ {FileOf(u)}
        /\ Overwrites(FileOf(u), seen)
  BY DEF Write
<1>3. call[a].phase = "write" /\ call' = [call EXCEPT ![a] = AfterWrite(a)]
      /\ UNCHANGED <<manager, sends, calls, added>>
  BY DEF Write
<1> PICK f : f = FileOf(u)
  OBVIOUS
<1>4. u \in Update /\ seen \in Contents(f) /\ (f = "board" => seen.made)
  BY <1>1, <1>3 DEF CallTyped
<1>5. f \in Files
  BY <1>4, UpdateFields, FileOfKind DEF Files
<1>6. expected[f] \in Contents(f)
  BY <1>1, <1>5 DEF FilesTyped
<1> PICK new : new = Apply(u, seen)
  OBVIOUS
<1> PICK should : should = Apply(u, expected[f])
  OBVIOUS
<1>7. new \in Contents(f) /\ should \in Contents(f) /\ (f = "board" => new.made)
  BY <1>4, <1>6, ApplyTyped
<1>8. files' = [files EXCEPT ![f] = new] /\ expected' = [expected EXCEPT ![f] = should]
  BY <1>1, <1>2, <1>5 DEF FilesTyped
<1>9. FilesTyped'
  BY <1>1, <1>2, <1>5, <1>7, <1>8, FilesWritten
<1>10. RestTyped'
  BY <1>1, <1>3, RestStays
<1> QED
  BY <1>1, <1>3, <1>9, <1>10, AfterWriteTyped, TypedOfCall

\* The default board goes over a file without a board, or disturbs it.
LEMMA WriteDefaultTyped ==
    ASSUME Shape, TypedInv, NEW a \in Callers, WriteDefault(a)
    PROVE  TypedInv'
<1>1. CallTyped(call[a]) /\ CallShape(call[a]) /\ FilesTyped /\ RestTyped
  BY DEF Shape, TypedInv
<1>2. PICK u \in call[a].update, seen \in call[a].seen :
        /\ call' = [call EXCEPT ![a] =
                   CASE a = Screen -> [Idle EXCEPT !.phase = "show"]
                     [] a # Screen /\ u.kind = "board" -> Idle
                     [] OTHER -> [call[a] EXCEPT !.phase = "write", !.seen = {DefaultBoard}]]
        /\ Overwrites("board", seen)
  BY DEF WriteDefault
<1>3. /\ call[a].phase = "default"
      /\ files' = [files EXCEPT !["board"] = DefaultBoard]
      /\ expected' = [expected EXCEPT !["board"].made = TRUE]
      /\ torn' = torn \ {"board"}
      /\ UNCHANGED <<manager, sends, calls, added>>
  BY DEF WriteDefault
<1>4. \A x \in call[a].update : x \in Update /\ x.kind \in {"add", "move", "board"} /\ FileOf(x) = "board"
  BY <1>1, <1>3, UpdateFields, FileOfKind DEF CallTyped, CallShape
<1>5. seen = Blank["board"]
  BY <1>1, <1>3, <1>4 DEF CallTyped, MadeOrBlank
<1> PICK should : should = [expected["board"] EXCEPT !.made = TRUE]
  OBVIOUS
<1>6. "board" \in Files
  BY DEF Files
<1>7. expected' = [expected EXCEPT !["board"] = should]
  BY <1>1, <1>3 DEF FilesTyped
<1>8. should \in Contents("board")
  <2>1. expected["board"] \in TaskBoard
    BY <1>1, <1>6, ContentsAre DEF FilesTyped
  <2>2. should \in TaskBoard
    BY <2>1 DEF TaskBoard
  <2> QED
    BY <2>2, ContentsAre
<1>9. FilesTyped'
  <2>1. DefaultBoard \in Contents("board") /\ DefaultBoard.made
    BY BlankTyped, ContentsAre
  <2>2. expected["board"] = seen => DefaultBoard = should
    BY <1>5, BlankTyped
  <2> QED
    BY <1>1, <1>2, <1>3, <1>6, <1>7, <1>8, <2>1, <2>2, FilesWritten
<1>10. RestTyped'
  BY <1>1, <1>3, RestStays
<1>11. CallTyped([call[a] EXCEPT !.phase = "write", !.seen = {DefaultBoard}])
  <2> PICK k : k = [call[a] EXCEPT !.phase = "write", !.seen = {DefaultBoard}]
    OBVIOUS
  <2>1. /\ k.phase = "write" /\ k.seen = {DefaultBoard} /\ k.update = call[a].update
        /\ k.worker = call[a].worker /\ k.left = call[a].left
    BY <1>1 DEF CallShape, Fields
  <2>2. \A x \in k.update : x.kind # "row" /\ FileOf(x) = "board" /\ k.left = 0
    BY <1>1, <1>4, <2>1 DEF CallTyped
  <2>3. DefaultBoard \in Contents("board") /\ DefaultBoard.made
    BY BlankTyped, ContentsAre
  <2>4. k.update \subseteq Update /\ k.worker \subseteq Workers /\ k.left \in Nat
    BY <1>1, <2>1 DEF CallTyped
  <2>5. CallTyped(k)
    BY <2>1, <2>2, <2>3, <2>4 DEF CallTyped, MadeOrBlank
  <2> QED
    BY <2>5
<1>12. PICK k : CallTyped(k) /\ call' = [call EXCEPT ![a] = k]
  BY <1>2, <1>11, IdleTyped
<1> QED
  BY <1>9, <1>10, <1>12, TypedOfCall

\* What an agent may ask for is an update.
LEMMA OfferedTyped ==
    ASSUME RestTyped, NEW a \in Agents, NEW u \in Offered(a)
    PROVE  u \in Update /\ u.kind # "row"
<1>1. sends[a] + 1 \in Nat
  BY DEF RestTyped
<1> QED
  BY <1>1 DEF Offered, Update

LEMMA BeginTyped ==
    ASSUME Shape, TypedInv, NEW a \in Agents, Begin(a)
    PROVE  TypedInv'
<1>1. FilesTyped /\ RestTyped /\ a \in Callers
  BY DEF TypedInv, Callers
<1>2. PICK u \in Offered(a) :
        /\ Reads(a, u, 0)
        /\ sends' = [sends EXCEPT ![a] = @ + IF u.kind = "send" THEN 1 ELSE 0]
        /\ added' = [t \in Tasks |-> added[t] + IF u.kind = "add" /\ u.task = t THEN 1 ELSE 0]
  BY DEF Begin
<1>3. NewCall /\ UNCHANGED <<files, torn, manager, expected, disturbed>>
  BY DEF Begin
<1>4. PICK k : call' = [call EXCEPT ![a] = k] /\ CallTyped(k)
  <2>1. u \in Update /\ u.kind # "row"
    BY <1>1, OfferedTyped
  <2> QED
    BY <1>1, <1>2, <2>1, ReadsTyped
<1>5. FilesTyped'
  BY <1>1, <1>3, FilesStay
<1>6. sends' \in [Agents -> Nat]
  BY <1>1, <1>2 DEF RestTyped
<1>7. added' \in [Tasks -> Nat]
  <2>1. \A t \in Tasks : added[t] + (IF u.kind = "add" /\ u.task = t THEN 1 ELSE 0) \in Nat
    BY <1>1 DEF RestTyped
  <2> QED
    BY <1>2, <2>1
<1>8. calls' \in 0..MaxCalls
  BY <1>1, <1>3, TeamAssumption DEF RestTyped, NewCall
<1>9. RestTyped'
  BY <1>1, <1>3, <1>6, <1>7, <1>8 DEF RestTyped, manager
<1> QED
  BY <1>1, <1>4, <1>5, <1>9, TypedOfCall

\* The empty store is of the types.
LEMMA InitTyped == Init => TypedInv
<1> SUFFICES ASSUME Init PROVE TypedInv
  OBVIOUS
<1>1. files = Blank /\ expected = Blank /\ torn = {} /\ disturbed = {}
  BY DEF Init
<1>2. DOMAIN Blank = Files
  BY DEF Blank, Files
<1>3. FilesTyped
  BY <1>1, <1>2, BlankTyped DEF FilesTyped, AcknowledgedIsKept
<1>4. RestTyped
  <2>1. 0 \in 0..MaxCalls
    BY TeamAssumption
  <2> QED
    BY <2>1 DEF Init, RestTyped, WorkerStatus
<1>5. \A a \in Callers : CallTyped(call[a])
  BY IdleTyped DEF Init
<1> QED
  BY <1>3, <1>4, <1>5 DEF TypedInv

\* One step per action.
LEMMA NextTyped == Shape /\ TypedInv /\ [Next]_vars => TypedInv'
<1> SUFFICES ASSUME Shape, TypedInv, [Next]_vars PROVE TypedInv'
  OBVIOUS
<1>0. /\ FilesTyped /\ RestTyped
      /\ \A a \in Callers : CallTyped(call[a]) /\ CallShape(call[a])
  BY DEF Shape, TypedInv
<1>1. ASSUME NEW a \in Agents, NEW w \in Workers, Spawn(a, w) PROVE TypedInv'
  <2>1. PICK k : call' = [call EXCEPT ![a] = k] /\ CallTyped(k)
    <3>1. Rows[w] - 1 \in Nat
      BY TeamAssumption
    <3>2. call' = [call EXCEPT ![a] = [Idle EXCEPT !.phase = "spawned", !.worker = {w},
                                                   !.left = Rows[w] - 1]]
      BY <1>1 DEF Spawn
    <3> QED
      BY <3>1, <3>2, BareTyped
  <2>2. FilesTyped'
    BY <1>0, <1>1, FilesStay DEF Spawn, history
  <2>3. RestTyped'
    BY <1>0, <1>1 DEF Spawn, RestTyped, WorkerStatus, history
  <2> QED
    BY <2>1, <2>2, <2>3, TypedOfCall DEF Callers
<1>2. ASSUME NEW a \in Agents, NEW w \in Workers, Wait(a, w) PROVE TypedInv'
  <2>1. PICK k : call' = [call EXCEPT ![a] = k] /\ CallTyped(k)
    <3>1. call' = [call EXCEPT ![a] = [Idle EXCEPT !.phase = "wait", !.worker = {w}]]
      BY <1>2 DEF Wait
    <3>2. CallTyped([Idle EXCEPT !.phase = "wait", !.worker = {w}])
      BY BareTyped
    <3> QED
      BY <3>1, <3>2
  <2>2. FilesTyped'
    BY <1>0, <1>2, FilesStay DEF Wait, history
  <2>3. RestTyped'
    BY <1>0, <1>2, RestStays DEF Wait, history
  <2> QED
    BY <2>1, <2>2, <2>3, TypedOfCall DEF Callers
<1>3. ASSUME NEW a \in Callers, WriteFails(a) PROVE TypedInv'
  <2>1. PICK f \in Files : Truncated(f)
    <3>1. PICK u \in call[a].update : Truncated(FileOf(u))
      BY <1>3 DEF WriteFails
    <3>2. FileOf(u) \in Files
      BY <1>0, FileOfKind DEF CallShape, Files
    <3> QED
      BY <3>1, <3>2
  <2>2. FilesTyped'
    BY <1>0, <1>3, <2>1, FilesTruncated DEF WriteFails
  <2>3. RestTyped'
    BY <1>0, <1>3, RestStays DEF WriteFails
  <2>4. call' = [call EXCEPT ![a] = AfterWrite(a)]
    BY <1>3 DEF WriteFails
  <2> QED
    BY <1>0, <2>2, <2>3, <2>4, AfterWriteTyped, TypedOfCall
<1>4. ASSUME NEW a \in Callers, SpawnReturns(a) \/ WaitReturns(a) PROVE TypedInv'
  <2>1. PICK w \in call[a].worker, waited \in BOOLEAN :
            /\ call[a].phase \in {"spawned", "wait"}
            /\ call' = [call EXCEPT ![a].phase = "row",
                                    ![a].update = {Row(w, worker[w], waited)},
                                    ![a].worker = {}]
    BY <1>4 DEF SpawnReturns, WaitReturns
  <2>2. w \in Workers
    BY <1>0 DEF CallShape
  <2> PICK k : k = [call[a] EXCEPT !.phase = "row", !.update = {Row(w, worker[w], waited)},
                                   !.worker = {}]
    OBVIOUS
  <2>3. call' = [call EXCEPT ![a] = k]
    BY <2>1 DEF Shape
  <2>4. CallTyped(k)
    BY <1>0, <2>1, <2>2, RowTyped
  <2>5. UNCHANGED <<files, torn, expected, disturbed, manager, sends, calls, added>>
    BY <1>4 DEF SpawnReturns, WaitReturns, history
  <2> QED
    BY <1>0, <2>3, <2>4, <2>5, FilesStay, RestStays, TypedOfCall
<1>5. ASSUME NEW a \in Callers, ReadMembers(a) PROVE TypedInv'
  <2>1. PICK u \in call[a].update :
            \/ Reads(a, u, call[a].left)
            \/ call' = [call EXCEPT ![a] = AfterWrite(a)]
    BY <1>5 DEF ReadMembers
  <2>2. call[a].left \in Nat /\ u \in Update /\ (u.kind # "row" => call[a].left = 0)
    BY <1>0 DEF CallTyped
  <2>3. PICK k : call' = [call EXCEPT ![a] = k] /\ CallTyped(k)
    <3>1. CASE Reads(a, u, call[a].left)
      BY <1>0, <2>2, <3>1, ReadsTyped
    <3>2. CASE call' = [call EXCEPT ![a] = AfterWrite(a)]
      BY <1>0, <3>2, AfterWriteTyped
    <3> QED
      BY <2>1, <3>1, <3>2
  <2>4. UNCHANGED <<files, torn, expected, disturbed, manager, sends, calls, added>>
    BY <1>5 DEF ReadMembers, history
  <2> QED
    BY <1>0, <2>3, <2>4, FilesStay, RestStays, TypedOfCall
<1>6. ASSUME NEW a \in Callers, call' = [call EXCEPT ![a] = Idle],
             UNCHANGED <<files, torn, manager, sends, calls, history>>
      PROVE  TypedInv'
  <2>1. UNCHANGED <<files, torn, expected, disturbed, manager, sends, calls, added>>
    BY <1>6 DEF history
  <2> QED
    BY <1>0, <1>6, <2>1, IdleTyped, FilesStay, RestStays, TypedOfCall
<1>7. ASSUME NEW a \in Callers, CallStep(a) PROVE TypedInv'
  <2>1. CASE WaitCancelled(a)
    BY <1>6, <2>1 DEF WaitCancelled
  <2> QED
    BY <1>4, <1>5, <1>7, <2>1, WriteTyped, WriteDefaultTyped DEF CallStep
<1>8. ASSUME Interrupt PROVE TypedInv'
  BY <1>6, <1>8 DEF Interrupt, Callers, Agents
<1>9. ASSUME NEW w \in Workers, WorkerStep(w) \/ Cancel(w) PROVE TypedInv'
  <2>1. UNCHANGED <<files, torn, expected, disturbed, call, sends, added, known>>
    BY <1>9 DEF WorkerStep, RunWorker, Finish, Cancel, history
  <2>2. calls' \in 0..MaxCalls
    <3>1. calls' = calls \/ NewCall
      BY <1>9 DEF WorkerStep, RunWorker, Finish, Cancel
    <3> QED
      BY <1>0, <3>1, TeamAssumption DEF RestTyped, NewCall
  <2>3. worker' \in [Workers -> WorkerStatus]
    BY <1>0, <1>9 DEF WorkerStep, RunWorker, Finish, Cancel, Ends, RestTyped, WorkerStatus, Final
  <2>4. done' \subseteq known /\ cancelled' \subseteq known
    BY <1>0, <1>9 DEF WorkerStep, RunWorker, Finish, Cancel, RestTyped
  <2>5. RestTyped'
    BY <1>0, <2>1, <2>2, <2>3, <2>4 DEF RestTyped
  <2> QED
    BY <1>0, <2>1, <2>5, FilesStay, TypedUnchanged
<1>10. ASSUME Snapshot PROVE TypedInv'
  <2>1. UNCHANGED <<files, torn, expected, disturbed, manager, sends, added>> /\ NewCall
    BY <1>10 DEF Snapshot, history
  <2>2. PICK k : call' = [call EXCEPT ![Screen] = k] /\ CallTyped(k)
    <3>1. CASE files["board"].made
      BY <1>10, <3>1, IdleTyped DEF Snapshot
    <3>2. CASE ~files["board"].made
      <4> PICK u : u = [kind |-> "board"]
        OBVIOUS
      <4> PICK k : k = [Idle EXCEPT !.phase = "default", !.update = {u}, !.seen = {files["board"]}]
        OBVIOUS
      <4>1. call' = [call EXCEPT ![Screen] = k]
        BY <1>10, <3>2 DEF Snapshot
      <4>2. u \in Update /\ FileOf(u) = "board" /\ u.kind = "board"
        BY DEF Update, FileOf
      <4>3. files["board"] \in Contents("board") /\ MadeOrBlank(files["board"])
        BY <1>0 DEF FilesTyped, Files
      <4>4. /\ k.phase = "default" /\ k.update = {u} /\ k.seen = {files["board"]}
            /\ k.worker = {} /\ k.left = 0
        BY DEF Idle
      <4>5. CallTyped(k)
        BY <3>2, <4>2, <4>3, <4>4 DEF CallTyped
      <4> QED
        BY <4>1, <4>5
    <3> QED
      BY <3>1, <3>2
  <2> QED
    BY <1>0, <2>1, <2>2, FilesStay, RestStays, TypedOfCall DEF Callers
<1>11. ASSUME Materialize PROVE TypedInv'
  <2>1. call' = [call EXCEPT ![Screen] = Idle] /\ UNCHANGED <<manager, sends, expected, added>>
    BY <1>11 DEF Materialize
  <2>2. RestTyped'
    BY <1>0, <1>11, <2>1, RestStays DEF Materialize
  <2>3. FilesTyped'
    <3>1. CASE /\ files' = [files EXCEPT !["records"] = Project(@, files["members"])]
               /\ UNCHANGED <<torn, disturbed, calls>>
      <4> PICK new : new = Project(files["records"], files["members"])
        OBVIOUS
      <4>1. files["records"] \in [Workers -> WorkerStatus] /\ files["members"] \in [Names -> Member]
        BY <1>0, ContentsAre DEF FilesTyped, Files
      <4>2. new \in [Workers -> WorkerStatus]
        <5>1. ASSUME NEW w \in Workers PROVE new[w] \in WorkerStatus
          <6>1. CASE \E n \in Names : files["members"][n].session = {w}
            <7> PICK n : n = CHOOSE x \in Names : files["members"][x].session = {w}
              OBVIOUS
            <7>1. n \in Names
              BY <6>1
            <7>2. new[w] = files["members"][n].status
              BY <6>1 DEF Project
            <7> QED
              BY <4>1, <7>1, <7>2 DEF Member
          <6>2. CASE ~ \E n \in Names : files["members"][n].session = {w}
            <7>1. new[w] = files["records"][w]
              BY <6>2 DEF Project
            <7> QED
              BY <4>1, <7>1
          <6> QED
            BY <6>1, <6>2
        <5>2. new = [w \in Workers |-> new[w]]
          BY DEF Project
        <5> QED
          BY <5>1, <5>2
      <4>3. files' = [files EXCEPT !["records"] = new]
        BY <1>0, <3>1 DEF FilesTyped, Files
      <4>4. /\ DOMAIN files' = Files
            /\ \A f \in Files : files'[f] = IF f = "records" THEN new ELSE files[f]
        BY <1>0, <4>3 DEF FilesTyped
      <4>5. \A f \in Files : files'[f] \in Contents(f)
        BY <1>0, <4>2, <4>4, ContentsAre DEF FilesTyped
      <4>6. files'["board"] = files["board"]
        BY <4>4 DEF Files
      <4> QED
        BY <1>0, <2>1, <3>1, <4>4, <4>5, <4>6 DEF FilesTyped, MadeOrBlank, AcknowledgedIsKept
    <3>2. CASE Truncated("records")
      BY <1>0, <2>1, <3>2, FilesTruncated DEF Files
    <3>3. CASE UNCHANGED <<files, torn, disturbed>>
      BY <1>0, <2>1, <3>3, FilesStay
    <3> QED
      BY <1>11, <3>1, <3>2, <3>3 DEF Materialize
  <2> QED
    BY <2>1, <2>2, <2>3, IdleTyped, TypedOfCall DEF Callers
<1>12. ASSUME Crash PROVE TypedInv'
  <2>1. UNCHANGED <<worker, sends, expected, added>> /\ known' = {} /\ done' = {} /\ cancelled' = {}
    BY <1>12 DEF Crash
  <2>2. FilesTyped'
    <3>1. \A a \in Callers : \A u \in call[a].update : FileOf(u) \in Files
      BY <1>0, FileOfKind DEF CallShape, Files
    <3>2. "board" \in Files /\ "records" \in Files
      BY DEF Files
    <3>3. UNCHANGED <<files, torn, disturbed>> \/ \E f \in Files : Truncated(f)
      BY <1>12, <3>1, <3>2 DEF Crash
    <3> QED
      BY <1>0, <2>1, <3>3, FilesStay, FilesTruncated
  <2>3. RestTyped'
    <3>1. calls' \in 0..MaxCalls
      BY <1>0, <1>12, TeamAssumption DEF Crash, Fault, RestTyped
    <3> QED
      BY <1>0, <2>1, <3>1 DEF RestTyped
  <2>4. \A a \in Callers : CallTyped(call'[a])
    BY <1>12, IdleTyped DEF Crash
  <2>5. \A a \in Callers : CallTyped(call[a])'
    BY <2>4 DEF CallTyped
  <2> QED
    BY <2>2, <2>3, <2>5 DEF TypedInv
<1>13. ASSUME UNCHANGED vars PROVE TypedInv'
  <2>1. UNCHANGED <<files, torn, expected, disturbed, call, manager, sends, calls, added>>
    BY <1>13 DEF vars, history
  <2> QED
    BY <1>0, <2>1, FilesStay, RestStays, TypedUnchanged
<1> QED
  BY <1>1, <1>2, <1>3, <1>7, <1>8, <1>9, <1>10, <1>11, <1>12, <1>13, BeginTyped DEF Next

-----------------------------------------------------------------------------
(* The board *)

In(board, t) == {c \in Columns : t \in board.columns[c]}

\* The calls that are to add t: each is counted in added[t] already.
Adders(t) == {a \in Callers : \E u \in call[a].update : u.kind = "add" /\ u.task = t}

AddersCounted ==
    \A t \in Tasks : IsFiniteSet(Adders(t)) /\ Cardinality(Adders(t)) <= added[t]

\* No board, on file or as some call has read it, has a task in more columns
\* than it was added to, even once all that are to add it have done so.
ColumnsTrue(board) ==
    \A t \in Tasks :
        /\ IsFiniteSet(In(board, t))
        /\ Cardinality(In(board, t)) + Cardinality(Adders(t)) <= 1 + added[t]

BoardSeen(k) ==
    \A u \in k.update : FileOf(u) = "board" => \A seen \in k.seen : ColumnsTrue(seen)

ColumnsInv ==
    /\ AddersCounted
    /\ ColumnsTrue(files["board"])
    /\ \A a \in Callers : BoardSeen(call[a])

\* A set with at most one element more.
LEMMA OneMore ==
    ASSUME NEW S, NEW x, NEW T, IsFiniteSet(S), T \subseteq S \cup {x}
    PROVE  /\ IsFiniteSet(T) /\ Cardinality(T) \in Nat /\ Cardinality(S) \in Nat
           /\ Cardinality(T) <= Cardinality(S) + 1
<1>1. Cardinality(S) \in Nat
  BY FS_CardinalityType
<1>2. /\ IsFiniteSet(S \cup {x})
      /\ Cardinality(S \cup {x}) = IF x \in S THEN Cardinality(S) ELSE Cardinality(S) + 1
  BY FS_AddElement
<1>3. IsFiniteSet(T) /\ Cardinality(T) <= Cardinality(S \cup {x})
  BY <1>2, FS_Subset
<1>4. Cardinality(T) \in Nat /\ Cardinality(S \cup {x}) <= Cardinality(S) + 1
  BY <1>1, <1>2, <1>3, FS_CardinalityType
<1>5. Cardinality(S \cup {x}) \in Nat
  BY <1>2, FS_CardinalityType
<1> QED
  BY <1>1, <1>3, <1>4, <1>5

LEMMA NoMore ==
    ASSUME NEW S, NEW T, IsFiniteSet(S), T \subseteq S
    PROVE  /\ IsFiniteSet(T) /\ Cardinality(T) \in Nat /\ Cardinality(S) \in Nat
           /\ Cardinality(T) <= Cardinality(S)
  BY FS_Subset, FS_CardinalityType

\* What is true of a board stays true if those that are to add a task are not
\* more, or one more that is counted.
LEMMA AddersStay ==
    ASSUME RestTyped, AddersCounted,
           \A t \in Tasks :
              \/ Adders(t)' \subseteq Adders(t) /\ added'[t] = added[t]
              \/ (\E a : Adders(t)' \subseteq Adders(t) \cup {a}) /\ added'[t] = added[t] + 1
    PROVE  AddersCounted' /\ \A board : ColumnsTrue(board) => ColumnsTrue(board)'
<1>1. ASSUME NEW t \in Tasks
      PROVE  /\ IsFiniteSet(Adders(t)') /\ Cardinality(Adders(t)') \in Nat
             /\ Cardinality(Adders(t)) \in Nat /\ added[t] \in Nat /\ added'[t] \in Nat
             /\ Cardinality(Adders(t)) <= added[t] /\ Cardinality(Adders(t)') <= added'[t]
             /\ Cardinality(Adders(t)') - Cardinality(Adders(t)) <= added'[t] - added[t]
  <2>1. IsFiniteSet(Adders(t)) /\ Cardinality(Adders(t)) <= added[t] /\ added[t] \in Nat
    BY DEF AddersCounted, RestTyped
  <2>2. CASE Adders(t)' \subseteq Adders(t) /\ added'[t] = added[t]
    <3>1. /\ IsFiniteSet(Adders(t)') /\ Cardinality(Adders(t)') \in Nat
          /\ Cardinality(Adders(t)) \in Nat /\ Cardinality(Adders(t)') <= Cardinality(Adders(t))
      BY <2>1, <2>2, NoMore
    <3> QED
      BY <2>1, <2>2, <3>1
  <2>3. CASE (\E a : Adders(t)' \subseteq Adders(t) \cup {a}) /\ added'[t] = added[t] + 1
    <3>1. PICK a : Adders(t)' \subseteq Adders(t) \cup {a}
      BY <2>3
    <3>2. /\ IsFiniteSet(Adders(t)') /\ Cardinality(Adders(t)') \in Nat
          /\ Cardinality(Adders(t)) \in Nat /\ Cardinality(Adders(t)') <= Cardinality(Adders(t)) + 1
      BY <2>1, <3>1, OneMore
    <3> QED
      BY <2>1, <2>3, <3>2
  <2> QED
    BY <2>2, <2>3
<1>2. AddersCounted'
  BY <1>1 DEF AddersCounted
<1>3. ASSUME NEW board, ColumnsTrue(board)
      PROVE  ColumnsTrue(board)'
  <2> SUFFICES ASSUME NEW t \in Tasks
               PROVE  /\ IsFiniteSet(In(board, t))
                      /\ Cardinality(In(board, t)) + Cardinality(Adders(t)') <= 1 + added'[t]
    BY DEF ColumnsTrue, In
  <2>1. /\ IsFiniteSet(In(board, t)) /\ Cardinality(In(board, t)) \in Nat
        /\ Cardinality(In(board, t)) + Cardinality(Adders(t)) <= 1 + added[t]
    BY <1>3, FS_CardinalityType DEF ColumnsTrue
  <2> QED
    BY <1>1, <2>1
<1> QED
  BY <1>2, <1>3

\* An empty board leaves every task its place.
LEMMA EmptyBoards ==
    ASSUME RestTyped, AddersCounted
    PROVE  ColumnsTrue(Blank["board"]) /\ ColumnsTrue(DefaultBoard)
<1>1. ASSUME NEW board, \A c \in Columns : board.columns[c] = {}
      PROVE  ColumnsTrue(board)
  <2> SUFFICES ASSUME NEW t \in Tasks
               PROVE  /\ IsFiniteSet(In(board, t))
                      /\ Cardinality(In(board, t)) + Cardinality(Adders(t)) <= 1 + added[t]
    BY DEF ColumnsTrue
  <2>1. In(board, t) = {}
    BY <1>1 DEF In
  <2>2. IsFiniteSet({}) /\ Cardinality({}) = 0
    BY FS_EmptySet
  <2>3. Cardinality(Adders(t)) \in Nat /\ Cardinality(Adders(t)) <= added[t] /\ added[t] \in Nat
    BY FS_CardinalityType DEF AddersCounted, RestTyped
  <2> QED
    BY <2>1, <2>2, <2>3
<1> QED
  BY <1>1, BlankTyped

\* A step that begins no add and puts no new board in the file.
LEMMA ColumnsKept ==
    ASSUME RestTyped, ColumnsInv, UNCHANGED added,
           \A a \in Callers : \A u \in call'[a].update : u.kind = "add" => u \in call[a].update,
           \A a \in Callers : BoardSeen(call'[a]),
           files'["board"] \in {files["board"], Blank["board"], DefaultBoard}
    PROVE  ColumnsInv'
<1>1. AddersCounted' /\ \A board : ColumnsTrue(board) => ColumnsTrue(board)'
  <2>1. \A t \in Tasks : Adders(t)' \subseteq Adders(t) /\ added'[t] = added[t]
    BY DEF Adders
  <2> QED
    BY <2>1, AddersStay DEF ColumnsInv
<1>2. ColumnsTrue(files'["board"])
  BY EmptyBoards DEF ColumnsInv
<1>3. ColumnsTrue(files["board"])'
  <2> PICK board : board = files'["board"]
    OBVIOUS
  <2>1. ColumnsTrue(board)'
    BY <1>1, <1>2
  <2> QED
    BY <2>1 DEF ColumnsTrue, In
<1>4. \A a \in Callers : BoardSeen(call[a])'
  BY <1>1 DEF BoardSeen
<1> QED
  BY <1>1, <1>3, <1>4 DEF ColumnsInv

\* A step that changes one call.
LEMMA ColumnsOfCall ==
    ASSUME Shape, RestTyped, ColumnsInv, UNCHANGED added, NEW a \in Callers, NEW k,
           call' = [call EXCEPT ![a] = k],
           \A u \in k.update : u.kind = "add" => u \in call[a].update, BoardSeen(k),
           files'["board"] \in {files["board"], Blank["board"], DefaultBoard}
    PROVE  ColumnsInv'
<1>1. \A b \in Callers : call'[b] = IF b = a THEN k ELSE call[b]
  BY DEF Shape
<1>2. \A b \in Callers : BoardSeen(call'[b])
  BY <1>1 DEF ColumnsInv
<1>3. \A b \in Callers : \A u \in call'[b].update : u.kind = "add" => u \in call[b].update
  BY <1>1
<1> QED
  BY <1>2, <1>3, ColumnsKept

\* A step that begins at most one add, on boards that are true.
LEMMA ColumnsStep ==
    ASSUME RestTyped, ColumnsInv,
           \A t \in Tasks :
              \/ Adders(t)' \subseteq Adders(t) /\ added'[t] = added[t]
              \/ (\E a : Adders(t)' \subseteq Adders(t) \cup {a}) /\ added'[t] = added[t] + 1,
           \A a \in Callers : BoardSeen(call'[a])
    PROVE  /\ AddersCounted'
           /\ ColumnsTrue(files'["board"]) \/ ColumnsTrue(files["board"])' => ColumnsInv'
<1>1. AddersCounted' /\ \A board : ColumnsTrue(board) => ColumnsTrue(board)'
  BY AddersStay DEF ColumnsInv
<1>2. \A a \in Callers : BoardSeen(call[a])'
  BY <1>1 DEF BoardSeen
<1>3. ColumnsTrue(files'["board"]) => ColumnsTrue(files["board"])'
  <2> PICK board : board = files'["board"]
    OBVIOUS
  <2>1. ColumnsTrue(board) => ColumnsTrue(board)'
    BY <1>1
  <2> QED
    BY <2>1 DEF ColumnsTrue, In
<1> QED
  BY <1>1, <1>2, <1>3 DEF ColumnsInv

\* In the empty store nobody adds a task.
LEMMA InitColumns == Init => ColumnsInv
<1> SUFFICES ASSUME Init PROVE ColumnsInv
  OBVIOUS
<1>1. RestTyped /\ files["board"] = Blank["board"]
  BY InitTyped DEF Init, TypedInv
<1>2. \A a \in Callers : call[a].update = {}
  BY IdleShape DEF Init
<1>3. AddersCounted
  <2> SUFFICES ASSUME NEW t \in Tasks
               PROVE  IsFiniteSet(Adders(t)) /\ Cardinality(Adders(t)) <= added[t]
    BY DEF AddersCounted
  <2>1. Adders(t) = {}
    BY <1>2 DEF Adders
  <2> QED
    BY <2>1, FS_EmptySet DEF Init
<1>4. \A a \in Callers : BoardSeen(call[a])
  BY <1>2 DEF BoardSeen
<1> QED
  BY <1>1, <1>3, <1>4, EmptyBoards DEF ColumnsInv

\* An add is counted when its call begins.
LEMMA BeginColumns ==
    ASSUME Shape, TypedInv, ColumnsInv, NEW a \in Agents, Begin(a)
    PROVE  ColumnsInv'
<1>1. FilesTyped /\ RestTyped /\ a \in Callers
  BY DEF TypedInv, Callers
<1>2. PICK u \in Offered(a) :
        /\ Reads(a, u, 0)
        /\ added' = [t \in Tasks |-> added[t] + IF u.kind = "add" /\ u.task = t THEN 1 ELSE 0]
  BY DEF Begin
<1>3. UNCHANGED files
  BY DEF Begin
<1>4. PICK k : /\ call' = [call EXCEPT ![a] = k]
               /\ k.update = {u} /\ k.seen = {files[FileOf(u)]}
  <2>1. u \in Update /\ u.kind # "row"
    BY <1>1, OfferedTyped
  <2> QED
    BY <1>1, <1>2, <2>1, ReadsTyped
<1>5. \A b \in Callers : call'[b] = IF b = a THEN k ELSE call[b]
  BY <1>4 DEF Shape
<1>6. \A b \in Callers : BoardSeen(call'[b])
  <2>1. BoardSeen(k)
    BY <1>4 DEF BoardSeen, ColumnsInv
  <2> QED
    BY <1>5, <2>1 DEF ColumnsInv
<1>7. ASSUME NEW t \in Tasks
      PROVE  \/ Adders(t)' \subseteq Adders(t) /\ added'[t] = added[t]
             \/ (\E b : Adders(t)' \subseteq Adders(t) \cup {b}) /\ added'[t] = added[t] + 1
  <2>1. added[t] \in Nat
    BY <1>1 DEF RestTyped
  <2>2. CASE u.kind = "add" /\ u.task = t
    <3>1. Adders(t)' \subseteq Adders(t) \cup {a}
      BY <1>5 DEF Adders
    <3>2. added'[t] = added[t] + 1
      BY <1>2, <2>2
    <3> QED
      BY <3>1, <3>2
  <2>3. CASE ~(u.kind = "add" /\ u.task = t)
    <3>1. Adders(t)' \subseteq Adders(t)
      BY <1>4, <1>5, <2>3 DEF Adders
    <3>2. added'[t] = added[t]
      BY <1>2, <2>1, <2>3
    <3> QED
      BY <3>1, <3>2
  <2> QED
    BY <2>2, <2>3
<1>8. ColumnsTrue(files'["board"])
  BY <1>3 DEF ColumnsInv
<1> QED
  BY <1>1, <1>6, <1>7, <1>8, ColumnsStep

\* Where a task stands after an update of the board.
LEMMA ApplyColumns ==
    ASSUME NEW u \in Update, FileOf(u) = "board", NEW seen \in TaskBoard, NEW t \in Tasks
    PROVE  LET new == Apply(u, seen) IN
           /\ In(new, t) \subseteq In(seen, t) \/ (u.kind \in {"add", "move"} /\ u.task = t)
           /\ u.kind = "add" => In(new, t) \subseteq In(seen, t) \cup {u.column}
           /\ (u.kind = "move" /\ u.task = t) => In(new, t) \subseteq {u.column}
<1> PICK new : new = Apply(u, seen)
  OBVIOUS
<1>1. u.kind \in {"add", "move", "board"} /\ (u.kind \in {"add", "move"} => u.column \in Columns)
  BY UpdateFields, FileOfKind
<1>2. CASE u.kind = "board"
  <2>1. new = seen
    BY <1>2 DEF Apply
  <2> QED
    BY <1>2, <2>1
<1>3. CASE u.kind = "add"
  <2>1. new = [seen EXCEPT !.columns = AddTaskToColumn(seen.columns, u.task, u.column)]
    BY <1>3 DEF Apply
  <2>2. new.columns = AddTaskToColumn(seen.columns, u.task, u.column)
    BY <2>1 DEF TaskBoard
  <2>3. seen.columns \in [Columns -> SUBSET Tasks]
    BY DEF TaskBoard
  <2>4. \A c \in Columns :
          new.columns[c] = IF c = u.column THEN seen.columns[c] \cup {u.task} ELSE seen.columns[c]
    BY <1>1, <1>3, <2>2, <2>3 DEF AddTaskToColumn
  <2> QED
    BY <1>3, <2>4 DEF In
<1>4. CASE u.kind = "move"
  <2>1. new = [seen EXCEPT !.columns = MoveTask(seen.columns, u.task, u.column)]
    BY <1>4 DEF Apply
  <2>2. new.columns = MoveTask(seen.columns, u.task, u.column)
    BY <2>1 DEF TaskBoard
  <2>3. \A c \in Columns :
          new.columns[c] = IF c = u.column THEN seen.columns[c] \cup {u.task}
                           ELSE seen.columns[c] \ {u.task}
    BY <2>2 DEF MoveTask
  <2>4. u.task # t => \A c \in Columns : t \in new.columns[c] <=> t \in seen.columns[c]
    BY <2>3
  <2>5. ASSUME u.task = t, NEW c \in Columns, c # u.column PROVE t \notin new.columns[c]
    <3>1. new.columns[c] = seen.columns[c] \ {u.task}
      BY <2>3, <2>5
    <3> QED
      BY <2>5, <3>1
  <2> QED
    BY <1>4, <2>4, <2>5 DEF In
<1> QED
  BY <1>1, <1>2, <1>3, <1>4

\* An add that is written has its task in one column more and is no longer to
\* be written; a move leaves its task in one column.
LEMMA WriteColumns ==
    ASSUME Shape, TypedInv, ColumnsInv, NEW a \in Callers, Write(a)
    PROVE  ColumnsInv'
<1>1. CallTyped(call[a]) /\ CallShape(call[a]) /\ FilesTyped /\ RestTyped
  BY DEF Shape, TypedInv
<1>2. PICK u \in call[a].update, seen \in call[a].seen :
        files' = [files EXCEPT ![FileOf(u)] = Apply(u, seen)]
  BY DEF Write
<1>3. call' = [call EXCEPT ![a] = AfterWrite(a)] /\ UNCHANGED added
  BY DEF Write
<1> PICK k : k = AfterWrite(a)
  OBVIOUS
<1>4. k.update \subseteq call[a].update /\ k.seen = {} /\ BoardSeen(k)
  BY <1>1, AfterWriteCall DEF BoardSeen
<1>5. u \in Update /\ seen \in Contents(FileOf(u))
  BY <1>1 DEF CallTyped
<1>6. CASE FileOf(u) # "board"
  <2>1. files'["board"] = files["board"]
    BY <1>2, <1>6
  <2> QED
    BY <1>1, <1>3, <1>4, <2>1, ColumnsOfCall
<1>7. CASE FileOf(u) = "board"
  <2> PICK new : new = Apply(u, seen)
    OBVIOUS
  <2>1. /\ seen \in TaskBoard /\ ColumnsTrue(seen)
        /\ u.kind # "row" /\ u.kind \in UpdateKinds
        /\ files'["board"] = new
    <3>1. ColumnsTrue(seen)
      BY <1>7 DEF ColumnsInv, BoardSeen
    <3>2. files' = [files EXCEPT !["board"] = new] /\ "board" \in DOMAIN files
      BY <1>1, <1>2, <1>7 DEF FilesTyped, Files
    <3> QED
      BY <1>5, <1>7, <3>1, <3>2, ContentsAre, UpdateFields, FileOfKind
  <2>2. k.update = {}
    <3>1. call[a].left = 0
      BY <1>1, <2>1 DEF CallTyped
    <3> QED
      BY <1>1, <3>1, AfterWriteCall, IdleShape
  <2>3. \A b \in Callers : call'[b] = IF b = a THEN k ELSE call[b]
    BY <1>3 DEF Shape
  <2>4. \A b \in Callers : BoardSeen(call'[b])
    BY <1>4, <2>3 DEF ColumnsInv
  <2>5. \A t \in Tasks : Adders(t)' \subseteq Adders(t) \ {a} /\ added'[t] = added[t]
    BY <1>3, <2>2, <2>3 DEF Adders
  <2>6. AddersCounted' /\ (ColumnsTrue(files["board"])' => ColumnsInv')
    BY <1>1, <2>4, <2>5, ColumnsStep
  <2>7. ASSUME NEW t \in Tasks
        PROVE  /\ IsFiniteSet(In(new, t))
               /\ Cardinality(In(new, t)) + Cardinality(Adders(t)') <= 1 + added[t]
    <3>1. /\ IsFiniteSet(In(seen, t)) /\ IsFiniteSet(Adders(t)) /\ added[t] \in Nat
          /\ Cardinality(In(seen, t)) \in Nat /\ Cardinality(Adders(t)) \in Nat
          /\ Cardinality(In(seen, t)) + Cardinality(Adders(t)) <= 1 + added[t]
      BY <1>1, <2>1, FS_CardinalityType DEF ColumnsTrue, ColumnsInv, AddersCounted, RestTyped
    <3>2. /\ IsFiniteSet(Adders(t)') /\ Cardinality(Adders(t)') \in Nat
          /\ Cardinality(Adders(t)') <= Cardinality(Adders(t))
      <4>1. Adders(t)' \subseteq Adders(t)
        BY <2>5
      <4> QED
        BY <3>1, <4>1, NoMore
    <3>3. CASE In(new, t) \subseteq In(seen, t)
      <4>1. /\ IsFiniteSet(In(new, t)) /\ Cardinality(In(new, t)) \in Nat
            /\ Cardinality(In(new, t)) <= Cardinality(In(seen, t))
        BY <3>1, <3>3, NoMore
      <4> QED
        BY <3>1, <3>2, <4>1
    <3>4. CASE u.kind = "add" /\ u.task = t
      <4>1. /\ IsFiniteSet(In(new, t)) /\ Cardinality(In(new, t)) \in Nat
            /\ Cardinality(In(new, t)) <= Cardinality(In(seen, t)) + 1
        <5>1. In(new, t) \subseteq In(seen, t) \cup {u.column}
          BY <1>5, <1>7, <2>1, <3>4, ApplyColumns
        <5> QED
          BY <3>1, <5>1, OneMore
      <4>2. Cardinality(Adders(t)') <= Cardinality(Adders(t)) - 1
        <5>1. a \in Adders(t)
          BY <3>4 DEF Adders
        <5>2. IsFiniteSet(Adders(t) \ {a}) /\ Cardinality(Adders(t) \ {a}) = Cardinality(Adders(t)) - 1
          BY <3>1, <5>1, FS_RemoveElement
        <5>3. Cardinality(Adders(t)') <= Cardinality(Adders(t) \ {a})
          BY <2>5, <5>2, NoMore
        <5> QED
          BY <5>2, <5>3
      <4> QED
        BY <3>1, <3>2, <4>1, <4>2
    <3>5. CASE u.kind = "move" /\ u.task = t
      <4>1. IsFiniteSet(In(new, t)) /\ Cardinality(In(new, t)) \in Nat /\ Cardinality(In(new, t)) <= 1
        <5>1. In(new, t) \subseteq {u.column}
          BY <1>5, <1>7, <2>1, <3>5, ApplyColumns
        <5>2. IsFiniteSet({u.column}) /\ Cardinality({u.column}) = 1
          BY FS_Singleton
        <5> QED
          BY <5>1, <5>2, NoMore
      <4>2. Cardinality(Adders(t)') <= added[t]
        BY <2>5, <2>6 DEF AddersCounted
      <4> QED
        BY <3>1, <3>2, <4>1, <4>2
    <3> QED
      BY <1>5, <1>7, <2>1, <3>3, <3>4, <3>5, ApplyColumns
  <2>8. ColumnsTrue(files["board"])'
    BY <2>1, <2>5, <2>7 DEF ColumnsTrue, In
  <2> QED
    BY <2>6, <2>8
<1> QED
  BY <1>6, <1>7

\* Every step keeps the boards true.
LEMMA NextColumns == Shape /\ TypedInv /\ ColumnsInv /\ [Next]_vars => ColumnsInv'
<1> SUFFICES ASSUME Shape, TypedInv, ColumnsInv, [Next]_vars PROVE ColumnsInv'
  OBVIOUS
<1>0. /\ FilesTyped /\ RestTyped
      /\ \A a \in Callers : CallTyped(call[a]) /\ CallShape(call[a]) /\ BoardSeen(call[a])
  BY DEF Shape, TypedInv, ColumnsInv
<1>1. ASSUME NEW a \in Callers, NEW k, call' = [call EXCEPT ![a] = k],
             \A u \in k.update : u.kind = "add" => u \in call[a].update, k.seen = {},
             UNCHANGED added, files'["board"] \in {files["board"], Blank["board"], DefaultBoard}
      PROVE  ColumnsInv'
  <2>1. BoardSeen(k)
    BY <1>1 DEF BoardSeen
  <2> QED
    BY <1>0, <1>1, <2>1, ColumnsOfCall
<1>2. ASSUME NEW f \in Files, Truncated(f) PROVE files'["board"] \in {files["board"], Blank["board"]}
  BY <1>0, <1>2 DEF Truncated, FilesTyped, Files
<1>3. ASSUME NEW a \in Agents, NEW w \in Workers, Spawn(a, w) \/ Wait(a, w) PROVE ColumnsInv'
  <2>1. PICK k : call' = [call EXCEPT ![a] = k] /\ k.update = {} /\ k.seen = {}
    <3>1. CASE Spawn(a, w)
      <4> PICK k : k = [Idle EXCEPT !.phase = "spawned", !.worker = {w}, !.left = Rows[w] - 1]
        OBVIOUS
      <4>1. call' = [call EXCEPT ![a] = k]
        BY <3>1 DEF Spawn
      <4>2. k.update = {} /\ k.seen = {}
        BY DEF Idle
      <4> QED
        BY <4>1, <4>2
    <3>2. CASE Wait(a, w)
      <4> PICK k : k = [Idle EXCEPT !.phase = "wait", !.worker = {w}]
        OBVIOUS
      <4>1. call' = [call EXCEPT ![a] = k]
        BY <3>2 DEF Wait
      <4>2. k.update = {} /\ k.seen = {}
        BY DEF Idle
      <4> QED
        BY <4>1, <4>2
    <3> QED
      BY <1>3, <3>1, <3>2
  <2>2. UNCHANGED <<files, added>>
    BY <1>3 DEF Spawn, Wait, history
  <2> QED
    BY <1>1, <2>1, <2>2 DEF Callers
<1>4. ASSUME NEW a \in Callers, SpawnReturns(a) \/ WaitReturns(a) PROVE ColumnsInv'
  <2>1. PICK w \in Workers, waited \in BOOLEAN :
          call' = [call EXCEPT ![a].phase = "row", ![a].update = {Row(w, worker[w], waited)},
                               ![a].worker = {}]
    BY <1>0, <1>4 DEF SpawnReturns, WaitReturns, CallTyped
  <2> PICK k : k = [call[a] EXCEPT !.phase = "row", !.update = {Row(w, worker[w], waited)},
                                   !.worker = {}]
    OBVIOUS
  <2>2. call' = [call EXCEPT ![a] = k]
    BY <2>1 DEF Shape
  <2>3. k.update = {Row(w, worker[w], waited)} /\ k.seen = {}
    BY <1>0, <1>4, RowCall DEF SpawnReturns, WaitReturns
  <2>4. UNCHANGED <<files, added>>
    BY <1>4 DEF SpawnReturns, WaitReturns, history
  <2>5. \A u \in k.update : u.kind = "row"
    BY <2>3, RowShape
  <2> QED
    BY <1>1, <2>2, <2>3, <2>4, <2>5
<1>5. ASSUME NEW a \in Callers, call' = [call EXCEPT ![a] = AfterWrite(a)], UNCHANGED added,
             files'["board"] \in {files["board"], Blank["board"], DefaultBoard}
      PROVE  ColumnsInv'
  BY <1>0, <1>1, <1>5, AfterWriteCall
<1>6. ASSUME NEW a \in Callers, ReadMembers(a) PROVE ColumnsInv'
  <2>1. PICK u \in call[a].update :
            \/ Reads(a, u, call[a].left)
            \/ call' = [call EXCEPT ![a] = AfterWrite(a)]
    BY <1>6 DEF ReadMembers
  <2>2. UNCHANGED <<files, added>>
    BY <1>6 DEF ReadMembers, history
  <2>3. CASE Reads(a, u, call[a].left)
    <3>1. /\ call[a].left \in Nat /\ u \in Update /\ (u.kind # "row" => call[a].left = 0)
          /\ u.kind = "row"
      BY <1>0, <1>6 DEF CallTyped, ReadMembers
    <3>2. PICK k : call' = [call EXCEPT ![a] = k] /\ k.update = {u}
      BY <1>0, <2>3, <3>1, ReadsTyped
    <3>3. FileOf(u) # "board"
      BY <3>1, UpdateFields, FileOfKind
    <3>4. BoardSeen(k)
      BY <3>2, <3>3 DEF BoardSeen
    <3> QED
      BY <1>0, <2>2, <3>2, <3>4, ColumnsOfCall
  <2> QED
    BY <1>5, <2>1, <2>2, <2>3
<1>7. ASSUME NEW a \in Callers, WriteFails(a) PROVE ColumnsInv'
  <2>1. call' = [call EXCEPT ![a] = AfterWrite(a)] /\ UNCHANGED added
    BY <1>7 DEF WriteFails
  <2>2. PICK u \in call[a].update : Truncated(FileOf(u))
    BY <1>7 DEF WriteFails
  <2>3. FileOf(u) \in Files
    BY <1>0, FileOfKind DEF CallShape, Files
  <2>4. files'["board"] \in {files["board"], Blank["board"]}
    BY <1>2, <2>2, <2>3
  <2> QED
    BY <1>5, <2>1, <2>4
<1>8. ASSUME NEW a \in Callers, WriteDefault(a) PROVE ColumnsInv'
  <2>1. PICK u \in call[a].update :
          call' = [call EXCEPT ![a] =
                     CASE a = Screen -> [Idle EXCEPT !.phase = "show"]
                       [] a # Screen /\ u.kind = "board" -> Idle
                       [] OTHER -> [call[a] EXCEPT !.phase = "write", !.seen = {DefaultBoard}]]
    BY <1>8 DEF WriteDefault
  <2>2. UNCHANGED added /\ files'["board"] = DefaultBoard
    BY <1>0, <1>8 DEF WriteDefault, FilesTyped, Files
  <2>3. CASE \/ call' = [call EXCEPT ![a] = Idle]
             \/ call' = [call EXCEPT ![a] = [Idle EXCEPT !.phase = "show"]]
    <3>1. PICK k : call' = [call EXCEPT ![a] = k] /\ k.update = {} /\ k.seen = {}
      BY <2>3 DEF Idle
    <3> QED
      BY <1>1, <2>2, <3>1
  <2>4. CASE call' = [call EXCEPT ![a] = [call[a] EXCEPT !.phase = "write", !.seen = {DefaultBoard}]]
    <3> PICK k : k = [call[a] EXCEPT !.phase = "write", !.seen = {DefaultBoard}]
      OBVIOUS
    <3>1. k.update = call[a].update /\ k.seen = {DefaultBoard}
      BY <1>0 DEF CallShape, Fields
    <3>2. BoardSeen(k)
      BY <1>0, <3>1, EmptyBoards DEF BoardSeen, ColumnsInv
    <3> QED
      BY <1>0, <2>2, <2>4, <3>1, <3>2, ColumnsOfCall
  <2> QED
    BY <2>1, <2>3, <2>4
<1>9. ASSUME NEW a \in Callers, call' = [call EXCEPT ![a] = Idle], UNCHANGED added,
             files'["board"] = files["board"]
      PROVE  ColumnsInv'
  BY <1>1, <1>9, IdleShape
<1>10. ASSUME NEW a \in Callers, CallStep(a) PROVE ColumnsInv'
  <2>1. CASE WaitCancelled(a)
    BY <1>9, <2>1 DEF WaitCancelled, history
  <2> QED
    BY <1>4, <1>6, <1>8, <1>10, <2>1, WriteColumns DEF CallStep
<1>11. ASSUME Interrupt PROVE ColumnsInv'
  BY <1>9, <1>11 DEF Interrupt, Callers, Agents, history
<1>12. ASSUME Snapshot PROVE ColumnsInv'
  <2>1. UNCHANGED <<files, added>>
    BY <1>12 DEF Snapshot, history
  <2>2. CASE files["board"].made
    <3> PICK k : k = [Idle EXCEPT !.phase = "show"]
      OBVIOUS
    <3>1. call' = [call EXCEPT ![Screen] = k]
      BY <1>12, <2>2 DEF Snapshot
    <3>2. k.update = {} /\ k.seen = {}
      BY DEF Idle
    <3> QED
      BY <1>1, <2>1, <3>1, <3>2 DEF Callers
  <2>3. CASE ~files["board"].made
    <3> PICK k : k = [Idle EXCEPT !.phase = "default", !.update = {[kind |-> "board"]},
                                  !.seen = {files["board"]}]
      OBVIOUS
    <3>1. call' = [call EXCEPT ![Screen] = k]
      BY <1>12, <2>3 DEF Snapshot
    <3>2. k.update = {[kind |-> "board"]} /\ k.seen = {files["board"]}
      BY DEF Idle
    <3>3. BoardSeen(k)
      BY <3>2 DEF BoardSeen, ColumnsInv
    <3>4. \A u \in k.update : u.kind # "add"
      BY <3>2
    <3> QED
      BY <1>0, <2>1, <3>1, <3>3, <3>4, ColumnsOfCall DEF Callers
  <2> QED
    BY <2>2, <2>3
<1>13. ASSUME Materialize PROVE ColumnsInv'
  <2>1. call' = [call EXCEPT ![Screen] = Idle] /\ UNCHANGED added
    BY <1>13 DEF Materialize
  <2>2. files'["board"] = files["board"]
    BY <1>0, <1>13 DEF Materialize, Truncated, FilesTyped, Files
  <2> QED
    BY <1>9, <2>1, <2>2 DEF Callers
<1>14. ASSUME Crash PROVE ColumnsInv'
  <2>1. \A a \in Callers : call'[a] = Idle
    BY <1>14 DEF Crash
  <2>2. UNCHANGED files \/ \E f \in Files : Truncated(f)
    <3>1. \A a \in Callers : \A u \in call[a].update : FileOf(u) \in Files
      BY <1>0, FileOfKind DEF CallShape, Files
    <3>2. "board" \in Files /\ "records" \in Files
      BY DEF Files
    <3> QED
      BY <1>14, <3>1, <3>2 DEF Crash
  <2>3. files'["board"] \in {files["board"], Blank["board"]}
    BY <1>2, <2>2
  <2>4. \A a \in Callers : call'[a].update = {} /\ BoardSeen(call'[a])
    BY <2>1, IdleShape DEF BoardSeen
  <2>5. UNCHANGED added
    BY <1>14 DEF Crash
  <2> QED
    BY <1>0, <2>3, <2>4, <2>5, ColumnsKept
<1>15. ASSUME UNCHANGED <<call, files, added>> PROVE ColumnsInv'
  BY <1>0, <1>15, ColumnsKept
<1>16. ASSUME NEW w \in Workers, WorkerStep(w) \/ Cancel(w) PROVE ColumnsInv'
  <2>1. UNCHANGED <<call, files, added>>
    BY <1>16 DEF WorkerStep, RunWorker, Finish, Cancel, history
  <2> QED
    BY <1>15, <2>1
<1>17. ASSUME UNCHANGED vars PROVE ColumnsInv'
  BY <1>15, <1>17 DEF vars, history
<1> QED
  BY <1>3, <1>7, <1>10, <1>11, <1>12, <1>13, <1>14, <1>16, <1>17, BeginColumns DEF Next

-----------------------------------------------------------------------------
(* The theorems *)

\* The calls under way keep their shape in every state.
THEOREM ShapeHolds == Spec => []Shape
  BY InitShape, NextShape, PTL DEF Spec

\* What the store has of a worker's end, and what a wait reports, is how its
\* run did end: for any workers, names and calls, through lost updates, torn
\* files and crashes.
THEOREM EndsAreTrueHolds == Spec => []EndsAreTrue
<1>1. Spec => []EndsInv
  BY ShapeHolds, InitEnds, NextEnds, PTL DEF Spec
<1>2. EndsInv => EndsAreTrue
  BY DEF EndsInv, EndsAreTrue, RowsTrue, RecordsTrue, CallTrue, Truthful
<1> QED
  BY <1>1, <1>2, PTL

\* A sender's messages stand in the inbox in the order of their sending and
\* none twice, whatever overlapping calls and failed writes lose of them.
THEOREM InboxInOrderHolds == Spec => []InboxInOrder
<1>1. Spec => []InboxInv
  BY ShapeHolds, InitInbox, NextInbox, PTL DEF Spec
<1>2. InboxInv => InboxInOrder
  BY DEF InboxInv, InboxTrue, Ordered, InboxInOrder
<1> QED
  BY <1>1, <1>2, PTL


\* Files, calls and counters are of their types, and TypedInv beside them holds.
THEOREM TypedHolds == Spec => []TypedInv
  BY ShapeHolds, InitTyped, NextTyped, PTL DEF Spec

\* Files hold contents of their kind, also when calls overlap and writes fail.
THEOREM TypeCorrect == Spec => []TypeOK
<1>1. Shape /\ TypedInv => TypeOK
  <2> SUFFICES ASSUME Shape, TypedInv PROVE TypeOK
    OBVIOUS
  <2>1. ASSUME NEW a \in Callers
        PROVE  /\ [k \in {"phase", "update", "worker", "left"} |-> call[a][k]] \in Call
               /\ \A u \in call[a].update : call[a].seen \subseteq Contents(FileOf(u))
    <3>1. CallTyped(call[a])
      BY DEF TypedInv
    <3> PICK k : k = [phase |-> call[a].phase, update |-> call[a].update,
                      worker |-> call[a].worker, left |-> call[a].left]
      OBVIOUS
    <3>2. k \in Call
      BY <3>1 DEF CallTyped, Call
    <3>3. [x \in {"phase", "update", "worker", "left"} |-> call[a][x]] = k
      OBVIOUS
    <3> QED
      BY <3>1, <3>2, <3>3 DEF CallTyped
  <2> QED
    BY <2>1 DEF Shape, TypedInv, FilesTyped, RestTyped, TypeOK
<1> QED
  BY <1>1, ShapeHolds, TypedHolds, PTL

\* What an acknowledged call has asked for is in its file as long as no two
\* calls have overlapped on it and no write of it has failed, through crashes
\* between calls and writes of the default board.
THEOREM AcknowledgedIsKeptHolds == Spec => []AcknowledgedIsKept
<1>1. TypedInv => AcknowledgedIsKept
  BY DEF TypedInv, FilesTyped
<1> QED
  BY <1>1, TypedHolds, PTL

\* A task stands in one column and one more for every add, for any number of
\* columns, and of calls that overlap.
THEOREM OneColumnHolds == Spec => []OneColumn
<1>1. TypedInv /\ ColumnsInv => OneColumn
  <2> SUFFICES ASSUME TypedInv, ColumnsInv, NEW t \in Tasks
               PROVE  Cardinality({c \in Columns : t \in files["board"].columns[c]}) <= 1 + added[t]
    BY DEF OneColumn
  <2>1. /\ IsFiniteSet(In(files["board"], t)) /\ IsFiniteSet(Adders(t)) /\ added[t] \in Nat
        /\ Cardinality(In(files["board"], t)) + Cardinality(Adders(t)) <= 1 + added[t]
    BY DEF ColumnsInv, ColumnsTrue, AddersCounted, TypedInv, RestTyped
  <2>2. Cardinality(In(files["board"], t)) \in Nat /\ Cardinality(Adders(t)) \in Nat
    BY <2>1, FS_CardinalityType
  <2>3. Cardinality(In(files["board"], t)) <= 1 + added[t]
    BY <2>1, <2>2
  <2> QED
    BY <2>3 DEF In
<1>2. Spec => []ColumnsInv
  BY ShapeHolds, TypedHolds, InitColumns, NextColumns, PTL DEF Spec
<1> QED
  BY <1>1, <1>2, TypedHolds, PTL
=============================================================================
