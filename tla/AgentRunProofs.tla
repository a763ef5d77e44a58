--------------------------- MODULE AgentRunProofs ---------------------------
(***************************************************************************)
(* Proofs about AgentRun, for any sessions, tools, and numbers of runs and *)
(* calls: no guarded call takes effect without its permission, and no      *)
(* session is left busy by a run that is over or cancelled.                *)
(***************************************************************************)
EXTENDS AgentRun, TLAPS, SequenceTheorems

-----------------------------------------------------------------------------
(* The inductive invariant *)

Decision == [request : Request, choice : Choices]
Grant == [session : Sessions, tool : Guarded]

\* Requests of runs that were started.
Known == {q \in Request : q.run \in 1..Len(runs)}

PendingOf(r, x) == [run |-> r, number |-> (x.asked - 1) + 1, tool |-> Head(x.todo)]

\* A run x, the r-th, that waits for a permission has a guarded call ahead; an
\* answer is for a run that waits, and one that allows was the user's, to the
\* very request that is pending.
Fine(r, x) ==
    /\ x.phase \in {"tool", "ask"} => x.todo # << >>
    /\ x.phase = "ask" => Head(x.todo) \in Guarded /\ x.asked >= 1
    /\ x.phase # "ask" => x.answer = "none"
    /\ x.answer = "allow" => \E d \in decisions : d.request = PendingOf(r, x) /\ d.choice # "deny"

RunsOK == /\ runs \in Seq(RunState)
          /\ \A r \in 1..Len(runs) : Fine(r, runs[r])

\* What is shown, pressed, decided or done are requests of runs.
RequestsOK ==
    /\ prompts \in Seq(Known)
    /\ permission \in Request \cup {NoRequest} /\ showPermissions \in BOOLEAN
    /\ showPermissions => permission \in Known
    /\ decisions \subseteq [request : Known, choice : Choices]
    /\ pressed \subseteq decisions
    /\ effects \subseteq Known

\* A grant is, or will be, for the session whose user gave it.
Granted(g) == \E d \in decisions : /\ d.choice = "session" /\ d.request.tool = g.tool
                                   /\ SessionOf(d.request.run) = g.session

GrantsOK == /\ sessionPermissions \subseteq Grant /\ persisting \subseteq Grant
            /\ \A g \in sessionPermissions \cup persisting : Granted(g)

BusyOK == /\ activeRequests \in [Sessions -> 0..Len(runs)]
          /\ BusyIsAlive

IInv == RunsOK /\ RequestsOK /\ GrantsOK /\ BusyOK /\ EffectsArePermitted

-----------------------------------------------------------------------------
(* Lemmas *)

\* A sequence stays one when its elements are allowed more.
LEMMA SeqGrows ==
    ASSUME NEW S, NEW T, S \subseteq T, NEW s \in Seq(S)
    PROVE  s \in Seq(T)
  BY ElementOfSeq, LenProperties

\* What remains behind the first element.
LEMMA Rest ==
    ASSUME NEW S, NEW s \in Seq(S), s # << >>
    PROVE  Head(s) \in S /\ Tail(s) \in Seq(S)
  BY HeadTailProperties

\* Runs of another step keep what they are, and which session they are of.
LEMMA Changes ==
    ASSUME RunsOK, NEW r \in 1..Len(runs), NEW new \in RunState, new.session = runs[r].session,
           runs' = [runs EXCEPT ![r] = new],
           decisions \subseteq decisions',
           /\ new.phase \in {"tool", "ask"} => new.todo # << >>
           /\ new.phase = "ask" => Head(new.todo) \in Guarded /\ new.asked >= 1
           /\ new.phase # "ask" => new.answer = "none"
           /\ new.answer = "allow" => \E d \in decisions' : d.request = PendingOf(r, new) /\ d.choice # "deny"
    PROVE  /\ RunsOK' /\ Len(runs') = Len(runs) /\ Known' = Known
           /\ \A q \in 1..Len(runs) : /\ runs'[q] = IF q = r THEN new ELSE runs[q]
                                      /\ SessionOf(q)' = SessionOf(q)
<1>1. /\ runs' \in Seq(RunState) /\ Len(runs') = Len(runs)
      /\ \A q \in 1..Len(runs) : runs'[q] = IF q = r THEN new ELSE runs[q]
  BY ExceptSeq, LenProperties DEF RunsOK
<1>2. ASSUME NEW q \in 1..Len(runs) PROVE (Fine(q, runs[q]))'
  <2>1. CASE q = r
    <3>1. runs'[q] = new
      BY <1>1, <2>1
    <3> QED
      BY <2>1, <3>1 DEF Fine, PendingOf
  <2>2. CASE q # r
    <3>1. runs'[q] = runs[q] /\ Fine(q, runs[q])
      BY <1>1, <2>2 DEF RunsOK
    <3> QED
      BY <3>1 DEF Fine, PendingOf
  <2> QED
    BY <2>1, <2>2
<1>3. RunsOK'
  BY <1>1, <1>2 DEF RunsOK
<1> QED
  BY <1>1, <1>3 DEF SessionOf, Known

\* A step of a run that asks for what is known, is permitted what it does and
\* leaves no session busy with it when it is over keeps the invariant.
LEMMA StepKeeps ==
    ASSUME IInv, NEW r \in 1..Len(runs), NEW new \in RunState,
           new.session = runs[r].session, new.cancelled = runs[r].cancelled, Fine(r, new),
           runs' = [runs EXCEPT ![r] = new],
           UNCHANGED <<permission, showPermissions, pressed, sessionPermissions, persisting, decisions>>,
           prompts' \in Seq(Known),
           \A e \in effects' : e \in effects \/ (e \in Known /\ \E d \in decisions : Permits(d, e)),
           \/ activeRequests' = activeRequests /\ new.phase # "over"
           \/ activeRequests' = [activeRequests EXCEPT ![SessionOf(r)] = 0]
    PROVE  IInv'
<1>1. /\ RunsOK' /\ Len(runs') = Len(runs) /\ Known' = Known
      /\ \A q \in 1..Len(runs) : /\ runs'[q] = IF q = r THEN new ELSE runs[q]
                                 /\ SessionOf(q)' = SessionOf(q)
  BY Changes DEF IInv, Fine
<1>2. RequestsOK'
  BY <1>1 DEF IInv, RequestsOK
<1>3. \A d \in decisions : d.request.run \in 1..Len(runs)
  BY DEF IInv, RequestsOK, Known
<1>4. GrantsOK'
  BY <1>1, <1>3 DEF IInv, GrantsOK, Granted
<1>5. BusyOK'
  <2>1. runs[r] \in RunState /\ SessionOf(r) \in Sessions
    BY ElementOfSeq DEF IInv, RunsOK, SessionOf, RunState
  <2>2. \A s \in Sessions : activeRequests'[s] # 0 =>
            activeRequests'[s] = activeRequests[s] /\ (s = SessionOf(r) => new.phase # "over")
    BY <2>1 DEF IInv, BusyOK
  <2>3. activeRequests' \in [Sessions -> 0..Len(runs')]
    BY <1>1, <2>1 DEF IInv, BusyOK
  <2>4. \A s \in Sessions, q \in 1..Len(runs) : activeRequests'[s] = q =>
            runs'[q].phase # "over" /\ ~runs'[q].cancelled /\ runs'[q].session = s
    <3> SUFFICES ASSUME NEW s \in Sessions, NEW q \in 1..Len(runs), activeRequests'[s] = q
                 PROVE  runs'[q].phase # "over" /\ ~runs'[q].cancelled /\ runs'[q].session = s
      OBVIOUS
    <3>1. activeRequests[s] = q /\ (s = SessionOf(r) => new.phase # "over")
      BY <2>2
    <3>2. runs[q].phase # "over" /\ ~runs[q].cancelled /\ runs[q].session = s
      BY <3>1 DEF IInv, BusyOK, BusyIsAlive, SessionOf
    <3> QED
      BY <1>1, <3>1, <3>2 DEF SessionOf
  <2> QED
    BY <1>1, <2>3, <2>4 DEF BusyOK, BusyIsAlive, SessionOf
<1>6. EffectsArePermitted'
  <2> SUFFICES ASSUME NEW e \in effects' PROVE \E d \in decisions : Permits(d, e)'
    BY DEF EffectsArePermitted
  <2>1. PICK d \in decisions : Permits(d, e)
    BY DEF IInv, EffectsArePermitted
  <2>2. e.run \in 1..Len(runs)
    BY DEF IInv, RequestsOK, Known
  <2> QED
    BY <1>1, <1>3, <2>1, <2>2 DEF Permits
<1>7. effects' \subseteq Known
  BY DEF IInv, RequestsOK
<1> QED
  BY <1>1, <1>2, <1>4, <1>5, <1>6, <1>7 DEF IInv, RequestsOK

\* Each step of a run's goroutine.
LEMMA RunSteps ==
    ASSUME IInv, NEW r \in 1..Len(runs), Step(r)
    PROVE  IInv'
<1> PICK x : x = runs[r]
  OBVIOUS
<1>x. x \in RunState /\ Fine(r, x) /\ prompts \in Seq(Known)
  BY ElementOfSeq DEF IInv, RunsOK, RequestsOK
<1>n. DOMAIN runs = 1..Len(runs)
  BY LenProperties DEF IInv, RunsOK
<1>1. CASE Iterate(r)
  <2> PICK new : new = [x EXCEPT !.phase = IF Done(r) THEN "finish" ELSE "stream"]
    OBVIOUS
  <2>1. x.phase = "iterate" /\ runs' = [runs EXCEPT ![r] = new]
    BY <1>1, <1>n DEF Iterate, At, Goto
  <2>2. new \in RunState /\ Fine(r, new) /\ new.phase # "over"
    BY <1>x, <2>1 DEF RunState, Phases, Fine
  <2> QED
    BY <1>1, <1>x, <2>1, <2>2, StepKeeps DEF Iterate, RunState, permissionVars
<1>2. CASE StreamFails(r)
  <2> PICK new : new = [x EXCEPT !.phase = "finish"]
    OBVIOUS
  <2>1. x.phase = "stream" /\ runs' = [runs EXCEPT ![r] = new]
    BY <1>2, <1>n DEF StreamFails, At, Goto
  <2>2. new \in RunState /\ Fine(r, new) /\ new.phase # "over"
    BY <1>x, <2>1 DEF RunState, Phases, Fine
  <2> QED
    BY <1>2, <1>x, <2>1, <2>2, StepKeeps DEF StreamFails, RunState, permissionVars
<1>3. ASSUME NEW calls \in Responses, StreamCompletes(r, calls) PROVE IInv'
  <2> PICK new : new = [x EXCEPT !.phase = IF calls = << >> THEN "finish" ELSE "calls",
                                 !.todo = calls, !.again = TRUE]
    OBVIOUS
  <2>1. x.phase = "stream" /\ runs' = [runs EXCEPT ![r] = new]
    BY <1>3, <1>n DEF StreamCompletes, At
  <2>2. calls \in Seq(Tools)
    BY <1>3, SeqDef, AgentAssumption DEF Responses
  <2>3. new \in RunState /\ Fine(r, new) /\ new.phase # "over"
    BY <1>x, <2>1, <2>2 DEF RunState, Phases, Fine
  <2> QED
    BY <1>3, <1>x, <2>1, <2>3, StepKeeps DEF StreamCompletes, RunState, permissionVars
<1>4. CASE NextCall(r)
  <2> PICK new : new = [x EXCEPT !.phase = IF Done(r) \/ x.todo = << >> THEN "results" ELSE "tool",
                                 !.todo = IF Done(r) THEN << >> ELSE @,
                                 !.again = @ /\ ~(Done(r) /\ x.todo # << >>)]
    OBVIOUS
  <2>1. x.phase = "calls" /\ runs' = [runs EXCEPT ![r] = new]
    BY <1>4, <1>n DEF NextCall, At
  <2>2. new \in RunState /\ new.phase # "over"
    BY <1>x, <2>1, EmptySeq DEF RunState, Phases
  <2>3. Fine(r, new)
    BY <1>x, <2>1 DEF Fine, RunState, Phases
  <2> QED
    BY <1>4, <1>x, <2>1, <2>2, <2>3, StepKeeps DEF NextCall, RunState, permissionVars
<1>5. CASE ReturnUnasked(r)
  <2> PICK new : new = [x EXCEPT !.phase = "calls", !.todo = Tail(@)]
    OBVIOUS
  <2>1. x.phase = "tool" /\ runs' = [runs EXCEPT ![r] = new]
    BY <1>5, <1>n DEF ReturnUnasked, At
  <2>2. x.todo \in Seq(Tools) /\ x.todo # << >>
    BY <1>x, <2>1 DEF RunState, Fine
  <2>3. Tail(x.todo) \in Seq(Tools)
    BY <2>2, Rest
  <2>4. new \in RunState /\ Fine(r, new) /\ new.phase # "over"
    BY <1>x, <2>1, <2>3 DEF RunState, Phases, Fine
  <2> QED
    BY <1>5, <1>x, <2>1, <2>4, StepKeeps DEF ReturnUnasked, RunState, permissionVars
<1>6. CASE PersistedTool(r)
  <2> PICK n : n = x.asked + 1
    OBVIOUS
  <2> PICK new : new = [x EXCEPT !.phase = "calls", !.todo = Tail(@), !.asked = n]
    OBVIOUS
  <2>0. n \in Nat
    BY <1>x DEF RunState
  <2> PICK e : e = RequestOf(r, runs[r].asked)
    OBVIOUS
  <2>1. x.phase = "tool" /\ runs' = [runs EXCEPT ![r] = new] /\ effects' = effects \cup {e}
    BY <1>6, <1>n DEF PersistedTool, At
  <2>2. x.todo \in Seq(Tools) /\ x.todo # << >>
    BY <1>x, <2>1 DEF RunState, Fine
  <2>3. Tail(x.todo) \in Seq(Tools) /\ Head(x.todo) \in Guarded
    BY <1>6, <2>2, Rest DEF PersistedTool
  <2>4. new \in RunState /\ Fine(r, new) /\ new.phase # "over"
    BY <1>x, <2>0, <2>1, <2>3 DEF RunState, Phases, Fine
  <2>5. e = [run |-> r, number |-> x.asked + 1, tool |-> Head(x.todo)]
    BY DEF RequestOf
  <2>6. e \in Known
    BY <1>x, <2>3, <2>5 DEF Known, Request, RunState
  <2>7. PICK d \in decisions : d.choice = "session" /\ d.request.tool = Head(x.todo)
                               /\ SessionOf(d.request.run) = SessionOf(r)
    BY <1>6 DEF PersistedTool, Persisted, IInv, GrantsOK, Granted
  <2>8. Permits(d, e)
    BY <2>5, <2>7 DEF Permits
  <2>9. \A f \in effects' : f \in effects \/ (f \in Known /\ \E c \in decisions : Permits(c, f))
    BY <2>1, <2>6, <2>8
  <2> QED
    BY <1>6, <1>x, <2>1, <2>4, <2>9, StepKeeps DEF PersistedTool, RunState, permissionVars
<1>7. CASE Ask(r)
  <2> PICK n : n = x.asked + 1
    OBVIOUS
  <2> PICK new : new = [x EXCEPT !.phase = "ask", !.asked = n]
    OBVIOUS
  <2>0. n \in Nat /\ n >= 1
    BY <1>x DEF RunState
  <2> PICK e : e = RequestOf(r, runs[r].asked)
    OBVIOUS
  <2>1. x.phase = "tool" /\ runs' = [runs EXCEPT ![r] = new] /\ prompts' = Append(prompts, e)
    BY <1>7, <1>n DEF Ask, At
  <2>2. x.todo # << >> /\ Head(x.todo) \in Guarded
    BY <1>7, <1>x, <2>1 DEF Fine, Ask
  <2>3. new \in RunState /\ new.phase # "over"
    BY <1>x, <2>0, <2>1 DEF RunState, Phases
  <2>4. Fine(r, new)
    BY <1>x, <2>0, <2>1, <2>2 DEF RunState, Fine
  <2>5. e \in Known
    BY <1>x, <2>2 DEF RequestOf, Known, Request, RunState
  <2>6. prompts' \in Seq(Known)
    BY <1>x, <2>1, <2>5, AppendProperties
  <2> QED
    BY <1>7, <1>x, <2>1, <2>3, <2>4, <2>6, StepKeeps DEF Ask, RunState
<1>8. CASE Allowed(r)
  <2> PICK new : new = [x EXCEPT !.phase = "calls", !.todo = Tail(@), !.answer = "none"]
    OBVIOUS
  <2> PICK e : e = Pending(r)
    OBVIOUS
  <2>1. /\ x.phase = "ask" /\ x.answer = "allow" /\ runs' = [runs EXCEPT ![r] = new]
        /\ effects' = effects \cup {e}
    BY <1>8, <1>n DEF Allowed, At
  <2>2. x.todo \in Seq(Tools) /\ x.todo # << >> /\ Head(x.todo) \in Guarded
    BY <1>x, <2>1 DEF RunState, Fine
  <2>3. Tail(x.todo) \in Seq(Tools)
    BY <2>2, Rest
  <2>4. new \in RunState /\ Fine(r, new) /\ new.phase # "over"
    BY <1>x, <2>1, <2>3 DEF RunState, Phases, Fine
  <2>5. e = PendingOf(r, x)
    BY DEF Pending, RequestOf, PendingOf
  <2>6. PICK d \in decisions : d.request = e /\ d.choice # "deny"
    BY <1>x, <2>1, <2>5 DEF Fine
  <2>7. e \in Known /\ Permits(d, e)
    BY <2>6 DEF IInv, RequestsOK, Permits
  <2>8. \A f \in effects' : f \in effects \/ (f \in Known /\ \E c \in decisions : Permits(c, f))
    BY <2>1, <2>7
  <2> QED
    BY <1>8, <1>x, <2>1, <2>4, <2>8, StepKeeps DEF Allowed, RunState, permissionVars
<1>9. CASE Denied(r)
  <2> PICK again \in {FALSE, runs[r].again} :
        runs' = [runs EXCEPT ![r].phase = "calls", ![r].todo = Tail(@),
                             ![r].answer = "none", ![r].again = again]
    BY <1>9 DEF Denied
  <2> PICK new : new = [x EXCEPT !.phase = "calls", !.todo = Tail(@), !.answer = "none", !.again = again]
    OBVIOUS
  <2>1. x.phase = "ask" /\ runs' = [runs EXCEPT ![r] = new]
    BY <1>9, <1>n DEF Denied, At
  <2>2. x.todo \in Seq(Tools) /\ x.todo # << >>
    BY <1>x, <2>1 DEF RunState, Fine
  <2>3. Tail(x.todo) \in Seq(Tools) /\ again \in BOOLEAN
    BY <1>x, <2>2, Rest DEF RunState
  <2>4. new \in RunState /\ Fine(r, new) /\ new.phase # "over"
    BY <1>x, <2>1, <2>3 DEF RunState, Phases, Fine
  <2> QED
    BY <1>9, <1>x, <2>1, <2>4, StepKeeps DEF Denied, RunState, permissionVars
<1>10. CASE StoreResults(r)
  <2> PICK phase \in {"iterate", "finish"} : runs' = [runs EXCEPT ![r].phase = phase]
    BY <1>10 DEF StoreResults, Goto
  <2> PICK new : new = [x EXCEPT !.phase = phase]
    OBVIOUS
  <2>1. x.phase = "results" /\ runs' = [runs EXCEPT ![r] = new]
    BY <1>10, <1>n DEF StoreResults, At
  <2>2. new \in RunState /\ Fine(r, new) /\ new.phase # "over"
    BY <1>x, <2>1 DEF RunState, Phases, Fine
  <2> QED
    BY <1>10, <1>x, <2>1, <2>2, StepKeeps DEF StoreResults, RunState, permissionVars
<1>11. CASE Finish(r)
  <2> PICK new : new = [x EXCEPT !.phase = "over", !.todo = << >>, !.again = FALSE]
    OBVIOUS
  <2>1. x.phase = "finish" /\ runs' = [runs EXCEPT ![r] = new]
    BY <1>11, <1>n DEF Finish, At, Return
  <2>2. new \in RunState /\ Fine(r, new)
    BY <1>x, <2>1, EmptySeq DEF RunState, Phases, Fine
  <2> QED
    BY <1>11, <1>x, <2>1, <2>2, StepKeeps DEF Finish, RunState, permissionVars
<1> QED
  BY <1>1, <1>2, <1>3, <1>4, <1>5, <1>6, <1>7, <1>8, <1>9, <1>10, <1>11 DEF Step

\* While no run changes but in its answer or its cancellation, and nobody
\* takes back a decision, what holds of requests, grants and effects holds.
LEMMA Lasts ==
    ASSUME IInv, RunsOK', Len(runs) <= Len(runs'),
           \A q \in 1..Len(runs) : runs'[q].session = runs[q].session,
           decisions \subseteq decisions'
    PROVE  /\ Known \subseteq Known'
           /\ \A g \in Grant : Granted(g) => (Granted(g))'
           /\ effects' = effects => EffectsArePermitted'
<1>1. Known \subseteq Known'
  BY LenProperties DEF IInv, RunsOK, Known
<1>2. \A d \in decisions : d \in decisions' /\ d.request.run \in 1..Len(runs)
  BY DEF IInv, RequestsOK, Known
<1>3. \A g \in Grant : Granted(g) => (Granted(g))'
  BY <1>2 DEF Granted, SessionOf
<1>4. ASSUME effects' = effects PROVE EffectsArePermitted'
  <2> SUFFICES ASSUME NEW e \in effects PROVE \E d \in decisions' : Permits(d, e)'
    BY <1>4 DEF EffectsArePermitted
  <2>1. PICK d \in decisions : Permits(d, e)
    BY DEF IInv, EffectsArePermitted
  <2>2. e.run \in 1..Len(runs)
    BY DEF IInv, RequestsOK, Known
  <2> QED
    BY <1>2, <2>1, <2>2 DEF Permits, SessionOf
<1> QED
  BY <1>1, <1>3, <1>4

LEMMA RunKeeps ==
    ASSUME IInv, NEW s \in Sessions, Run(s)
    PROVE  IInv'
<1> PICK new : new = [session |-> s, phase |-> "iterate", cancelled |-> FALSE,
                      todo |-> << >>, asked |-> 0, answer |-> "none", again |-> FALSE]
  OBVIOUS
<1> PICK n : n = Len(runs) + 1
  OBVIOUS
<1>1. runs \in Seq(RunState) /\ Len(runs) \in Nat /\ n \in Nat
  BY LenProperties DEF IInv, RunsOK
<1>2. /\ new \in RunState
      /\ new.session = s /\ new.phase = "iterate" /\ new.answer = "none" /\ ~new.cancelled
  BY EmptySeq DEF RunState, Phases
<1>3. runs' = Append(runs, new) /\ activeRequests' = [activeRequests EXCEPT ![s] = n]
  BY DEF Run
<1>4. /\ runs' \in Seq(RunState) /\ Len(runs') = n /\ runs'[n] = new
      /\ \A q \in 1..Len(runs) : runs'[q] = runs[q]
  BY <1>1, <1>2, <1>3, AppendProperties
<1>5. RunsOK'
  <2>1. ASSUME NEW q \in 1..n PROVE (Fine(q, runs[q]))'
    <3>1. CASE q = n
      BY <1>2, <1>4, <3>1 DEF Fine
    <3>2. CASE q # n
      <4>1. q \in 1..Len(runs)
        BY <1>1, <3>2
      <4>2. runs'[q] = runs[q] /\ Fine(q, runs[q]) /\ decisions' = decisions
        BY <1>4, <4>1 DEF IInv, RunsOK, Run, permissionVars
      <4> QED
        BY <4>2 DEF Fine, PendingOf
    <3> QED
      BY <3>1, <3>2
  <2> QED
    BY <1>4, <2>1 DEF RunsOK
<1>6. /\ Known \subseteq Known'
      /\ \A g \in Grant : Granted(g) => (Granted(g))'
      /\ EffectsArePermitted'
  BY <1>1, <1>4, <1>5, Lasts DEF Run, permissionVars
<1>7. RequestsOK'
  BY <1>6, SeqGrows DEF IInv, RequestsOK, Run, permissionVars
<1>8. GrantsOK'
  BY <1>6 DEF IInv, GrantsOK, Run, permissionVars
<1>9. BusyOK'
  <2>1. activeRequests' \in [Sessions -> 0..n]
    BY <1>1, <1>3 DEF IInv, BusyOK
  <2>2. ASSUME NEW t \in Sessions, NEW q \in 1..n, activeRequests'[t] = q
        PROVE  runs'[q].phase # "over" /\ ~runs'[q].cancelled /\ runs'[q].session = t
    <3>1. CASE t = s
      BY <1>2, <1>3, <1>4, <2>2, <3>1 DEF IInv, BusyOK
    <3>2. CASE t # s
      <4>1. activeRequests[t] = q /\ q \in 1..Len(runs)
        BY <1>3, <2>2, <3>2 DEF IInv, BusyOK
      <4>2. runs[q].phase # "over" /\ ~runs[q].cancelled /\ runs[q].session = t
        BY <4>1 DEF IInv, BusyOK, BusyIsAlive, SessionOf
      <4> QED
        BY <1>4, <4>1, <4>2
    <3> QED
      BY <3>1, <3>2
  <2>3. BusyIsAlive'
    BY <1>1, <1>4, <2>1, <2>2 DEF BusyIsAlive, SessionOf
  <2> QED
    BY <1>4, <2>1, <2>3 DEF BusyOK
<1> QED
  BY <1>5, <1>6, <1>7, <1>8, <1>9 DEF IInv

LEMMA CancelKeeps ==
    ASSUME IInv, NEW s \in Sessions, Cancel(s)
    PROVE  IInv'
<1> PICK r : r = activeRequests[s]
  OBVIOUS
<1> PICK new : new = [runs[r] EXCEPT !.cancelled = TRUE]
  OBVIOUS
<1>1. r \in 1..Len(runs) /\ SessionOf(r) = s
  BY DEF IInv, BusyOK, BusyIsAlive, Cancel
<1>2. runs[r] \in RunState /\ Fine(r, runs[r])
  BY <1>1, ElementOfSeq DEF IInv, RunsOK
<1>3. new \in RunState /\ new.session = runs[r].session
  BY <1>2 DEF RunState
<1>4. Fine(r, new)
  BY <1>2 DEF Fine, PendingOf, RunState
<1>5. runs' = [runs EXCEPT ![r] = new] /\ activeRequests' = [activeRequests EXCEPT ![s] = 0]
  BY DEF Cancel
<1>6. decisions' = decisions /\ effects' = effects
  BY DEF Cancel, permissionVars
<1>7. /\ RunsOK' /\ Len(runs') = Len(runs) /\ Known' = Known
      /\ \A q \in 1..Len(runs) : /\ runs'[q] = IF q = r THEN new ELSE runs[q]
                                 /\ SessionOf(q)' = SessionOf(q)
  BY <1>1, <1>3, <1>4, <1>5, <1>6, Changes DEF IInv, Fine
<1>8. Len(runs) \in Nat
  BY LenProperties DEF IInv, RunsOK
<1>9. /\ \A g \in Grant : Granted(g) => (Granted(g))'
      /\ EffectsArePermitted'
  <2>1. \A q \in 1..Len(runs) : runs'[q].session = runs[q].session
    BY <1>3, <1>7
  <2> QED
    BY <1>6, <1>7, <1>8, <2>1, Lasts
<1>10. RequestsOK'
  BY <1>7 DEF IInv, RequestsOK, Cancel, permissionVars
<1>11. GrantsOK'
  BY <1>9 DEF IInv, GrantsOK, Cancel, permissionVars
<1>12. BusyOK'
  <2>1. activeRequests' \in [Sessions -> 0..Len(runs')]
    BY <1>5, <1>7, <1>8 DEF IInv, BusyOK
  <2>2. ASSUME NEW t \in Sessions, NEW q \in 1..Len(runs), activeRequests'[t] = q
        PROVE  runs'[q].phase # "over" /\ ~runs'[q].cancelled /\ runs'[q].session = t
    <3>1. t # s /\ activeRequests[t] = q
      BY <1>5, <2>2 DEF IInv, BusyOK
    <3>2. runs[q].phase # "over" /\ ~runs[q].cancelled /\ runs[q].session = t
      BY <2>2, <3>1 DEF IInv, BusyOK, BusyIsAlive, SessionOf
    <3>3. q # r
      BY <1>1, <3>1, <3>2 DEF SessionOf
    <3> QED
      BY <1>7, <3>2, <3>3
  <2> QED
    BY <1>7, <2>1, <2>2 DEF BusyOK, BusyIsAlive, SessionOf
<1> QED
  BY <1>7, <1>9, <1>10, <1>11, <1>12 DEF IInv


\* The dialog and the user change requests, decisions and grants only.
LEMMA DialogKeeps ==
    ASSUME IInv, UNCHANGED <<runs, activeRequests, effects>>, decisions \subseteq decisions',
           RequestsOK', sessionPermissions' \subseteq Grant, persisting' \subseteq Grant,
           \A g \in sessionPermissions' \cup persisting' : Granted(g)
    PROVE  IInv'
<1>1. ASSUME NEW q \in 1..Len(runs) PROVE (Fine(q, runs[q]))'
  BY DEF IInv, RunsOK, Fine, PendingOf
<1>2. RunsOK'
  BY <1>1 DEF IInv, RunsOK
<1>3. Len(runs) \in Nat
  BY LenProperties DEF IInv, RunsOK
<1>4. /\ \A g \in Grant : Granted(g) => (Granted(g))'
      /\ EffectsArePermitted'
  BY <1>2, <1>3, Lasts
<1>5. BusyOK' /\ GrantsOK'
  BY <1>4 DEF IInv, BusyOK, BusyIsAlive, SessionOf, GrantsOK
<1> QED
  BY <1>2, <1>4, <1>5 DEF IInv

LEMMA RespondKeeps ==
    ASSUME IInv, Respond
    PROVE  IInv'
<1>a. PICK a \in pressed :
        LET r == a.request.run
        IN /\ runs' = IF At(r, "ask") /\ Pending(r) = a.request
                      THEN [runs EXCEPT ![r].answer = AnswerOf(a.choice)]
                      ELSE runs
           /\ persisting' = IF a.choice = "session"
                            THEN {[session |-> SessionOf(r), tool |-> a.request.tool]}
                            ELSE {}
  BY DEF Respond
<1>r. PICK r : r = a.request.run
  OBVIOUS
<1>1. /\ a \in decisions /\ a.request \in Known /\ a.request.tool \in Guarded
      /\ a.choice \in Choices /\ r \in 1..Len(runs)
  BY <1>r DEF IInv, RequestsOK, Known, Request
<1>2. /\ runs[r] \in RunState /\ Fine(r, runs[r]) /\ Len(runs) \in Nat
      /\ DOMAIN runs = 1..Len(runs)
  BY <1>1, ElementOfSeq, LenProperties DEF IInv, RunsOK
<1>3. decisions' = decisions /\ effects' = effects /\ activeRequests' = activeRequests
  BY DEF Respond
<1>4. /\ RunsOK' /\ Len(runs') = Len(runs) /\ Known' = Known
      /\ \A q \in 1..Len(runs) : /\ runs'[q].session = runs[q].session
                                 /\ runs'[q].phase = runs[q].phase
                                 /\ runs'[q].cancelled = runs[q].cancelled
  <2>1. CASE At(r, "ask") /\ Pending(r) = a.request
    <3>0. PICK new : new = [runs[r] EXCEPT !.answer = AnswerOf(a.choice)]
      OBVIOUS
    <3>1. runs' = [runs EXCEPT ![r] = new] /\ runs[r].phase = "ask"
      BY <1>a, <1>r, <2>1, <1>2, <3>0 DEF At
    <3>2. /\ new \in RunState /\ new.session = runs[r].session /\ new.phase = "ask"
          /\ new.cancelled = runs[r].cancelled
      BY <1>2, <3>0, <3>1 DEF RunState, AnswerOf
    <3>3. PendingOf(r, new) = a.request
      BY <1>2, <2>1, <3>0 DEF Pending, RequestOf, PendingOf, RunState
    <3>4. Fine(r, new)
      BY <1>1, <1>2, <3>0, <3>1, <3>2, <3>3 DEF Fine, AnswerOf, RunState
    <3>5. /\ RunsOK' /\ Len(runs') = Len(runs) /\ Known' = Known
          /\ \A q \in 1..Len(runs) : runs'[q] = IF q = r THEN new ELSE runs[q]
      <4>1. RunsOK /\ decisions \subseteq decisions'
        BY <1>3 DEF IInv
      <4>2. /\ new.phase \in {"tool", "ask"} => new.todo # << >>
            /\ new.phase = "ask" => Head(new.todo) \in Guarded /\ new.asked >= 1
            /\ new.phase # "ask" => new.answer = "none"
            /\ new.answer = "allow" =>
                 \E d \in decisions' : d.request = PendingOf(r, new) /\ d.choice # "deny"
        BY <1>3, <3>4 DEF Fine
      <4> HIDE DEF PendingOf, Fine
      <4> QED
        BY <1>1, <3>1, <3>2, <4>1, <4>2, Changes
    <3> QED
      BY <3>1, <3>2, <3>5
  <2>2. CASE ~(At(r, "ask") /\ Pending(r) = a.request)
    <3>1. runs' = runs
      BY <1>a, <1>r, <2>2
    <3>2. ASSUME NEW q \in 1..Len(runs) PROVE (Fine(q, runs[q]))'
      BY <1>3, <3>1 DEF IInv, RunsOK, Fine, PendingOf
    <3> QED
      BY <3>1, <3>2 DEF IInv, RunsOK, Known
  <2> QED
    BY <2>1, <2>2
<1>5. /\ \A g \in Grant : Granted(g) => (Granted(g))'
      /\ EffectsArePermitted'
  BY <1>2, <1>3, <1>4, Lasts
<1>6. RequestsOK'
  BY <1>4 DEF IInv, RequestsOK, Respond
<1>7. GrantsOK'
  <2>1. \A g \in persisting' : g \in Grant /\ Granted(g)
    <3> SUFFICES ASSUME NEW g \in persisting' PROVE g \in Grant /\ Granted(g)
      OBVIOUS
    <3>1. a.choice = "session" /\ g = [session |-> SessionOf(r), tool |-> a.request.tool]
      BY <1>a, <1>r
    <3>2. SessionOf(r) \in Sessions
      BY <1>2 DEF SessionOf, RunState
    <3> QED
      BY <1>1, <1>r, <3>1, <3>2 DEF Grant, Granted
  <2> QED
    BY <1>5, <2>1 DEF IInv, GrantsOK, Respond
<1>8. BusyOK'
  <2>1. ASSUME NEW s \in Sessions, NEW q \in 1..Len(runs), activeRequests'[s] = q
        PROVE  runs'[q].phase # "over" /\ ~runs'[q].cancelled /\ runs'[q].session = s
    <3>1. runs[q].phase # "over" /\ ~runs[q].cancelled /\ runs[q].session = s
      BY <1>3, <2>1 DEF IInv, BusyOK, BusyIsAlive, SessionOf
    <3> QED
      BY <1>4, <3>1
  <2> QED
    BY <1>3, <1>4, <2>1 DEF IInv, BusyOK, BusyIsAlive, SessionOf
<1> QED
  BY <1>3, <1>4, <1>5, <1>6, <1>7, <1>8 DEF IInv, RequestsOK

-----------------------------------------------------------------------------
(* Theorems *)

LEMMA Starts == Init => IInv
<1> SUFFICES ASSUME Init PROVE IInv
  OBVIOUS
<1>1. RunsOK
  BY EmptySeq DEF Init, RunsOK
<1>2. RequestsOK
  BY EmptySeq DEF Init, RequestsOK
<1>3. GrantsOK /\ BusyOK /\ EffectsArePermitted
  BY EmptySeq DEF Init, GrantsOK, BusyOK, BusyIsAlive, EffectsArePermitted
<1> QED
  BY <1>1, <1>2, <1>3 DEF IInv

LEMMA Keeps == IInv /\ [Next]_vars => IInv'
<1> SUFFICES ASSUME IInv, [Next]_vars PROVE IInv'
  OBVIOUS
<1>1. ASSUME NEW s \in Sessions, Run(s) \/ Cancel(s) PROVE IInv'
  BY <1>1, RunKeeps, CancelKeeps
<1>2. ASSUME NEW r \in DOMAIN runs, Step(r) PROVE IInv'
  <2>1. r \in 1..Len(runs)
    BY <1>2, LenProperties DEF IInv, RunsOK
  <2> QED
    BY <1>2, <2>1, RunSteps
<1>3. CASE ShowPrompt
  <2>1. Head(prompts) \in Known /\ Tail(prompts) \in Seq(Known)
    BY <1>3, Rest DEF ShowPrompt, IInv, RequestsOK
  <2>2. RequestsOK'
    BY <1>3, <2>1 DEF ShowPrompt, IInv, RequestsOK, Known
  <2> QED
    BY <1>3, <2>2, DialogKeeps DEF ShowPrompt, IInv, GrantsOK
<1>4. CASE DropPrompt
  <2>1. Tail(prompts) \in Seq(Known)
    BY <1>4, Rest DEF DropPrompt, IInv, RequestsOK
  <2>2. RequestsOK'
    BY <1>4, <2>1 DEF DropPrompt, IInv, RequestsOK, Known
  <2> QED
    BY <1>4, <2>2, DialogKeeps DEF DropPrompt, IInv, GrantsOK
<1>5. ASSUME NEW choice \in Choices, Press(choice) PROVE IInv'
  <2>1. permission \in Known
    BY <1>5 DEF Press, IInv, RequestsOK
  <2>2. RequestsOK'
    BY <1>5, <2>1 DEF Press, IInv, RequestsOK, Known
  <2> QED
    BY <1>5, <2>2, DialogKeeps DEF Press, IInv, GrantsOK
<1>6. CASE Respond
  BY <1>6, RespondKeeps
<1>7. CASE Persist
  <2>1. RequestsOK'
    BY <1>7 DEF Persist, IInv, RequestsOK, Known
  <2> QED
    BY <1>7, <2>1, DialogKeeps DEF Persist, IInv, GrantsOK
<1>8. CASE UNCHANGED vars
  <2>1. RequestsOK'
    BY <1>8 DEF vars, IInv, RequestsOK, Known
  <2> QED
    BY <1>8, <2>1, DialogKeeps DEF vars, IInv, GrantsOK
<1> QED
  BY <1>1, <1>2, <1>3, <1>4, <1>5, <1>6, <1>7, <1>8 DEF Next

\* The invariant is inductive.
THEOREM Inductive == Spec => []IInv
<1> QED
  BY Starts, Keeps, PTL DEF Spec

\* Runs, requests, decisions and grants keep their types, and a session is
\* never busy with a run that was not started.
THEOREM TypeCorrect == Spec => []TypeOK
<1>1. IInv => TypeOK
  BY SeqGrows DEF IInv, RunsOK, RequestsOK, GrantsOK, BusyOK, TypeOK, Known, Grant
<1> QED
  BY <1>1, Inductive, PTL

\* However many runs ask, and whatever prompt has taken the place of another in
\* the dialog when a key arrives, a guarded tool takes effect only with the
\* user's permission for this request, or for this tool in this session.
THEOREM EffectsHavePermission == Spec => []EffectsArePermitted
<1>1. IInv => EffectsArePermitted
  BY DEF IInv
<1> QED
  BY <1>1, Inductive, PTL

\* No order of cancellations, new prompts and late ends of cancelled runs
\* leaves a session busy with a run that is over, cancelled or not its own.
THEOREM NoSessionStaysBusy == Spec => []BusyIsAlive
<1>1. IInv => BusyIsAlive
  BY DEF IInv, BusyOK
<1> QED
  BY <1>1, Inductive, PTL

=============================================================================
