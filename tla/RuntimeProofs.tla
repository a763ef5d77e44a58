---------------------------- MODULE RuntimeProofs ----------------------------
(***************************************************************************)
(* Proofs about Runtime, for any actors, processes, restarts and failed    *)
(* writes and spawns: a manager that is started once keeps the handle of   *)
(* every process it started that still lives, and leaves none of them when *)
(* it is stopped.                                                          *)
(***************************************************************************)
EXTENDS Runtime, TLAPS, SequenceTheorems

-----------------------------------------------------------------------------
(* The inductive invariant *)

\* In incarnation e an actor whose processes are s has the handle h, which is
\* of a process of this incarnation: of the one that lives, if one does.
Tracks(h, s, e) ==
    /\ h # 0 => h \in DOMAIN s /\ s[h].era = e
    /\ \A n \in DOMAIN s :
        /\ s[n].era <= e
        /\ (s[n].era = e /\ s[n].alive) => s[n].wait = "waiting" /\ h = n

\* A goroutine that will still forget its process forgets this handle.
WaitsFor(h, s, e) ==
    \A n \in DOMAIN s : (s[n].era = e /\ s[n].wait \in {"waiting", "returned"}) => h = n

\* Nothing was started in incarnation e.
NoneOf(s, e) == \A n \in DOMAIN s : s[n].era # e

Handles ==
    /\ \A a \in Actors : Tracks(processes[a], procs[a], era)
    /\ starts = 0 => ~running /\ \A a \in Actors : NoneOf(procs[a], era)
    /\ (running /\ MutexFree) => \A a \in Actors : WaitsFor(processes[a], procs[a], era)
    /\ (~running /\ MutexFree) => \A a \in Actors : processes[a] = 0

IInv == TypeOK /\ Handles

-----------------------------------------------------------------------------
(* Lemmas *)

LEMMA Domains ==
    ASSUME TypeOK, NEW a \in Actors
    PROVE  /\ procs[a] \in Seq(Process) /\ Len(procs[a]) \in Nat
           /\ DOMAIN procs[a] = 1..Len(procs[a])
           /\ processes[a] \in 0..Len(procs[a])
           /\ \A n \in DOMAIN procs[a] : procs[a][n] \in Process
  BY LenProperties, ElementOfSeq DEF TypeOK

NewProcess == [era |-> era, alive |-> TRUE, wait |-> "waiting"]

Fresh(S) == {a \in S : processes[a] = 0}

\* What StartDaemons does to one actor.
LEMMA Daemons ==
    ASSUME TypeOK, NEW S \in SUBSET Actors, StartDaemons(S)
    PROVE  /\ NewProcess \in Process
           /\ procs' \in [Actors -> Seq(Process)]
           /\ processes' \in [Actors -> Nat]
           /\ \A a \in Actors : processes'[a] \in 0..Len(procs'[a])
           /\ \A a \in Actors :
                \/ procs'[a] = procs[a] /\ processes'[a] = processes[a]
                \/ /\ processes[a] = 0
                   /\ procs'[a] = Append(procs[a], NewProcess)
                   /\ processes'[a] = Len(procs[a]) + 1
<1>0. NewProcess \in Process
  BY DEF TypeOK, NewProcess, Process
<1>1. /\ procs' = [a \in Actors |-> IF a \in Fresh(S) THEN Append(procs[a], NewProcess) ELSE procs[a]]
      /\ processes' = [a \in Actors |-> IF a \in Fresh(S) THEN Len(procs[a]) + 1 ELSE processes[a]]
  BY DEF StartDaemons, Fresh, NewProcess
<1>2. ASSUME NEW a \in Fresh(S)
      PROVE  /\ procs'[a] \in Seq(Process)
             /\ processes[a] = 0
             /\ procs'[a] = Append(procs[a], NewProcess)
             /\ processes'[a] = Len(procs[a]) + 1
             /\ Len(procs'[a]) = Len(procs[a]) + 1
  <2>1. /\ a \in Actors /\ processes[a] = 0
        /\ procs'[a] = Append(procs[a], NewProcess) /\ processes'[a] = Len(procs[a]) + 1
    BY <1>1 DEF Fresh
  <2> QED
    BY <1>0, <2>1, Domains, AppendProperties
<1>3. ASSUME NEW a \in Actors, a \notin Fresh(S)
      PROVE  procs'[a] = procs[a] /\ processes'[a] = processes[a]
  BY <1>1, <1>3
<1>4. ASSUME NEW a \in Actors
      PROVE  procs'[a] \in Seq(Process) /\ processes'[a] \in Nat /\ processes'[a] \in 0..Len(procs'[a])
  BY <1>2, <1>3, Domains
<1>5. /\ procs' = [a \in Actors |-> procs'[a]]
      /\ processes' = [a \in Actors |-> processes'[a]]
  BY <1>1
<1> QED
  BY <1>0, <1>2, <1>3, <1>4, <1>5

\* The process n of actor a is now p: neither another one nor a sequence's
\* length changes.
LEMMA OneProcess ==
    ASSUME TypeOK, NEW a \in Actors, NEW n \in DOMAIN procs[a], NEW p \in Process,
           procs' = [procs EXCEPT ![a] = [procs[a] EXCEPT ![n] = p]]
    PROVE  /\ procs' \in [Actors -> Seq(Process)]
           /\ \A b \in Actors : /\ Len(procs'[b]) = Len(procs[b])
                                /\ DOMAIN procs'[b] = DOMAIN procs[b]
           /\ \A b \in Actors : \A m \in DOMAIN procs[b] :
                procs'[b][m] = IF b = a /\ m = n THEN p ELSE procs[b][m]
<1> PICK q : q = [procs[a] EXCEPT ![n] = p]
  OBVIOUS
<1>1. /\ q \in Seq(Process) /\ Len(q) = Len(procs[a]) /\ DOMAIN q = DOMAIN procs[a]
      /\ \A m \in DOMAIN procs[a] : q[m] = IF m = n THEN p ELSE procs[a][m]
  BY Domains, ExceptSeq, LenProperties
<1>2. \A b \in Actors : procs'[b] = IF b = a THEN q ELSE procs[b]
  BY DEF TypeOK
<1>3. procs' \in [Actors -> Seq(Process)]
  BY <1>1 DEF TypeOK
<1> QED
  BY <1>1, <1>2, <1>3

-----------------------------------------------------------------------------
(* Types *)

LEMMA SaveTypes ==
    ASSUME TypeOK, NEW a \in Actors, SaveSpec(a)
    PROVE  /\ specs' \subseteq Actors /\ files' \in [Actors -> {"none", "ok", "broken"}]
           /\ procs' \in [Actors -> Seq(Process)] /\ processes' \in [Actors -> Nat]
           /\ \A b \in Actors : processes'[b] \in 0..Len(procs'[b])
           /\ faults' \in 0..MaxFaults
<1>1. specs' \subseteq Actors /\ files' \in [Actors -> {"none", "ok", "broken"}]
  BY DEF SaveSpec, TypeOK
<1>2. faults' \in 0..MaxFaults
  BY RuntimeAssumption DEF SaveSpec, TypeOK, MayFail
<1>3. StartDaemons({a}) \/ UNCHANGED <<procs, processes>>
  BY DEF SaveSpec
<1> QED
  BY <1>1, <1>2, <1>3, Daemons DEF TypeOK

LEMMA StartTypes ==
    ASSUME TypeOK, Start
    PROVE  TypeOK'
<1>1. /\ starts' \in 0..MaxStarts /\ era' = era /\ registered' = registered /\ files' = files
      /\ interrupted' = interrupted
  BY RuntimeAssumption DEF Start, TypeOK
<1>2. CASE \E a \in Actors : files[a] = "broken"
  BY <1>1, <1>2 DEF Start, TypeOK, StopWaits
<1>3. CASE ~\E a \in Actors : files[a] = "broken"
  <2>1. specs' \subseteq Actors /\ running' = TRUE
    BY <1>3 DEF Start, TypeOK
  <2>2. PICK S \in SUBSET specs' : StartDaemons(S)
    BY <1>3 DEF Start
  <2>3. stopping' \in {stopping, Looping} /\ faults' \in 0..MaxFaults
    BY <1>3, RuntimeAssumption DEF Start, TypeOK, MayFail
  <2>4. /\ procs' \in [Actors -> Seq(Process)] /\ processes' \in [Actors -> Nat]
        /\ \A b \in Actors : processes'[b] \in 0..Len(procs'[b])
    BY <2>1, <2>2, Daemons
  <2> QED
    BY <1>1, <2>1, <2>3, <2>4 DEF TypeOK, StopWaits
<1> QED
  BY <1>2, <1>3

LEMMA TypesKeep == TypeOK /\ [Next]_vars => TypeOK'
<1> SUFFICES ASSUME TypeOK, [Next]_vars PROVE TypeOK'
  OBVIOUS
<1>1. ASSUME NEW a \in Actors, Register(a) PROVE TypeOK'
  BY <1>1, SaveTypes DEF Register, TypeOK, StopWaits
<1>2. ASSUME NEW a \in Actors, RegisterSpec(a) PROVE TypeOK'
  BY <1>2, SaveTypes DEF RegisterSpec, TypeOK, StopWaits
<1>3. ASSUME NEW a \in Actors, StopHandle(a) PROVE TypeOK'
  <2>1. stopping' \in {stopping, StopWaits(a)}
    BY <1>3 DEF StopHandle
  <2>2. processes' \in {processes, [processes EXCEPT ![a] = 0]}
    BY <1>3 DEF StopHandle
  <2>3. \A b \in Actors : Len(procs[b]) \in Nat
    BY Domains
  <2>4. processes' \in [Actors -> Nat] /\ \A b \in Actors : processes'[b] \in 0..Len(procs[b])
    BY <2>2, <2>3 DEF TypeOK
  <2> QED
    BY <1>3, <2>1, <2>4 DEF StopHandle, TypeOK, StopWaits
<1>4. ASSUME NEW a \in Actors, StopReaps(a) PROVE TypeOK'
  <2> PICK n : n = processes[a]
    OBVIOUS
  <2> PICK p : p = [procs[a][n] EXCEPT !.wait = "stuck"]
    OBVIOUS
  <2>1. procs' = [procs EXCEPT ![a] = [procs[a] EXCEPT ![n] = p]]
    BY <1>4 DEF StopReaps
  <2>2. procs' \in [Actors -> Seq(Process)] /\ \A b \in Actors : Len(procs'[b]) = Len(procs[b])
    <3>1. CASE n \in DOMAIN procs[a]
      <4>1. procs[a][n] \in Process
        BY <3>1, Domains
      <4>2. p \in Process
        BY <4>1 DEF Process
      <4> QED
        BY <2>1, <3>1, <4>2, OneProcess
    <3>2. CASE n \notin DOMAIN procs[a]
      <4>1. [procs[a] EXCEPT ![n] = p] = procs[a]
        BY <3>2, Domains
      <4>2. procs' = procs
        BY <2>1, <4>1 DEF TypeOK
      <4> QED
        BY <4>2 DEF TypeOK
    <3> QED
      BY <3>1, <3>2
  <2>3. processes' \in [Actors -> Nat] /\ \A b \in Actors : processes'[b] \in 0..Len(procs[b])
    <3>1. \A b \in Actors : Len(procs[b]) \in Nat
      BY Domains
    <3> QED
      BY <1>4, <3>1 DEF StopReaps, TypeOK
  <2> QED
    BY <1>4, <2>2, <2>3 DEF StopReaps, TypeOK, StopWaits
<1>5. ASSUME NEW a \in Actors, NEW n \in DOMAIN procs[a], NEW p \in Process,
             procs' = [procs EXCEPT ![a] = [procs[a] EXCEPT ![n] = p]],
             processes' \in {processes, [processes EXCEPT ![a] = 0]},
             UNCHANGED <<era, registered, specs, files, running, interrupted, stopping, starts, faults>>
      PROVE  TypeOK'
  <2>1. procs' \in [Actors -> Seq(Process)] /\ \A b \in Actors : Len(procs'[b]) = Len(procs[b])
    BY <1>5, OneProcess
  <2>2. \A b \in Actors : Len(procs[b]) \in Nat
    BY Domains
  <2>3. processes' \in [Actors -> Nat] /\ \A b \in Actors : processes'[b] \in 0..Len(procs[b])
    BY <1>5, <2>2 DEF TypeOK
  <2> QED
    BY <1>5, <2>1, <2>3 DEF TypeOK, StopWaits
<1>6. ASSUME NEW a \in Actors, NEW n \in DOMAIN procs[a], WaitReturns(a, n) \/ Forget(a, n) \/ Exit(a, n)
      PROVE  TypeOK'
  <2>1. procs[a][n] \in Process
    BY Domains
  <2>2. CASE WaitReturns(a, n)
    <3> PICK p : p = [procs[a][n] EXCEPT !.wait = "returned"]
      OBVIOUS
    <3>1. p \in Process
      BY <2>1 DEF Process
    <3> QED
      BY <2>2, <3>1, <1>5 DEF WaitReturns
  <2>3. CASE Forget(a, n)
    <3> PICK p : p = [procs[a][n] EXCEPT !.wait = "done"]
      OBVIOUS
    <3>1. p \in Process
      BY <2>1 DEF Process
    <3> QED
      BY <2>3, <3>1, <1>5 DEF Forget
  <2>4. CASE Exit(a, n)
    <3> PICK p : p = [procs[a][n] EXCEPT !.alive = FALSE]
      OBVIOUS
    <3>1. p \in Process
      BY <2>1 DEF Process
    <3> QED
      BY <2>4, <3>1, <1>5 DEF Exit
  <2> QED
    BY <1>6, <2>2, <2>3, <2>4
<1>7. CASE Start
  BY <1>7, StartTypes
<1>8. CASE Stop \/ StopReturns \/ Interrupt \/ UNCHANGED vars
  BY <1>8 DEF Stop, StopReturns, Interrupt, vars, TypeOK, StopWaits
<1>9. CASE Restart
  <2>1. \A b \in Actors : Len(procs[b]) \in Nat
    BY Domains
  <2>2. /\ processes' \in [Actors -> Nat]
        /\ \A b \in Actors : processes'[b] \in 0..Len(procs'[b])
    BY <1>9, <2>1 DEF Restart
  <2>3. era' \in 0..MaxRestarts /\ starts' \in 0..MaxStarts /\ faults' \in 0..MaxFaults
    BY <1>9, RuntimeAssumption DEF Restart, TypeOK
  <2> QED
    BY <1>9, <2>2, <2>3 DEF Restart, TypeOK
<1> QED
  BY <1>1, <1>2, <1>3, <1>4, <1>6, <1>7, <1>8, <1>9 DEF Next

LEMMA InitTypes == Init => TypeOK
<1> SUFFICES ASSUME Init PROVE TypeOK
  OBVIOUS
<1>1. procs \in [Actors -> Seq(Process)] /\ \A a \in Actors : Len(procs[a]) = 0
  BY EmptySeq DEF Init
<1>2. processes \in [Actors -> Nat] /\ \A a \in Actors : processes[a] \in 0..Len(procs[a])
  BY <1>1 DEF Init
<1>3. era \in 0..MaxRestarts /\ starts \in 0..MaxStarts /\ faults \in 0..MaxFaults
  BY RuntimeAssumption DEF Init
<1> QED
  BY <1>1, <1>2, <1>3 DEF Init, TypeOK

\* No order of registrations, process ends, stops and restarts makes the
\* manager hold a handle of a process that was never started, or wait for it.
THEOREM TypeCorrect == Spec => []TypeOK
<1> QED
  BY InitTypes, TypesKeep, PTL DEF Spec

-----------------------------------------------------------------------------
(* Handles *)

LEMMA TracksNew ==
    ASSUME NEW s \in Seq(Process), NEW e \in Nat, NEW p \in Process,
           p.era = e, p.wait = "waiting", Tracks(0, s, e), WaitsFor(0, s, e)
    PROVE  /\ Tracks(Len(s) + 1, Append(s, p), e)
           /\ WaitsFor(Len(s) + 1, Append(s, p), e)
<1> PICK t : t = Append(s, p)
  OBVIOUS
<1> PICK k : k = Len(s) + 1
  OBVIOUS
<1>1. /\ DOMAIN s = 1..Len(s) /\ DOMAIN t = 1..k /\ k \in Nat /\ k > 0 /\ t[k] = p
      /\ \A n \in 1..Len(s) : t[n] = s[n]
      /\ \A n \in 1..k : n = k \/ n \in 1..Len(s)
  BY AppendProperties, LenProperties
<1>2. \A n \in 1..Len(s) : /\ t[n].era <= e
                           /\ ~(t[n].era = e /\ t[n].alive)
                           /\ ~(t[n].era = e /\ t[n].wait \in {"waiting", "returned"})
  BY <1>1 DEF Tracks, WaitsFor
<1>3. Tracks(k, t, e)
  BY <1>1, <1>2 DEF Tracks
<1>4. WaitsFor(k, t, e)
  BY <1>1, <1>2 DEF WaitsFor
<1> QED
  BY <1>3, <1>4

\* A process that ends, is waited for or is forgotten.
LEMMA TracksChanged ==
    ASSUME NEW s \in Seq(Process), NEW e \in Nat, NEW h \in Nat,
           NEW n \in DOMAIN s, NEW p \in Process, p.era = s[n].era,
           (p.era = e /\ p.alive) => s[n].alive /\ p.wait = s[n].wait,
           Tracks(h, s, e)
    PROVE  /\ Tracks(h, [s EXCEPT ![n] = p], e)
           /\ NoneOf(s, e) => NoneOf([s EXCEPT ![n] = p], e)
           /\ (WaitsFor(h, s, e) /\ (p.wait \in {"waiting", "returned"} =>
                                       s[n].wait \in {"waiting", "returned"})) =>
                 WaitsFor(h, [s EXCEPT ![n] = p], e)
<1> PICK t : t = [s EXCEPT ![n] = p]
  OBVIOUS
<1>1. DOMAIN t = DOMAIN s /\ \A m \in DOMAIN s : t[m] = IF m = n THEN p ELSE s[m]
  OBVIOUS
<1>2. Tracks(h, t, e)
  BY <1>1 DEF Tracks
<1>3. NoneOf(s, e) => NoneOf(t, e)
  BY <1>1 DEF NoneOf
<1>4. (WaitsFor(h, s, e) /\ (p.wait \in {"waiting", "returned"} =>
                               s[n].wait \in {"waiting", "returned"})) => WaitsFor(h, t, e)
  BY <1>1 DEF WaitsFor
<1> QED
  BY <1>2, <1>3, <1>4

\* A handle that is dropped although a process lives would be missed.
LEMMA TracksDropped ==
    ASSUME NEW s \in Seq(Process), NEW e \in Nat, NEW h \in Nat, Tracks(h, s, e),
           h \in DOMAIN s => ~s[h].alive
    PROVE  Tracks(0, s, e)
  BY DEF Tracks

\* Nothing but the phase of a Stop, the flag and the number of starts changes.
LEMMA HandlesLast ==
    ASSUME Handles, UNCHANGED <<era, procs, processes>>,
           starts' = 0 => starts = 0 /\ (running' => running),
           (running' /\ MutexFree') => (running /\ MutexFree),
           (~running' /\ MutexFree') => (~running /\ MutexFree) \/ \A a \in Actors : processes[a] = 0
    PROVE  Handles'
  BY DEF Handles, Tracks, WaitsFor, NoneOf

\* A running manager starts processes, for actors whose handle is gone.
LEMMA DaemonsKeep ==
    ASSUME TypeOK, Handles, NEW S \in SUBSET Actors, StartDaemons(S),
           era' = era, running', starts' # 0, MutexFree, running \/ starts = 0
    PROVE  Handles'
<1> PICK e : e = era
  OBVIOUS
<1>1. e \in Nat
  BY RuntimeAssumption DEF TypeOK
<1>2. \A a \in Actors : Tracks(processes[a], procs[a], e) /\ WaitsFor(processes[a], procs[a], e)
  BY DEF Handles, NoneOf, WaitsFor
<1>3. ASSUME NEW a \in Actors, NEW h, NEW s, h = processes'[a], s = procs'[a]
      PROVE  Tracks(h, s, e) /\ WaitsFor(h, s, e)
  <2>1. CASE procs'[a] = procs[a] /\ processes'[a] = processes[a]
    BY <1>2, <1>3, <2>1
  <2>2. CASE /\ processes[a] = 0
             /\ procs'[a] = Append(procs[a], NewProcess)
             /\ processes'[a] = Len(procs[a]) + 1
    <3>1. NewProcess \in Process /\ NewProcess.era = e /\ NewProcess.wait = "waiting"
      BY Daemons DEF NewProcess
    <3>2. procs[a] \in Seq(Process) /\ Tracks(0, procs[a], e) /\ WaitsFor(0, procs[a], e)
      BY <1>2, <2>2, Domains
    <3> QED
      BY <1>1, <1>3, <2>2, <3>1, <3>2, TracksNew
  <2> QED
    BY <2>1, <2>2, Daemons
<1>4. ASSUME NEW a \in Actors PROVE (Tracks(processes[a], procs[a], era) /\ WaitsFor(processes[a], procs[a], era))'
  BY <1>3 DEF Tracks, WaitsFor
<1> QED
  BY <1>4 DEF Handles

\* One actor's processes and handle change.
LEMMA OneKeeps ==
    ASSUME TypeOK, Handles, NEW a \in Actors, NEW s, NEW h,
           procs' = [procs EXCEPT ![a] = s], processes' = [processes EXCEPT ![a] = h],
           UNCHANGED <<era, running, starts>>, MutexFree' => MutexFree,
           Tracks(h, s, era), NoneOf(procs[a], era) => NoneOf(s, era),
           (MutexFree' /\ WaitsFor(processes[a], procs[a], era)) => WaitsFor(h, s, era),
           (MutexFree' /\ processes[a] = 0) => h = 0
    PROVE  Handles'
<1>1. \A b \in Actors : /\ procs'[b] = IF b = a THEN s ELSE procs[b]
                        /\ processes'[b] = IF b = a THEN h ELSE processes[b]
  BY DEF TypeOK
<1>2. ASSUME NEW b \in Actors
      PROVE  /\ (Tracks(processes[b], procs[b], era))'
             /\ starts' = 0 => (NoneOf(procs[b], era))'
             /\ running' /\ MutexFree' => (WaitsFor(processes[b], procs[b], era))'
             /\ ~running' /\ MutexFree' => processes'[b] = 0
  <2>1. CASE b = a
    <3>1. procs'[b] = s /\ processes'[b] = h
      BY <1>1, <2>1
    <3>2. /\ Tracks(h, s, era)
          /\ starts = 0 => NoneOf(s, era)
          /\ running /\ MutexFree' => WaitsFor(h, s, era)
          /\ ~running /\ MutexFree' => h = 0
      BY DEF Handles
    <3> QED
      BY <3>1, <3>2 DEF Tracks, NoneOf, WaitsFor
  <2>2. CASE b # a
    <3>1. procs'[b] = procs[b] /\ processes'[b] = processes[b]
      BY <1>1, <2>2
    <3>2. /\ Tracks(processes[b], procs[b], era)
          /\ starts = 0 => NoneOf(procs[b], era)
          /\ running /\ MutexFree' => WaitsFor(processes[b], procs[b], era)
          /\ ~running /\ MutexFree' => processes[b] = 0
      BY DEF Handles
    <3> QED
      BY <3>1, <3>2 DEF Tracks, NoneOf, WaitsFor
  <2> QED
    BY <2>1, <2>2
<1>3. starts' = 0 => ~running'
  BY DEF Handles
<1> QED
  BY <1>2, <1>3 DEF Handles

LEMMA StartKeeps ==
    ASSUME TypeOK, Handles, MaxStarts <= 1, Start
    PROVE  Handles'
<1>1. starts = 0 /\ starts' # 0 /\ era' = era /\ MutexFree /\ ~running
  BY RuntimeAssumption DEF Start, TypeOK
<1>2. CASE \E a \in Actors : files[a] = "broken"
  BY <1>1, <1>2, HandlesLast DEF Start, MutexFree
<1>3. CASE ~\E a \in Actors : files[a] = "broken"
  <2>1. specs' \subseteq Actors /\ running'
    BY <1>3 DEF Start, TypeOK
  <2>2. PICK S \in SUBSET specs' : StartDaemons(S)
    BY <1>3 DEF Start
  <2> QED
    BY <1>1, <2>1, <2>2, DaemonsKeep
<1> QED
  BY <1>2, <1>3

LEMMA HandlesKeep ==
    ASSUME TypeOK, Handles, MaxStarts <= 1, [Next]_vars
    PROVE  Handles'
<1>a. era \in Nat /\ \A a \in Actors : processes[a] \in Nat /\ Tracks(processes[a], procs[a], era)
  BY RuntimeAssumption DEF TypeOK, Handles
<1>1. ASSUME NEW a \in Actors, Register(a) \/ RegisterSpec(a) PROVE Handles'
  <2>1. SaveSpec(a) /\ MutexFree /\ UNCHANGED <<era, running, stopping, starts>>
    BY <1>1 DEF Register, RegisterSpec
  <2>2. CASE running /\ StartDaemons({a})
    <3>1. starts' # 0
      BY <2>1, <2>2 DEF Handles
    <3> QED
      BY <2>1, <2>2, <3>1, DaemonsKeep
  <2>3. CASE UNCHANGED <<procs, processes>>
    BY <2>1, <2>3, HandlesLast DEF MutexFree
  <2> QED
    BY <2>1, <2>2, <2>3 DEF SaveSpec
<1>2. ASSUME NEW a \in Actors, StopHandle(a) PROVE Handles'
  <2>1. CASE procs[a][processes[a]].wait = "waiting"
    BY <1>2, <2>1, HandlesLast DEF StopHandle, MutexFree, StopWaits
  <2>2. CASE procs[a][processes[a]].wait # "waiting"
    <3>1. procs' = [procs EXCEPT ![a] = procs[a]] /\ ~MutexFree'
      BY <1>2, <2>2 DEF StopHandle, MutexFree, TypeOK
    <3>2. Tracks(0, procs[a], era)
      BY <1>a, <2>2 DEF Tracks
    <3> QED
      BY <1>2, <2>2, <3>1, <3>2, OneKeeps DEF StopHandle
  <2> QED
    BY <2>1, <2>2
<1>3. ASSUME NEW a \in Actors, StopReaps(a) PROVE Handles'
  <2> PICK n : n = processes[a]
    OBVIOUS
  <2> PICK p : p = [procs[a][n] EXCEPT !.wait = "stuck"]
    OBVIOUS
  <2> PICK s : s = [procs[a] EXCEPT ![n] = p]
    OBVIOUS
  <2>1. /\ procs' = [procs EXCEPT ![a] = s] /\ processes' = [processes EXCEPT ![a] = 0]
        /\ ~procs[a][n].alive /\ ~MutexFree'
    BY <1>3 DEF StopReaps, MutexFree, Looping
  <2>2. DOMAIN s = DOMAIN procs[a] /\ \A m \in DOMAIN s : s[m] = IF m = n THEN p ELSE procs[a][m]
    BY Domains
  <2>3. n \in DOMAIN procs[a] => p.era = procs[a][n].era /\ ~p.alive
    BY <2>1, Domains DEF Process
  <2>4. Tracks(0, s, era) /\ (NoneOf(procs[a], era) => NoneOf(s, era))
    BY <1>a, <2>1, <2>2, <2>3 DEF Tracks, NoneOf
  <2> QED
    BY <1>3, <2>1, <2>4, OneKeeps DEF StopReaps
<1>4. ASSUME NEW a \in Actors, NEW n \in DOMAIN procs[a], WaitReturns(a, n) \/ Exit(a, n)
      PROVE  Handles'
  <2> PICK p : p = IF WaitReturns(a, n) THEN [procs[a][n] EXCEPT !.wait = "returned"]
                                        ELSE [procs[a][n] EXCEPT !.alive = FALSE]
    OBVIOUS
  <2> PICK s : s = [procs[a] EXCEPT ![n] = p]
    OBVIOUS
  <2>1. procs[a][n] \in Process /\ procs[a] \in Seq(Process)
    BY Domains
  <2>2. /\ p \in Process /\ p.era = procs[a][n].era /\ ~p.alive
        /\ p.wait \in {"waiting", "returned"} => procs[a][n].wait \in {"waiting", "returned"}
    BY <1>4, <2>1 DEF Process, WaitReturns
  <2>3. /\ procs' = [procs EXCEPT ![a] = s]
        /\ UNCHANGED <<era, running, starts, processes, stopping>>
    BY <1>4 DEF WaitReturns, Exit
  <2>4. processes' = [processes EXCEPT ![a] = processes[a]]
    BY <2>3 DEF TypeOK
  <2>5. /\ Tracks(processes[a], s, era)
        /\ NoneOf(procs[a], era) => NoneOf(s, era)
        /\ WaitsFor(processes[a], procs[a], era) => WaitsFor(processes[a], s, era)
    BY <1>a, <2>1, <2>2, TracksChanged
  <2> QED
    BY <2>3, <2>4, <2>5, OneKeeps DEF MutexFree
<1>5. ASSUME NEW a \in Actors, NEW n \in DOMAIN procs[a], Forget(a, n) PROVE Handles'
  <2> PICK p : p = [procs[a][n] EXCEPT !.wait = "done"]
    OBVIOUS
  <2> PICK s : s = [procs[a] EXCEPT ![n] = p]
    OBVIOUS
  <2>1. /\ procs' = [procs EXCEPT ![a] = s] /\ processes' = [processes EXCEPT ![a] = 0]
        /\ procs[a][n].era = era /\ procs[a][n].wait = "returned" /\ MutexFree
        /\ UNCHANGED <<era, running, starts, stopping>>
    BY <1>5 DEF Forget, Of
  <2>2. procs[a][n] \in Process /\ ~procs[a][n].alive
    BY <1>a, <2>1, Domains DEF Tracks
  <2>3. p.era = era /\ ~p.alive /\ p.wait = "done"
    BY <2>1, <2>2 DEF Process
  <2>4. DOMAIN s = DOMAIN procs[a] /\ \A m \in DOMAIN s : s[m] = IF m = n THEN p ELSE procs[a][m]
    OBVIOUS
  <2>5. processes[a] \in {0, n}
    BY <2>1 DEF Handles, WaitsFor
  <2>6. Tracks(0, s, era) /\ (NoneOf(procs[a], era) => NoneOf(s, era))
    BY <1>a, <2>2, <2>3, <2>4, <2>5 DEF Tracks, NoneOf
  <2>7. WaitsFor(processes[a], procs[a], era) => WaitsFor(0, s, era)
    BY <2>1, <2>3, <2>4 DEF WaitsFor
  <2> QED
    BY <2>1, <2>6, <2>7, OneKeeps DEF MutexFree
<1>6. CASE Start
  BY <1>6, StartKeeps
<1>7. CASE Stop
  BY <1>7, HandlesLast DEF Stop, MutexFree, Looping
<1>8. CASE StopReturns
  BY <1>8, HandlesLast DEF StopReturns, MutexFree
<1>9. CASE Interrupt \/ UNCHANGED vars
  BY <1>9, HandlesLast DEF Interrupt, vars, MutexFree
<1>10. CASE Restart
  <2>1. \A a \in Actors : \A n \in DOMAIN procs[a] : procs[a][n].era \in Nat /\ procs[a][n].era <= era
    BY <1>a, Domains DEF Tracks, Process
  <2>2. ASSUME NEW a \in Actors PROVE (Tracks(0, procs[a], era) /\ NoneOf(procs[a], era))'
    BY <1>10, <1>a, <2>1 DEF Restart, Tracks, NoneOf
  <2>3. \A a \in Actors : processes'[a] = 0
    BY <1>10 DEF Restart
  <2>4. \A a \in Actors : (Tracks(processes[a], procs[a], era))'
    BY <2>2, <2>3 DEF Tracks
  <2> QED
    BY <1>10, <2>2, <2>3, <2>4 DEF Restart, Handles
<1> QED
  BY <1>1, <1>2, <1>3, <1>4, <1>5, <1>6, <1>7, <1>8, <1>9, <1>10 DEF Next

-----------------------------------------------------------------------------
(* Theorems about a manager that is started once *)

\* The invariant is inductive.
THEOREM Inductive ==
    ASSUME MaxStarts <= 1
    PROVE  Spec => []IInv
<1>1. Init => IInv
  <2> SUFFICES ASSUME Init PROVE IInv
    OBVIOUS
  <2>1. TypeOK
    BY InitTypes
  <2>2. \A a \in Actors : DOMAIN procs[a] = {} /\ processes[a] = 0
    BY DEF Init
  <2>3. Handles
    BY <2>2 DEF Init, Handles, Tracks, WaitsFor, NoneOf
  <2> QED
    BY <2>1, <2>3 DEF IInv
<1>2. IInv /\ [Next]_vars => IInv'
  BY TypesKeep, HandlesKeep DEF IInv
<1> QED
  BY <1>1, <1>2, PTL DEF Spec

\* However the ends of processes are noticed, and whatever fails to start, the
\* manager has the handle of each of its processes that lives.
THEOREM LivingAreTracked ==
    ASSUME MaxStarts <= 1
    PROVE  Spec => []LiveIsTracked
<1>1. IInv => LiveIsTracked
  BY DEF IInv, Handles, Tracks, LiveIsTracked, Of
<1> QED
  BY <1>1, Inductive, PTL

\* When the manager is not running, and nobody is stopping it, it has left no
\* process behind.
THEOREM NoneLeftWhenStopped ==
    ASSUME MaxStarts <= 1
    PROVE  Spec => []StoppedLeavesNone
<1>1. IInv => StoppedLeavesNone
  <2> SUFFICES ASSUME IInv, ~running, MutexFree, NEW a \in Actors, NEW n \in DOMAIN procs[a],
                      Of(a, n), procs[a][n].alive
               PROVE  FALSE
    BY DEF StoppedLeavesNone
  <2>1. processes[a] = 0 /\ processes[a] = n
    BY DEF IInv, Handles, Tracks, Of
  <2>2. n >= 1
    BY Domains DEF IInv
  <2> QED
    BY <2>1, <2>2
<1> QED
  BY <1>1, Inductive, PTL

=============================================================================
