---------------------------- MODULE LedgerProofs ----------------------------
(***************************************************************************)
(* Proofs about Ledger, for any number of processes, proposals, voters,    *)
(* requirements and faults; and, for one process that meets no error, that *)
(* Ledger implements LedgerLog.                                            *)
(***************************************************************************)
EXTENDS LedgerOneWriter, TLAPS, FiniteSetTheorems, SequenceTheorems

-----------------------------------------------------------------------------
(* Votes *)

DistinctVoters(votes) ==
    \A j, k \in DOMAIN votes : votes[j].voter = votes[k].voter => j = k

\* The count buildQuorumState makes is a natural number.
LEMMA ApprovalsType ==
    ASSUME NEW votes \in Seq(ConsensusVote)
    PROVE  /\ Approvals(votes) \in Nat
           /\ IsFiniteSet({k \in DOMAIN votes : votes[k].approved})
<1> DEFINE A == {k \in DOMAIN votes : votes[k].approved}
<1>1. IsFiniteSet(1 .. Len(votes))
  BY LenProperties, FS_Interval
<1>2. A \in SUBSET (1 .. Len(votes))
  BY LenProperties
<1>3. IsFiniteSet(A)
  BY <1>1, <1>2, FS_Subset
<1> QED
  BY <1>3, FS_CardinalityType DEF Approvals

\* With one vote per voter, counting votes counts voters.
LEMMA ApprovalsAreApprovers ==
    ASSUME NEW votes \in Seq(ConsensusVote), DistinctVoters(votes)
    PROVE  Cardinality(Approvers(votes)) = Approvals(votes)
<1> DEFINE A == {k \in DOMAIN votes : votes[k].approved}
           f == [k \in A |-> votes[k].voter]
<1>1. IsFiniteSet(A)
  BY ApprovalsType
<1>2. f \in Surjection(A, Approvers(votes))
  BY DEF Surjection, Approvers
<1>3. f \in Injection(A, Approvers(votes))
  <2>1. f \in [A -> Approvers(votes)]
    BY DEF Approvers
  <2>2. ASSUME NEW j \in A, NEW k \in A, f[j] = f[k]
        PROVE  j = k
    BY <2>2 DEF DistinctVoters
  <2> QED
    BY <2>1, <2>2 DEF Injection, IsInjective
<1>4. Cardinality(Approvers(votes)) = Cardinality(A)
  BY <1>1, <1>2, <1>3, FS_Surjection
<1> QED
  BY <1>4 DEF Approvals

\* A vote that passes the duplicate check keeps the voters distinct.
LEMMA NewVoteIsDistinct ==
    ASSUME NEW e \in Proposal, DistinctVoters(e.votes),
           NEW v \in Voters, NEW approved \in BOOLEAN, ~HasVoted(e, v)
    PROVE  LET votes == Append(e.votes, [voter |-> v, approved |-> approved])
           IN  votes \in Seq(ConsensusVote) /\ DistinctVoters(votes)
<1> DEFINE vote == [voter |-> v, approved |-> approved]
           votes == Append(e.votes, vote)
<1>1. e.votes \in Seq(ConsensusVote) /\ vote \in ConsensusVote
  BY DEF Proposal, ConsensusVote
<1>2. /\ votes \in Seq(ConsensusVote)
      /\ Len(votes) = Len(e.votes) + 1
      /\ \A k \in 1 .. Len(e.votes) : votes[k] = e.votes[k]
      /\ votes[Len(e.votes) + 1] = vote
  BY <1>1, AppendProperties
<1>3. /\ DOMAIN votes = 1 .. Len(votes)
      /\ DOMAIN e.votes = 1 .. Len(e.votes)
      /\ Len(e.votes) \in Nat
  BY <1>1, <1>2, LenProperties
<1>4. ASSUME NEW j \in DOMAIN votes, NEW k \in DOMAIN votes,
             votes[j].voter = votes[k].voter
      PROVE  j = k
  <2>1. CASE j \in DOMAIN e.votes /\ k \in DOMAIN e.votes
    BY <1>2, <1>3, <1>4, <2>1 DEF DistinctVoters
  <2>2. CASE j \in DOMAIN e.votes /\ k = Len(e.votes) + 1
    BY <1>2, <1>3, <1>4, <2>2 DEF HasVoted
  <2>3. CASE k \in DOMAIN e.votes /\ j = Len(e.votes) + 1
    BY <1>2, <1>3, <1>4, <2>3 DEF HasVoted
  <2>4. CASE j = Len(e.votes) + 1 /\ k = Len(e.votes) + 1
    BY <2>4
  <2> QED
    BY <1>2, <1>3, <2>1, <2>2, <2>3, <2>4
<1> QED
  BY <1>2, <1>4 DEF DistinctVoters

-----------------------------------------------------------------------------
(* The inductive invariant *)

\* A proposal on file has one vote per voter and, if Vote decides it, is not
\* decidable.
FileOK(e) ==
    /\ DistinctVoters(e.votes)
    /\ (e.req.auto /\ e.votes # << >>) => ~Finalizable(e)

\* A line that says "finalized" under a quorum requirement is backed by it.
Backed(line) ==
    (line.status = "finalized" /\ line.req.strategy = "quorum")
        => QuorumReached(line)

\* QuorumBacked speaks of the lines already written; a line reaches the file
\* through op[p].entry, and the votes it carries come from pending.json, which
\* another process may have written from its own op[p].rest.
IInv ==
    /\ TypeOK
    /\ \A k \in DOMAIN entries : Backed(entries[k])
    /\ \A e \in pending : FileOK(e)
    /\ \A p \in Procs : Backed(op[p].entry)
    /\ \A p \in Procs : \A e \in op[p].rest : FileOK(e)

\* The operation of a process with nothing under way is well formed.
LEMMA IdleType == Idle \in Operation /\ NoEntry \in LedgerEntry
  BY EmptySeq DEF Idle, Operation, Stages, NoEntry, LedgerEntry, LedgerEntryStatus,
                  AnyRequirement, NoConsensus

\* So is an operation that only rewrites pending.json ...
LEMMA RewriteType ==
    ASSUME NEW rest \in SUBSET Proposal
    PROVE  Rewrite(rest) \in Operation
  BY IdleType DEF Rewrite, Operation, Stages

\* ... and one that finalizes a proposal.
LEMMA FinalizePendingType ==
    ASSUME NEW rest \in SUBSET Proposal, NEW e \in Proposal
    PROVE  FinalizePending(e, rest) \in Operation
<1>1. FinalizedEntry(e) \in LedgerEntry
  BY DEF FinalizedEntry, LedgerEntry, LedgerEntryStatus, Proposal
<1> QED
  BY <1>1, RewriteType DEF FinalizePending, Operation, Stages

\* finalizePendingEntryLocked lets nothing but a quorum through: a finalizable
\* proposal that is not rejected has its approvals, from as many voters.
LEMMA FinalizePendingBacked ==
    ASSUME NEW rest, NEW e \in Proposal, DistinctVoters(e.votes), Finalizable(e)
    PROVE  Backed(FinalizePending(e, rest).entry)
<1>1. CASE Rejected(e)
  BY <1>1 DEF FinalizePending, Rewrite, NoEntry, Backed
<1>2. CASE ~Rejected(e)
  <2>1. Approvals(e.votes) >= e.req.required
    BY <1>2 DEF Finalizable
  <2>2. Cardinality(Approvers(e.votes)) >= e.req.required
    BY <2>1, ApprovalsAreApprovers DEF Proposal
  <2>3. FinalizePending(e, rest).entry = FinalizedEntry(e)
    BY <1>2 DEF FinalizePending
  <2> QED
    BY <2>2, <2>3 DEF FinalizedEntry, Backed, QuorumReached
<1> QED
  BY <1>1, <1>2

-----------------------------------------------------------------------------
(* Every step keeps the invariant *)

\* The empty files NewLedgerService creates satisfy the invariant.
LEMMA InitIInv == Init => IInv
<1> SUFFICES ASSUME Init PROVE IInv
  OBVIOUS
<1>1. TypeOK
  BY IdleType, ConstantsAssumption, EmptySeq DEF Init, TypeOK
<1>2. \A p \in Procs : Backed(op[p].entry) /\ op[p].rest = {}
  BY DEF Init, Idle, NoEntry, Backed
<1> QED
  BY <1>1, <1>2 DEF Init, IInv

\* A method that starts adds nothing to the files: what matters is that the
\* entry it may append is backed and the list it may write is in order.
LEMMA BeginIInv ==
    ASSUME IInv, NEW p \in Procs, NEW o \in Operation, Begin(p, o),
           proposed' \subseteq Ids, Backed(o.entry), \A e \in o.rest : FileOK(e)
    PROVE  IInv'
<1>1. op' = [op EXCEPT ![p] = o]
  BY DEF Begin
<1>2. op' \in [Procs -> Operation]
  BY <1>1 DEF IInv, TypeOK
<1>3. TypeOK'
  BY <1>2 DEF IInv, TypeOK, Begin
<1>4. \A q \in Procs : Backed(op'[q].entry) /\ \A e \in op'[q].rest : FileOK(e)
  <2> SUFFICES ASSUME NEW q \in Procs
               PROVE  Backed(op'[q].entry) /\ \A e \in op'[q].rest : FileOK(e)
    OBVIOUS
  <2>1. CASE q = p
    BY <1>1, <2>1 DEF IInv, TypeOK
  <2>2. CASE q # p
    BY <1>1, <2>2 DEF IInv, TypeOK
  <2> QED
    BY <2>1, <2>2
<1> QED
  BY <1>3, <1>4 DEF IInv, Begin

\* Append: deriveEntryStatus finalizes no entry under a quorum requirement.
LEMMA AppendEntryIInv ==
    ASSUME IInv, NEW p \in Procs, NEW accepted \in BOOLEAN,
           NEW req \in Requirements, AppendEntry(p, accepted, req)
    PROVE  IInv'
<1> DEFINE entry == [id |-> Unnamed, sequence |-> 0,
                     status |-> DerivedStatus(accepted, req),
                     req |-> req, votes |-> << >>]
           o == [stage |-> "replay", entry |-> entry, save |-> FALSE, rest |-> {}]
<1>1. entry \in LedgerEntry
  BY ConstantsAssumption, EmptySeq
     DEF LedgerEntry, LedgerEntryStatus, DerivedStatus
<1>2. o \in Operation
  BY <1>1 DEF Operation, Stages
<1>3. Backed(entry)
  BY DEF Backed, DerivedStatus
<1>4. Begin(p, o) /\ proposed' \subseteq Ids
  BY DEF AppendEntry, IInv, TypeOK
<1> HIDE DEF entry
<1> QED
  BY <1>2, <1>3, <1>4, BeginIInv

\* Propose adds a proposal without votes, under an ID no proposal has.
LEMMA ProposeIInv ==
    ASSUME IInv, NEW p \in Procs, NEW i \in Ids, NEW req \in Requirements,
           Propose(p, i, req)
    PROVE  IInv'
<1> DEFINE new == [id |-> i, req |-> req, votes |-> << >>]
           rest == pending \cup {new}
<1>1. new \in Proposal
  BY ConstantsAssumption, EmptySeq DEF Proposal
<1>2. rest \in SUBSET Proposal
  BY <1>1 DEF IInv, TypeOK
<1>3. FileOK(new)
  BY DEF FileOK, DistinctVoters
<1>4. \A e \in rest : FileOK(e)
  BY <1>3 DEF IInv
<1>5. Rewrite(rest).rest = rest /\ Backed(Rewrite(rest).entry)
  BY DEF Rewrite, Backed, NoEntry
<1>6. Begin(p, Rewrite(rest)) /\ proposed' \subseteq Ids
  BY DEF Propose, IInv, TypeOK
<1>7. Rewrite(rest) \in Operation
  BY <1>2, RewriteType
<1> QED
  BY <1>4, <1>5, <1>6, <1>7, BeginIInv

\* Whether it rejects or finalizes, the same list is written afterwards.
LEMMA FinalizePendingRest ==
    ASSUME NEW e, NEW rest
    PROVE  FinalizePending(e, rest).rest = rest
  BY DEF FinalizePending, Rewrite

\* Vote: the new vote is its voter's first, and a proposal it makes decidable
\* under AutoFinalize is not written back.
LEMMA VoteIInv ==
    ASSUME IInv, NEW p \in Procs, NEW e \in pending, NEW v \in Voters,
           NEW approved \in BOOLEAN, Vote(p, e, v, approved)
    PROVE  IInv'
<1> DEFINE votes  == Append(e.votes, [voter |-> v, approved |-> approved])
           voted  == [e EXCEPT !.votes = votes]
           others == pending \ {e}
<1>1. e \in Proposal /\ FileOK(e) /\ ~HasVoted(e, v)
  BY DEF IInv, TypeOK, Vote
<1>2. votes \in Seq(ConsensusVote) /\ DistinctVoters(votes) /\ votes # << >>
  <2>1. votes # << >>
    BY <1>1, AppendProperties DEF Proposal, ConsensusVote
  <2> QED
    BY <1>1, <2>1, NewVoteIsDistinct DEF FileOK
<1> HIDE DEF votes
<1>3. voted \in Proposal /\ voted.votes = votes /\ voted.req = e.req
  BY <1>1, <1>2 DEF Proposal
<1>4. others \in SUBSET Proposal /\ \A x \in others : FileOK(x)
  BY DEF IInv, TypeOK
<1>5. proposed' \subseteq Ids
  BY DEF Vote, IInv, TypeOK
<1>6. Begin(p, IF e.req.auto /\ Finalizable(voted)
               THEN FinalizePending(voted, others)
               ELSE Rewrite(others \cup {voted}))
  BY DEF Vote, votes
<1> HIDE DEF voted, others
<1>7. CASE e.req.auto /\ Finalizable(voted)
  <2>1. Backed(FinalizePending(voted, others).entry)
    BY <1>2, <1>3, <1>7, FinalizePendingBacked
  <2>2. FinalizePending(voted, others) \in Operation
    BY <1>3, <1>4, FinalizePendingType
  <2> QED
    BY <1>4, <1>5, <1>6, <1>7, <2>1, <2>2, FinalizePendingRest, BeginIInv
<1>8. CASE ~(e.req.auto /\ Finalizable(voted))
  <2>1. FileOK(voted)
    BY <1>2, <1>3, <1>8 DEF FileOK
  <2>2. Rewrite(others \cup {voted}) \in Operation
    BY <1>3, <1>4, RewriteType
  <2>3. /\ Rewrite(others \cup {voted}).rest = others \cup {voted}
        /\ Backed(Rewrite(others \cup {voted}).entry)
    BY DEF Rewrite, Backed, NoEntry
  <2>4. \A x \in Rewrite(others \cup {voted}).rest : FileOK(x)
    BY <1>4, <2>1, <2>3
  <2> QED
    BY <1>5, <1>6, <1>8, <2>2, <2>3, <2>4, BeginIInv
<1> QED
  BY <1>7, <1>8

\* Finalize: only a proposal with its approvals becomes a finalized line.
LEMMA FinalizeIInv ==
    ASSUME IInv, NEW p \in Procs, NEW e \in pending, Finalize(p, e)
    PROVE  IInv'
<1> DEFINE others == pending \ {e}
<1>1. e \in Proposal /\ FileOK(e) /\ Finalizable(e)
  BY DEF IInv, TypeOK, Finalize
<1>2. others \in SUBSET Proposal /\ \A x \in others : FileOK(x)
  BY DEF IInv, TypeOK
<1>3. Begin(p, FinalizePending(e, others)) /\ proposed' \subseteq Ids
  BY DEF Finalize, IInv, TypeOK
<1> HIDE DEF others
<1>4. Backed(FinalizePending(e, others).entry)
  BY <1>1, FinalizePendingBacked DEF FileOK
<1>5. FinalizePending(e, others) \in Operation
  BY <1>1, <1>2, FinalizePendingType
<1> QED
  BY <1>2, <1>3, <1>4, <1>5, FinalizePendingRest, BeginIInv

\* The replay changes no more than the sequence number of the entry.
LEMMA ReplayLinesIInv ==
    ASSUME IInv, NEW p \in Procs, ReplayLines(p)
    PROVE  IInv'
<1>1. op[p] \in Operation /\ Len(entries) \in Nat
  BY LenProperties DEF IInv, TypeOK
<1> DEFINE line == [op[p].entry EXCEPT !.sequence = Len(entries) + 1]
           o == [op[p] EXCEPT !.stage = "append", !.entry = line]
<1>2. op' = [op EXCEPT ![p] = o]
  BY <1>1 DEF ReplayLines, IInv, TypeOK, Operation
<1>3. line \in LedgerEntry
  BY <1>1 DEF Operation, LedgerEntry
<1>4. o \in Operation
  BY <1>1, <1>3 DEF Operation, Stages
<1>5. /\ o.rest = op[p].rest
      /\ o.entry.status = op[p].entry.status
      /\ o.entry.req = op[p].entry.req
      /\ o.entry.votes = op[p].entry.votes
  BY <1>1 DEF Operation, LedgerEntry
<1>6. Backed(o.entry)
  BY <1>5 DEF IInv, Backed, QuorumReached
<1> HIDE DEF o
<1>7. TypeOK'
  BY <1>2, <1>4 DEF ReplayLines, IInv, TypeOK
<1>8. \A q \in Procs : Backed(op'[q].entry) /\ \A e \in op'[q].rest : FileOK(e)
  BY <1>2, <1>5, <1>6 DEF IInv, TypeOK
<1> QED
  BY <1>7, <1>8 DEF IInv, ReplayLines

\* A step that leaves op[p] idle, or with the entry and list it had, keeps
\* what IInv says of the operations under way.
LEMMA OperationsKeep ==
    ASSUME IInv, NEW p \in Procs, NEW o \in Operation, op' = [op EXCEPT ![p] = o],
           \/ o = Idle
           \/ o.entry = op[p].entry /\ o.rest = op[p].rest
    PROVE  /\ op' \in [Procs -> Operation]
           /\ \A q \in Procs : Backed(op'[q].entry) /\ \A e \in op'[q].rest : FileOK(e)
<1>1. op' \in [Procs -> Operation]
  BY DEF IInv, TypeOK
<1>2. Backed(o.entry) /\ \A e \in o.rest : FileOK(e)
  <2>1. CASE o = Idle
    BY <2>1 DEF Idle, NoEntry, Backed
  <2>2. CASE o.entry = op[p].entry /\ o.rest = op[p].rest
    BY <2>2 DEF IInv
  <2> QED
    BY <2>1, <2>2
<1>3. ASSUME NEW q \in Procs
      PROVE  Backed(op'[q].entry) /\ \A e \in op'[q].rest : FileOK(e)
  <2>1. CASE q = p
    BY <1>2, <2>1 DEF IInv, TypeOK
  <2>2. CASE q # p
    BY <2>2 DEF IInv, TypeOK
  <2> QED
    BY <2>1, <2>2
<1> QED
  BY <1>1, <1>3

\* The line that is written is the entry the operation carries.
LEMMA AppendLineIInv ==
    ASSUME IInv, NEW p \in Procs, AppendLine(p)
    PROVE  IInv'
<1> DEFINE o == IF op[p].save THEN [op[p] EXCEPT !.stage = "truncate"] ELSE Idle
<1>1. op[p] \in Operation /\ op[p].entry \in LedgerEntry
  BY DEF IInv, TypeOK, Operation
<1>2. o \in Operation /\ (o = Idle \/ (o.entry = op[p].entry /\ o.rest = op[p].rest))
  BY <1>1, IdleType DEF Operation, Stages
<1>3. op' = [op EXCEPT ![p] = o]
  BY DEF AppendLine
<1> HIDE DEF o
<1>4. /\ op' \in [Procs -> Operation]
      /\ \A q \in Procs : Backed(op'[q].entry) /\ \A e \in op'[q].rest : FileOK(e)
  BY <1>2, <1>3, OperationsKeep
<1>5. /\ entries' \in Seq(LedgerEntry)
      /\ DOMAIN entries' = 1 .. (Len(entries) + 1)
      /\ DOMAIN entries = 1 .. Len(entries)
      /\ Len(entries) \in Nat
      /\ \A k \in 1 .. Len(entries) : entries'[k] = entries[k]
      /\ entries'[Len(entries) + 1] = op[p].entry
  BY <1>1, AppendProperties, LenProperties DEF AppendLine, IInv, TypeOK
<1>6. \A k \in DOMAIN entries' : Backed(entries'[k])
  <2> SUFFICES ASSUME NEW k \in DOMAIN entries' PROVE Backed(entries'[k])
    OBVIOUS
  <2>1. CASE k \in DOMAIN entries
    BY <1>5, <2>1 DEF IInv
  <2>2. CASE k = Len(entries) + 1
    BY <1>5, <2>2 DEF IInv
  <2> QED
    BY <1>5, <2>1, <2>2
<1>7. TypeOK'
  BY <1>4, <1>5 DEF AppendLine, IInv, TypeOK
<1> QED
  BY <1>4, <1>6, <1>7 DEF IInv, AppendLine

\* An empty pending.json holds nothing undecided.
LEMMA TruncatePendingIInv ==
    ASSUME IInv, NEW p \in Procs, TruncatePending(p)
    PROVE  IInv'
<1> DEFINE o == [op[p] EXCEPT !.stage = "write"]
<1>1. op[p] \in Operation
  BY DEF IInv, TypeOK
<1>2. o \in Operation /\ o.entry = op[p].entry /\ o.rest = op[p].rest
  BY <1>1 DEF Operation, Stages
<1>3. op' = [op EXCEPT ![p] = o]
  BY <1>1 DEF TruncatePending, IInv, TypeOK
<1> HIDE DEF o
<1>4. /\ op' \in [Procs -> Operation]
      /\ \A q \in Procs : Backed(op'[q].entry) /\ \A e \in op'[q].rest : FileOK(e)
  BY <1>2, <1>3, OperationsKeep
<1> QED
  BY <1>4 DEF IInv, TypeOK, TruncatePending

\* The list that is written is in order, whatever others wrote meanwhile.
LEMMA WritePendingIInv ==
    ASSUME IInv, NEW p \in Procs, WritePending(p)
    PROVE  IInv'
<1>1. op[p] \in Operation /\ op[p].rest \in SUBSET Proposal
  BY DEF IInv, TypeOK, Operation
<1>2. /\ op' \in [Procs -> Operation]
      /\ \A q \in Procs : Backed(op'[q].entry) /\ \A e \in op'[q].rest : FileOK(e)
  BY IdleType, OperationsKeep DEF WritePending
<1> QED
  BY <1>1, <1>2 DEF IInv, TypeOK, WritePending

\* An operation cut short leaves the files as they are.
LEMMA FailIInv ==
    ASSUME IInv, NEW p \in Procs, Fail(p)
    PROVE  IInv'
<1>1. /\ op' \in [Procs -> Operation]
      /\ \A q \in Procs : Backed(op'[q].entry) /\ \A e \in op'[q].rest : FileOK(e)
  BY IdleType, OperationsKeep DEF Fail
<1>2. faults' \in 0 .. MaxFaults
  BY ConstantsAssumption DEF Fail, IInv, TypeOK
<1> QED
  BY <1>1, <1>2 DEF IInv, TypeOK, Fail

\* The invariant is inductive.
LEMMA NextIInv == IInv /\ [Next]_vars => IInv'
<1> SUFFICES ASSUME IInv, [Next]_vars PROVE IInv'
  OBVIOUS
<1>1. CASE UNCHANGED vars
  BY <1>1 DEF IInv, TypeOK, vars
<1>2. ASSUME NEW p \in Procs, NEW accepted \in BOOLEAN, NEW req \in Requirements,
             AppendEntry(p, accepted, req)
      PROVE  IInv'
  BY <1>2, AppendEntryIInv
<1>3. ASSUME NEW p \in Procs, NEW i \in Ids, NEW req \in Requirements,
             Propose(p, i, req)
      PROVE  IInv'
  BY <1>3, ProposeIInv
<1>4. ASSUME NEW p \in Procs, NEW e \in pending, NEW v \in Voters,
             NEW approved \in BOOLEAN, Vote(p, e, v, approved)
      PROVE  IInv'
  BY <1>4, VoteIInv
<1>5. ASSUME NEW p \in Procs, NEW e \in pending, Finalize(p, e)
      PROVE  IInv'
  BY <1>5, FinalizeIInv
<1>6. ASSUME NEW p \in Procs,
             ReplayLines(p) \/ AppendLine(p) \/ TruncatePending(p)
               \/ WritePending(p) \/ Fail(p)
      PROVE  IInv'
  BY <1>6, ReplayLinesIInv, AppendLineIInv, TruncatePendingIInv,
     WritePendingIInv, FailIInv
<1> QED
  BY <1>1, <1>2, <1>3, <1>4, <1>5, <1>6 DEF Next

\* The inductive invariant holds in every reachable state.
THEOREM Invariance == Spec => []IInv
<1> QED
  BY InitIInv, NextIInv, PTL DEF Spec

\* The files always hold well-formed entries and proposals.
THEOREM TypeCorrect == Spec => []TypeOK
<1>1. IInv => TypeOK
  BY DEF IInv
<1> QED
  BY <1>1, Invariance, PTL

\* Vote, Finalize and the deferred append finalize a quorum entry only on
\* the approvals of enough different voters, for any number of processes
\* rewriting pending.json over each other and any number of failures.
THEOREM QuorumBackedHolds == Spec => []QuorumBacked
<1>1. IInv => QuorumBacked
  BY DEF IInv, QuorumBacked, Backed
<1> QED
  BY <1>1, Invariance, PTL

\* No AutoFinalize proposal that Vote has touched is left decidable.
THEOREM AutoFinalizeDecidesHolds == Spec => []AutoFinalizeDecides
<1>1. IInv => AutoFinalizeDecides
  BY DEF IInv, AutoFinalizeDecides, OnFile, FileOK
<1> QED
  BY <1>1, Invariance, PTL

-----------------------------------------------------------------------------
(* The ledger only grows *)

\* The one action that writes entries.jsonl adds one line at the end.
LEMMA AppendLineGrows ==
    ASSUME TypeOK, NEW p \in Procs, AppendLine(p)
    PROVE  AppendOnlyStep
<1>1. op[p].entry \in LedgerEntry
  BY DEF TypeOK, Operation
<1> QED
  BY <1>1, AppendProperties, LenProperties DEF AppendLine, AppendOnlyStep, TypeOK

\* The others read it, or have to do with pending.json.
LEMMA OthersAddNothing ==
    ASSUME NEW p \in Procs
    PROVE  /\ \A accepted, req : AppendEntry(p, accepted, req) => entries' = entries
           /\ \A i, req : Propose(p, i, req) => entries' = entries
           /\ \A e, v, approved : Vote(p, e, v, approved) => entries' = entries
           /\ \A e : Finalize(p, e) => entries' = entries
           /\ ReplayLines(p) \/ TruncatePending(p) \/ WritePending(p) \/ Fail(p)
                => entries' = entries
<1>1. \A accepted, req : AppendEntry(p, accepted, req) => entries' = entries
  BY DEF AppendEntry, Begin
<1>2. \A i, req : Propose(p, i, req) => entries' = entries
  BY DEF Propose, Begin
<1>3. \A e, v, approved : Vote(p, e, v, approved) => entries' = entries
  BY DEF Vote, Begin
<1>4. \A e : Finalize(p, e) => entries' = entries
  BY DEF Finalize, Begin
<1>5. ReplayLines(p) \/ TruncatePending(p) \/ WritePending(p) \/ Fail(p) => entries' = entries
  BY DEF ReplayLines, TruncatePending, WritePending, Fail
<1> QED
  BY <1>1, <1>2, <1>3, <1>4, <1>5

\* No step of any process, and no failure, changes or removes a line.
THEOREM AppendOnlyHolds == Spec => AppendOnly
<1>1. ASSUME TypeOK, [Next]_vars
      PROVE  [AppendOnlyStep]_vars
  <2>1. ASSUME NEW p \in Procs, AppendLine(p)
        PROVE  AppendOnlyStep
    BY <1>1, <2>1, AppendLineGrows
  <2>2. CASE \E p \in Procs : AppendLine(p)
    BY <2>1, <2>2
  <2>3. CASE ~\E p \in Procs : AppendLine(p)
    <3>1. entries' = entries
      BY <1>1, <2>3, OthersAddNothing DEF Next, vars
    <3> QED
      BY <3>1 DEF AppendOnlyStep
  <2> QED
    BY <2>2, <2>3
<1> QED
  BY <1>1, TypeCorrect, PTL DEF AppendOnly, Spec

-----------------------------------------------------------------------------
(* One writer *)

\* Between its replay and its write, nobody else moves the end of the file.
NextSequence ==
    \A p \in Procs :
        op[p].stage = "append" => op[p].entry.sequence = Len(entries) + 1

\* With one process on the directory, an entry's sequence number is its place,
\* also when operations fail part-way: the number is taken and used under one
\* lock.  A second process that appends at the same time breaks this.
THEOREM OneWriterSequence ==
    ASSUME NEW w, Procs = {w}
    PROVE  Spec => []SequenceIsPosition
<1> DEFINE Inv == SequenceIsPosition /\ NextSequence
<1>1. Init => Inv
  BY DEF Init, SequenceIsPosition, NextSequence, Idle
<1>2. ASSUME TypeOK, Inv, [Next]_vars
      PROVE  Inv'
  <2>1. Len(entries) \in Nat /\ DOMAIN entries = 1 .. Len(entries)
    BY <1>2, LenProperties DEF TypeOK
  <2>2. CASE AppendLine(w)
    <3>1. op[w].stage = "append" /\ op[w] \in Operation /\ op[w].entry \in LedgerEntry
      BY <1>2, <2>2 DEF AppendLine, TypeOK, Operation
    <3>2. /\ DOMAIN entries' = 1 .. (Len(entries) + 1)
          /\ \A k \in 1 .. Len(entries) : entries'[k] = entries[k]
          /\ entries'[Len(entries) + 1] = op[w].entry
      BY <1>2, <2>2, <3>1, AppendProperties, LenProperties DEF AppendLine, TypeOK
    <3>3. SequenceIsPosition'
      BY <1>2, <2>1, <3>1, <3>2 DEF SequenceIsPosition, NextSequence
    <3>4. op'[w].stage \in {"truncate", "idle"}
      BY <1>2, <2>2, <3>1 DEF AppendLine, TypeOK, Operation, Idle
    <3> QED
      BY <3>3, <3>4 DEF NextSequence
  <2>3. CASE ReplayLines(w)
    <3>1. /\ entries' = entries
          /\ op'[w].entry.sequence = Len(entries) + 1
      BY <1>2, <2>3 DEF ReplayLines, TypeOK, Operation, LedgerEntry
    <3> QED
      BY <1>2, <3>1 DEF SequenceIsPosition, NextSequence
  <2>4. ASSUME NEW o, o.stage # "append", op' = [op EXCEPT ![w] = o],
               entries' = entries
        PROVE  Inv'
    BY <1>2, <2>4 DEF SequenceIsPosition, NextSequence, TypeOK
  <2>5. ASSUME NEW accepted \in BOOLEAN, NEW req \in Requirements,
               AppendEntry(w, accepted, req)
        PROVE  Inv'
    BY <2>4, <2>5 DEF AppendEntry, Begin
  <2>6. ASSUME NEW i \in Ids, NEW req \in Requirements, Propose(w, i, req)
        PROVE  Inv'
    BY <2>4, <2>6 DEF Propose, Begin, Rewrite
  <2>7. \A e, rest : FinalizePending(e, rest).stage # "append"
    BY DEF FinalizePending, Rewrite
  <2>8. ASSUME NEW e \in pending, NEW v \in Voters, NEW approved \in BOOLEAN,
               Vote(w, e, v, approved)
        PROVE  Inv'
    <3> DEFINE voted == [e EXCEPT !.votes = Append(@, [voter |-> v, approved |-> approved])]
               o == IF e.req.auto /\ Finalizable(voted)
                    THEN FinalizePending(voted, pending \ {e})
                    ELSE Rewrite((pending \ {e}) \cup {voted})
    <3>1. op' = [op EXCEPT ![w] = o] /\ entries' = entries
      BY <2>8 DEF Vote, Begin
    <3>2. o.stage # "append"
      BY <2>7 DEF Rewrite
    <3> HIDE DEF o
    <3> QED
      BY <2>4, <3>1, <3>2
  <2>9. ASSUME NEW e \in pending, Finalize(w, e)
        PROVE  Inv'
    BY <2>4, <2>7, <2>9 DEF Finalize, Begin
  <2>10. CASE TruncatePending(w)
    <3>1. entries' = entries /\ op'[w].stage = "write"
      BY <1>2, <2>10 DEF TruncatePending, TypeOK, Operation
    <3> QED
      BY <1>2, <3>1 DEF SequenceIsPosition, NextSequence
  <2>11. CASE WritePending(w) \/ Fail(w)
    BY <2>4, <2>11 DEF WritePending, Fail, Idle
  <2>12. CASE UNCHANGED vars
    BY <1>2, <2>12 DEF vars, SequenceIsPosition, NextSequence
  <2> HIDE DEF Inv
  <2> QED
    BY <1>2, <2>2, <2>3, <2>5, <2>6, <2>8, <2>9, <2>10, <2>11, <2>12 DEF Next
<1>3. Inv => SequenceIsPosition
  OBVIOUS
<1> HIDE DEF Inv
<1> QED
  BY <1>1, <1>2, <1>3, TypeCorrect, PTL DEF Spec
-----------------------------------------------------------------------------
(* One writer and no fault: the ledger implements LedgerLog *)

\* BallotOf, of any lines, list of open proposals and IDs drawn.
BallotFrom(lines, open, drawn, i) ==
    LET done == {k \in DOMAIN lines : lines[k].id = i} IN
    IF done # {}
    THEN [phase |-> "committed", votes |-> lines[CHOOSE k \in done : TRUE].votes]
    ELSE IF \E e \in open : e.id = i
    THEN [phase |-> "open", votes |-> (CHOOSE e \in open : e.id = i).votes]
    ELSE [phase |-> IF i \in drawn THEN "rejected" ELSE "absent", votes |-> << >>]

\* A proposal is open once or committed once, and drawn before.
Sound(lines, open, drawn) ==
    /\ \A j, k \in DOMAIN lines : lines[j].id \in Ids /\ lines[j].id = lines[k].id => j = k
    /\ \A k \in DOMAIN lines : lines[k].id \in drawn \cup {Unnamed}
    /\ \A e, f \in open : e.id = f.id => e = f
    /\ \A e \in open : e.id \in drawn /\ \A k \in DOMAIN lines : lines[k].id # e.id

\* The votes of a ballot with at most one more, of a new voter.
OneVoteMore(before, votes) ==
    \/ votes = before
    \/ \E v \in Voters, approved \in BOOLEAN :
        /\ \A k \in DOMAIN before : before[k].voter # v
        /\ votes = Append(before, [voter |-> v, approved |-> approved])

\* What is on its way to the ledger is an entry without a proposal, or one that
\* decides a proposal of the list in pending.json and takes it out of there afterwards.
Deciding(list, o) ==
    \/ o.entry.id = Unnamed /\ ~o.save
    \/ /\ o.save
       /\ \E e \in list :
            /\ o.entry.id = e.id /\ o.rest = list \ {e}
            /\ OneVoteMore(e.votes, o.entry.votes)

\* The invariant of the only process: the files are sound, and so is what it carries.
OneWriterInv ==
    /\ Sound(entries, Open, proposed)
    /\ \A p \in Procs : op[p].stage \in {"replay", "append"} => Deciding(pending, op[p])

\* The ballot of a proposal with a line.
LEMMA CommittedBallot ==
    ASSUME NEW lines, NEW open, NEW drawn, Sound(lines, open, drawn),
           NEW i \in Ids, NEW k \in DOMAIN lines, lines[k].id = i
    PROVE  BallotFrom(lines, open, drawn, i) = [phase |-> "committed", votes |-> lines[k].votes]
<1> DEFINE done == {j \in DOMAIN lines : lines[j].id = i}
<1>1. done = {k}
  BY DEF Sound
<1>2. (CHOOSE j \in done : TRUE) = k
  BY <1>1
<1> QED
  BY <1>1, <1>2 DEF BallotFrom

\* The ballot of a proposal in the list.
LEMMA OpenBallot ==
    ASSUME NEW lines, NEW open, NEW drawn, Sound(lines, open, drawn),
           NEW i \in Ids, NEW e \in open, e.id = i
    PROVE  BallotFrom(lines, open, drawn, i) = [phase |-> "open", votes |-> e.votes]
<1>1. {k \in DOMAIN lines : lines[k].id = i} = {}
  BY DEF Sound
<1>2. (CHOOSE f \in open : f.id = i) = e
  BY DEF Sound
<1> QED
  BY <1>1, <1>2 DEF BallotFrom

\* The ballot of a proposal with neither.
LEMMA NoBallot ==
    ASSUME NEW lines, NEW open, NEW drawn, NEW i \in Ids,
           \A k \in DOMAIN lines : lines[k].id # i, \A e \in open : e.id # i
    PROVE  BallotFrom(lines, open, drawn, i)
             = [phase |-> IF i \in drawn THEN "rejected" ELSE "absent", votes |-> << >>]
<1>1. {k \in DOMAIN lines : lines[k].id = i} = {}
  OBVIOUS
<1> QED
  BY <1>1 DEF BallotFrom

\* A ballot depends on its own line and its own place in the list.
LEMMA SameBallot ==
    ASSUME NEW lines, NEW open, NEW drawn, Sound(lines, open, drawn),
           NEW lines2, NEW open2, NEW drawn2, Sound(lines2, open2, drawn2),
           NEW i \in Ids,
           \A k \in DOMAIN lines : lines[k].id = i => k \in DOMAIN lines2 /\ lines2[k] = lines[k],
           \A k \in DOMAIN lines2 : lines2[k].id = i => k \in DOMAIN lines /\ lines2[k] = lines[k],
           \A e : e.id = i => (e \in open <=> e \in open2),
           i \in drawn <=> i \in drawn2
    PROVE  BallotFrom(lines2, open2, drawn2, i) = BallotFrom(lines, open, drawn, i)
<1>1. CASE \E k \in DOMAIN lines : lines[k].id = i
  <2> PICK k \in DOMAIN lines : lines[k].id = i
    BY <1>1
  <2>1. k \in DOMAIN lines2 /\ lines2[k] = lines[k]
    OBVIOUS
  <2>2. BallotFrom(lines, open, drawn, i) = [phase |-> "committed", votes |-> lines[k].votes]
    BY CommittedBallot
  <2>3. BallotFrom(lines2, open2, drawn2, i) = [phase |-> "committed", votes |-> lines2[k].votes]
    BY <2>1, CommittedBallot
  <2> QED
    BY <2>1, <2>2, <2>3
<1>2. CASE \E e \in open : e.id = i
  <2> PICK e \in open : e.id = i
    BY <1>2
  <2>1. BallotFrom(lines, open, drawn, i) = [phase |-> "open", votes |-> e.votes]
    BY OpenBallot
  <2>2. BallotFrom(lines2, open2, drawn2, i) = [phase |-> "open", votes |-> e.votes]
    <3>1. e \in open2
      OBVIOUS
    <3> QED
      BY <3>1, OpenBallot
  <2> QED
    BY <2>1, <2>2
<1>3. CASE (\A k \in DOMAIN lines : lines[k].id # i) /\ (\A e \in open : e.id # i)
  <2>1. (\A k \in DOMAIN lines2 : lines2[k].id # i) /\ (\A e \in open2 : e.id # i)
    BY <1>3
  <2>2. /\ BallotFrom(lines, open, drawn, i)
             = [phase |-> IF i \in drawn THEN "rejected" ELSE "absent", votes |-> << >>]
        /\ BallotFrom(lines2, open2, drawn2, i)
             = [phase |-> IF i \in drawn2 THEN "rejected" ELSE "absent", votes |-> << >>]
    BY <1>3, <2>1, NoBallot
  <2> QED
    BY <2>2
<1> QED
  BY <1>1, <1>2, <1>3

\* The list that later calls see, of the only process.
LEMMA OpenIs ==
    ASSUME NEW w, Procs = {w}
    PROVE  /\ Open = IF op[w].stage \in {"truncate", "write"} THEN op[w].rest ELSE pending
           /\ Open' = IF op'[w].stage \in {"truncate", "write"} THEN op'[w].rest ELSE pending'
<1>1. ASSUME NEW R, R \subseteq {w}, R # {} PROVE (CHOOSE p \in R : TRUE) = w
  <2>1. R = {w}
    BY <1>1
  <2> QED
    BY <2>1
<1>2. Rewriting \subseteq {w} /\ (Rewriting # {} <=> op[w].stage \in {"truncate", "write"})
  BY DEF Rewriting
<1>3. Rewriting' \subseteq {w} /\ (Rewriting' # {} <=> op'[w].stage \in {"truncate", "write"})
  BY DEF Rewriting
<1> QED
  BY <1>1, <1>2, <1>3 DEF Open

\* Ballots, now and after the step, as a function of the state's parts.
LEMMA BallotsAre ==
    /\ Ballots = [i \in Ids |-> BallotFrom(entries, Open, proposed, i)]
    /\ Ballots' = [i \in Ids |-> BallotFrom(entries', Open', proposed', i)]
  BY DEF Ballots, BallotOf, Committed, BallotFrom

\* A ballot changes with its line and its place in the list only.
LEMMA BallotChanges ==
    ASSUME Sound(entries, Open, proposed), Sound(entries', Open', proposed'), NEW i \in Ids,
           \A k \in DOMAIN entries : entries[k].id # i => k \in DOMAIN entries' /\ entries'[k] = entries[k],
           \A k \in DOMAIN entries' : entries'[k].id # i => k \in DOMAIN entries /\ entries'[k] = entries[k],
           \A e : e.id # i => (e \in Open <=> e \in Open'),
           \A j \in Ids \ {i} : j \in proposed <=> j \in proposed'
    PROVE  /\ Ballots' = [Ballots EXCEPT ![i] = BallotFrom(entries', Open', proposed', i)]
           /\ Ballots[i] = BallotFrom(entries, Open, proposed, i)
<1>1. ASSUME NEW j \in Ids \ {i}
      PROVE  BallotFrom(entries', Open', proposed', j) = BallotFrom(entries, Open, proposed, j)
  <2>1. \A k \in DOMAIN entries : entries[k].id = j => k \in DOMAIN entries' /\ entries'[k] = entries[k]
    BY <1>1
  <2>2. \A k \in DOMAIN entries' : entries'[k].id = j => k \in DOMAIN entries /\ entries'[k] = entries[k]
    BY <1>1
  <2>3. \A e : e.id = j => (e \in Open <=> e \in Open')
    BY <1>1
  <2>4. j \in proposed <=> j \in proposed'
    BY <1>1
  <2> QED
    BY <2>1, <2>2, <2>3, <2>4, SameBallot
<1> QED
  BY <1>1, BallotsAre

\* The ballots after a step that changes no line of a proposal.
LEMMA BallotsStay ==
    ASSUME Sound(entries, Open, proposed), Sound(entries', Open', proposed'),
           \A k \in DOMAIN entries : entries[k].id \in Ids => k \in DOMAIN entries' /\ entries'[k] = entries[k],
           \A k \in DOMAIN entries' : entries'[k].id \in Ids => k \in DOMAIN entries /\ entries'[k] = entries[k],
           \A e : e \in Open <=> e \in Open', \A j \in Ids : j \in proposed <=> j \in proposed'
    PROVE  Ballots' = Ballots
<1>1. ASSUME NEW j \in Ids
      PROVE  BallotFrom(entries', Open', proposed', j) = BallotFrom(entries, Open, proposed, j)
  <2>1. \A k \in DOMAIN entries : entries[k].id = j => k \in DOMAIN entries' /\ entries'[k] = entries[k]
    OBVIOUS
  <2>2. \A k \in DOMAIN entries' : entries'[k].id = j => k \in DOMAIN entries /\ entries'[k] = entries[k]
    OBVIOUS
  <2>3. \A e : e.id = j => (e \in Open <=> e \in Open')
    OBVIOUS
  <2> QED
    BY <2>1, <2>2, <2>3, SameBallot
<1> QED
  BY <1>1, BallotsAre

\* The ballot of a line that the step has written.
LEMMA CommittedNow ==
    ASSUME Sound(entries', Open', proposed'), NEW i \in Ids, NEW k \in DOMAIN entries',
           entries'[k].id = i
    PROVE  BallotFrom(entries', Open', proposed', i) = [phase |-> "committed", votes |-> entries'[k].votes]
  BY CommittedBallot

\* A step that moves nothing.
LEMMA Quiet ==
    ASSUME Sound(entries, Open, proposed), UNCHANGED <<entries, proposed>>, Open' = Open
    PROVE  Sound(entries', Open', proposed') /\ UNCHANGED <<Numbered, Ballots>>
<1>1. Ballots' = Ballots
  BY BallotsAre
<1>2. Numbered' = Numbered
  BY DEF Numbered
<1> QED
  BY <1>1, <1>2

\* Propose opens the ballot of an ID that was not drawn before.
LEMMA OpenStep ==
    ASSUME Sound(entries, Open, proposed), NEW i \in Ids \ proposed, Unnamed \notin Ids, NEW e,
           e.id = i, e.votes = << >>, entries' = entries, proposed' = proposed \cup {i},
           Open' = Open \cup {e}
    PROVE  Sound(entries', Open', proposed') /\ Log!Open(i)
<1>1. (\A k \in DOMAIN entries : entries[k].id # i) /\ (\A f \in Open : f.id # i)
  BY DEF Sound
<1>2. Sound(entries', Open', proposed')
  BY <1>1 DEF Sound
<1>3. /\ Ballots' = [Ballots EXCEPT ![i] = BallotFrom(entries', Open', proposed', i)]
      /\ Ballots[i] = BallotFrom(entries, Open, proposed, i)
  BY <1>2, BallotChanges
<1>4. BallotFrom(entries, Open, proposed, i) = [phase |-> "absent", votes |-> << >>]
  BY <1>1, NoBallot
<1>5. BallotFrom(entries', Open', proposed', i) = [phase |-> "open", votes |-> << >>]
  BY <1>2, OpenBallot
<1>6. Numbered' = Numbered
  BY DEF Numbered
<1>7. Ballots[i].phase = "absent" /\ [Ballots[i] EXCEPT !.phase = "open"] = [phase |-> "open", votes |-> << >>]
  BY <1>3, <1>4
<1>8. Ballots' = [Ballots EXCEPT ![i].phase = "open"]
  BY <1>3, <1>5, <1>7
<1> QED
  BY <1>2, <1>6, <1>7, <1>8 DEF Log!Open

\* What OneVoteMore allows, LedgerLog allows.
LEMMA CountedVotes ==
    ASSUME NEW i \in Ids, NEW before, NEW votes, Ballots[i] = [phase |-> "open", votes |-> before],
           OneVoteMore(before, votes)
    PROVE  Log!Counted(i, votes) /\ votes \in Log!OneMore(i)
<1>1. Ballots[i].phase = "open" /\ Ballots[i].votes = before
  OBVIOUS
<1>2. CASE votes = before
  BY <1>1, <1>2 DEF Log!Counted, Log!OneMore
<1>3. ASSUME NEW v \in Voters, NEW approved \in BOOLEAN,
             \A k \in DOMAIN before : before[k].voter # v,
             votes = Append(before, [voter |-> v, approved |-> approved])
      PROVE  Log!Counted(i, votes) /\ votes \in Log!OneMore(i)
  <2>1. Log!Counted(i, votes)
    BY <1>1, <1>3 DEF Log!Counted
  <2>2. votes \in Log!OneMore(i)
    BY <1>1, <1>3 DEF Log!OneMore
  <2> QED
    BY <2>1, <2>2
<1> QED
  BY <1>2, <1>3 DEF OneVoteMore

\* A vote that leaves the proposal open.
LEMMA CastStep ==
    ASSUME Sound(entries, Open, proposed), NEW e \in Open, e.id \in Ids, NEW voted, voted.id = e.id,
           OneVoteMore(e.votes, voted.votes), entries' = entries, proposed' = proposed,
           Open' = (Open \ {e}) \cup {voted}
    PROVE  /\ Sound(entries', Open', proposed')
           /\ voted.votes \in Log!OneMore(e.id) /\ Log!Cast(e.id, voted.votes)
<1> PICK i : i = e.id
  OBVIOUS
<1>1. Sound(entries', Open', proposed')
  BY DEF Sound
<1>2. \A f : f.id # i => (f \in Open <=> f \in Open')
  OBVIOUS
<1>3. /\ Ballots' = [Ballots EXCEPT ![i] = BallotFrom(entries', Open', proposed', i)]
      /\ Ballots[i] = BallotFrom(entries, Open, proposed, i)
  BY <1>1, <1>2, BallotChanges
<1>4. BallotFrom(entries, Open, proposed, i) = [phase |-> "open", votes |-> e.votes]
  BY OpenBallot
<1>5. BallotFrom(entries', Open', proposed', i) = [phase |-> "open", votes |-> voted.votes]
  BY <1>1, OpenBallot
<1>6. Numbered' = Numbered
  BY DEF Numbered
<1>7. Ballots' = [Ballots EXCEPT ![i].votes = voted.votes]
  <2>1. [Ballots[i] EXCEPT !.votes = voted.votes] = [phase |-> "open", votes |-> voted.votes]
    BY <1>3, <1>4
  <2> QED
    BY <1>3, <1>5, <2>1
<1>8. Log!Counted(i, voted.votes) /\ voted.votes \in Log!OneMore(i)
  BY <1>3, <1>4, CountedVotes
<1> QED
  BY <1>1, <1>6, <1>7, <1>8 DEF Log!Cast

\* A rejection takes the proposal out of the list and leaves no line.
LEMMA RejectStep ==
    ASSUME Sound(entries, Open, proposed), NEW e \in Open, e.id \in Ids, entries' = entries,
           proposed' = proposed, Open' = Open \ {e}
    PROVE  Sound(entries', Open', proposed') /\ Log!Reject(e.id)
<1> PICK i : i = e.id
  OBVIOUS
<1>1. Sound(entries', Open', proposed')
  BY DEF Sound
<1>2. \A f : f.id # i => (f \in Open <=> f \in Open')
  OBVIOUS
<1>3. /\ Ballots' = [Ballots EXCEPT ![i] = BallotFrom(entries', Open', proposed', i)]
      /\ Ballots[i] = BallotFrom(entries, Open, proposed, i)
  BY <1>1, <1>2, BallotChanges
<1>4. BallotFrom(entries, Open, proposed, i) = [phase |-> "open", votes |-> e.votes]
  BY OpenBallot
<1>5. BallotFrom(entries', Open', proposed', i) = [phase |-> "rejected", votes |-> << >>]
  <2>1. i \in proposed' /\ (\A k \in DOMAIN entries' : entries'[k].id # i) /\ (\A f \in Open' : f.id # i)
    BY DEF Sound
  <2> QED
    BY <2>1, NoBallot
<1>6. Numbered' = Numbered
  BY DEF Numbered
<1>7. Ballots[i].phase = "open"
  BY <1>3, <1>4
<1> QED
  BY <1>1, <1>3, <1>5, <1>6, <1>7 DEF Log!Reject

\* A line more.
LEMMA AppendGrows ==
    ASSUME entries \in Seq(LedgerEntry), NEW line \in LedgerEntry, entries' = Append(entries, line)
    PROVE  /\ DOMAIN entries' = DOMAIN entries \cup {Len(entries) + 1}
           /\ Len(entries) + 1 \notin DOMAIN entries
           /\ entries'[Len(entries) + 1] = line
           /\ \A k \in DOMAIN entries : entries'[k] = entries[k]
<1>1. Len(entries) \in Nat /\ DOMAIN entries = 1 .. Len(entries)
  BY LenProperties
<1>2. Append(entries, line) \in Seq(LedgerEntry) /\ Len(Append(entries, line)) = Len(entries) + 1
  BY AppendProperties
<1>3. DOMAIN entries' = 1 .. Len(entries) + 1
  BY <1>2, LenProperties
<1> QED
  BY <1>1, <1>3, AppendProperties

\* A sequence that is written as a function, and one more element.
LEMMA FunctionGrows ==
    ASSUME NEW R, NEW n \in Nat, NEW f \in [1 .. n -> R], NEW elt \in R
    PROVE  /\ Len(f) = n
           /\ Append(f, elt) = [k \in 1 .. n + 1 |-> IF k = n + 1 THEN elt ELSE f[k]]
<1>1. f \in Seq(R)
  BY SeqDef
<1>2. Len(f) \in Nat /\ DOMAIN f = 1 .. Len(f) /\ DOMAIN f = 1 .. n
  BY <1>1, LenProperties
<1>3. Len(f) = n
  BY <1>2
<1> PICK g : g = Append(f, elt)
  OBVIOUS
<1>4. /\ g \in Seq(R) /\ Len(g) = n + 1 /\ g[n + 1] = elt
      /\ \A k \in 1 .. n : g[k] = f[k]
  BY <1>1, <1>3, AppendProperties
<1>5. g \in [1 .. n + 1 -> R]
  BY <1>4, LenProperties
<1>6. \A k \in 1 .. n + 1 : g[k] = IF k = n + 1 THEN elt ELSE f[k]
  <2> SUFFICES ASSUME NEW k \in 1 .. n + 1 PROVE g[k] = IF k = n + 1 THEN elt ELSE f[k]
    OBVIOUS
  <2>1. k = n + 1 \/ k \in 1 .. n
    OBVIOUS
  <2> QED
    BY <1>4, <2>1
<1> QED
  BY <1>3, <1>5, <1>6

\* A line is one entry more of the log.
LEMMA NumberedExtends ==
    ASSUME entries \in Seq(LedgerEntry), NEW line \in LedgerEntry, entries' = Append(entries, line),
           SequenceIsPosition'
    PROVE  Numbered' = Append(Numbered, [id |-> line.id, sequence |-> Len(Numbered) + 1])
<1> PICK n : n = Len(entries)
  OBVIOUS
<1> PICK R : R = [id : Ids \cup {Unnamed}, sequence : Nat]
  OBVIOUS
<1>1. n \in Nat /\ DOMAIN entries = 1 .. n /\ \A k \in 1 .. n : entries[k] \in LedgerEntry
  BY LenProperties
<1>2. /\ DOMAIN entries' = 1 .. n + 1 /\ entries'[n + 1] = line
      /\ \A k \in 1 .. n : entries'[k] = entries[k]
  BY <1>1, AppendGrows
<1>3. line.sequence = n + 1
  BY <1>1, <1>2 DEF SequenceIsPosition
<1> PICK elt : elt = [id |-> line.id, sequence |-> n + 1]
  OBVIOUS
<1>4. elt \in R
  BY <1>1 DEF LedgerEntry
<1>5. Numbered = [k \in 1 .. n |-> [id |-> entries[k].id, sequence |-> entries[k].sequence]]
  BY <1>1 DEF Numbered
<1>6. Numbered \in [1 .. n -> R]
  <2>1. \A k \in 1 .. n : entries[k].id \in Ids \cup {Unnamed} /\ entries[k].sequence \in Nat
    BY <1>1 DEF LedgerEntry
  <2> QED
    BY <1>5, <2>1
<1>7. /\ Len(Numbered) = n
      /\ Append(Numbered, elt) = [k \in 1 .. n + 1 |-> IF k = n + 1 THEN elt ELSE Numbered[k]]
  BY <1>1, <1>4, <1>6, FunctionGrows
<1>8. Numbered' = [k \in 1 .. n + 1 |-> [id |-> entries'[k].id, sequence |-> entries'[k].sequence]]
  BY <1>2 DEF Numbered
<1>9. ASSUME NEW k \in 1 .. n + 1
      PROVE  [id |-> entries'[k].id, sequence |-> entries'[k].sequence]
               = IF k = n + 1 THEN elt ELSE Numbered[k]
  <2>1. k = n + 1 \/ k \in 1 .. n
    BY <1>1
  <2> QED
    BY <1>2, <1>3, <1>5, <2>1
<1>10. Numbered' = Append(Numbered, elt)
  BY <1>7, <1>8, <1>9
<1> QED
  BY <1>7, <1>10

\* An entry without a proposal.
LEMMA RecordStep ==
    ASSUME Sound(entries, Open, proposed), entries \in Seq(LedgerEntry), Unnamed \notin Ids,
           Open \subseteq Proposal,
           NEW line \in LedgerEntry, line.id = Unnamed, entries' = Append(entries, line),
           SequenceIsPosition', proposed' = proposed, Open' = Open
    PROVE  Sound(entries', Open', proposed') /\ Log!Record
<1>1. /\ DOMAIN entries' = DOMAIN entries \cup {Len(entries) + 1}
      /\ Len(entries) + 1 \notin DOMAIN entries
      /\ entries'[Len(entries) + 1] = line /\ \A k \in DOMAIN entries : entries'[k] = entries[k]
  BY AppendGrows
<1>2. \A e \in Open : e.id \in Ids
  BY DEF Proposal
<1>3. Sound(entries', Open', proposed')
  BY <1>1, <1>2 DEF Sound
<1>4. /\ \A k \in DOMAIN entries : entries[k].id \in Ids => k \in DOMAIN entries' /\ entries'[k] = entries[k]
      /\ \A k \in DOMAIN entries' : entries'[k].id \in Ids => k \in DOMAIN entries /\ entries'[k] = entries[k]
  BY <1>1
<1>5. Ballots' = Ballots
  BY <1>3, <1>4, BallotsStay
<1>6. Numbered' = Append(Numbered, [id |-> Unnamed, sequence |-> Len(Numbered) + 1])
  BY NumberedExtends
<1> QED
  BY <1>3, <1>5, <1>6 DEF Log!Record, Log!Extend

\* The line of a proposal that is decided takes it out of the list.
LEMMA CommitStep ==
    ASSUME Sound(entries, Open, proposed), entries \in Seq(LedgerEntry),
           NEW e \in Open, e.id \in Ids,
           NEW line \in LedgerEntry, line.id = e.id, OneVoteMore(e.votes, line.votes),
           entries' = Append(entries, line), SequenceIsPosition', proposed' = proposed,
           Open' = Open \ {e}
    PROVE  /\ Sound(entries', Open', proposed')
           /\ line.votes \in Log!OneMore(e.id) /\ Log!Commit(e.id, line.votes)
<1> PICK i : i = e.id
  OBVIOUS
<1>1. /\ DOMAIN entries' = DOMAIN entries \cup {Len(entries) + 1}
      /\ Len(entries) + 1 \notin DOMAIN entries
      /\ entries'[Len(entries) + 1] = line /\ \A k \in DOMAIN entries : entries'[k] = entries[k]
  BY AppendGrows
<1>2. /\ i \in proposed /\ \A k \in DOMAIN entries : entries[k].id # i
      /\ \A f \in Open' : f.id # i
  BY DEF Sound
<1>3. Sound(entries', Open', proposed')
  <2>1. \A j, k \in DOMAIN entries' : entries'[j].id \in Ids /\ entries'[j].id = entries'[k].id => j = k
    BY <1>1, <1>2 DEF Sound
  <2>2. \A k \in DOMAIN entries' : entries'[k].id \in proposed' \cup {Unnamed}
    BY <1>1, <1>2 DEF Sound
  <2>3. \A f \in Open' : f.id \in proposed' /\ \A k \in DOMAIN entries' : entries'[k].id # f.id
    BY <1>1, <1>2 DEF Sound
  <2> QED
    BY <2>1, <2>2, <2>3 DEF Sound
<1>4. /\ Ballots' = [Ballots EXCEPT ![i] = BallotFrom(entries', Open', proposed', i)]
      /\ Ballots[i] = BallotFrom(entries, Open, proposed, i)
  <2>1. \A k \in DOMAIN entries : entries[k].id # i => k \in DOMAIN entries' /\ entries'[k] = entries[k]
    BY <1>1
  <2>2. \A k \in DOMAIN entries' : entries'[k].id # i => k \in DOMAIN entries /\ entries'[k] = entries[k]
    BY <1>1
  <2>3. \A f : f.id # i => (f \in Open <=> f \in Open')
    OBVIOUS
  <2> QED
    BY <1>3, <2>1, <2>2, <2>3, BallotChanges
<1>5. BallotFrom(entries, Open, proposed, i) = [phase |-> "open", votes |-> e.votes]
  BY OpenBallot
<1>6. BallotFrom(entries', Open', proposed', i) = [phase |-> "committed", votes |-> line.votes]
  <2>1. Len(entries) + 1 \in DOMAIN entries' /\ entries'[Len(entries) + 1].id = i
    BY <1>1
  <2>2. i \in Ids
    OBVIOUS
  <2>3. BallotFrom(entries', Open', proposed', i)
          = [phase |-> "committed", votes |-> entries'[Len(entries) + 1].votes]
    BY <1>3, <2>1, <2>2, CommittedNow
  <2> QED
    BY <1>1, <2>3
<1>7. Numbered' = Append(Numbered, [id |-> i, sequence |-> Len(Numbered) + 1])
  BY NumberedExtends
<1>8. Log!Counted(i, line.votes) /\ line.votes \in Log!OneMore(i)
  BY <1>4, <1>5, CountedVotes
<1> QED
  BY <1>3, <1>4, <1>6, <1>7, <1>8 DEF Log!Commit, Log!Extend

\* The invariant after a step that leaves the only process with o to do.
LEMMA OneWriterAfter ==
    ASSUME NEW w, Procs = {w}, op \in [Procs -> Operation], NEW o, op' = [op EXCEPT ![w] = o],
           Sound(entries', Open', proposed'),
           o.stage \in {"replay", "append"} => Deciding(pending', o)
    PROVE  OneWriterInv'
<1>1. op'[w] = o
  OBVIOUS
<1>2. \A p \in Procs : op'[p].stage \in {"replay", "append"} => Deciding(pending', op'[p])
  BY <1>1
<1>3. \A p \in Procs : (op[p].stage \in {"replay", "append"} => Deciding(pending, op[p]))'
  BY <1>2 DEF Deciding
<1>4. Sound(entries, Open, proposed)'
  OBVIOUS
<1> QED
  BY <1>3, <1>4 DEF OneWriterInv

\* finalizePendingEntryLocked, called by Vote or Finalize: a rejection is
\* decided here, a commitment with its line.
LEMMA FinalizePendingStep ==
    ASSUME NEW w, Procs = {w}, TypeOK, OneWriterInv, op[w].stage = "idle", NEW e \in pending,
           NEW x, x.id = e.id, OneVoteMore(e.votes, x.votes),
           op' = [op EXCEPT ![w] = FinalizePending(x, pending \ {e})],
           UNCHANGED <<entries, pending, proposed>>
    PROVE  OneWriterInv' /\ [Log!Next]_(Log!vars)
<1> PICK o : o = FinalizePending(x, pending \ {e})
  OBVIOUS
<1>1. /\ op \in [Procs -> Operation] /\ op'[w] = o /\ e.id \in Ids
      /\ Sound(entries, Open, proposed) /\ Open = pending
  BY OpenIs DEF TypeOK, Proposal, OneWriterInv
<1>2. CASE Rejected(x)
  <2>1. o.stage = "truncate" /\ o.rest = pending \ {e}
    BY <1>2 DEF FinalizePending, Rewrite
  <2>2. Open' = Open \ {e}
    BY <1>1, <2>1, OpenIs
  <2>3. Sound(entries', Open', proposed') /\ Log!Reject(e.id)
    BY <1>1, <2>2, RejectStep
  <2>4. OneWriterInv'
    BY <1>1, <2>1, <2>3, OneWriterAfter
  <2> QED
    BY <1>1, <2>3, <2>4 DEF Log!Next
<1>3. CASE ~Rejected(x)
  <2>1. /\ o.stage = "replay" /\ o.save /\ o.rest = pending \ {e}
        /\ o.entry.id = x.id /\ o.entry.votes = x.votes
    BY <1>3 DEF FinalizePending, FinalizedEntry
  <2>2. Open' = Open
    BY <1>1, <2>1, OpenIs
  <2>3. Sound(entries', Open', proposed') /\ UNCHANGED <<Numbered, Ballots>>
    BY <1>1, <2>2, Quiet
  <2>4. Deciding(pending', o)
    BY <2>1 DEF Deciding
  <2>5. OneWriterInv'
    BY <1>1, <2>3, <2>4, OneWriterAfter
  <2> QED
    BY <2>3, <2>5 DEF Log!vars
<1> QED
  BY <1>2, <1>3

\* Vote casts a vote, or casts it and decides.
LEMMA VoteStep ==
    ASSUME NEW w, Procs = {w}, TypeOK, OneWriterInv,
           NEW e \in pending, NEW v \in Voters, NEW approved \in BOOLEAN, Vote(w, e, v, approved)
    PROVE  OneWriterInv' /\ [Log!Next]_(Log!vars)
<1> PICK votes : votes = Append(e.votes, [voter |-> v, approved |-> approved])
  OBVIOUS
<1> PICK voted : voted = [e EXCEPT !.votes = votes]
  OBVIOUS
<1>1. /\ op \in [Procs -> Operation] /\ e.id \in Ids /\ op[w].stage = "idle"
      /\ Sound(entries, Open, proposed) /\ Open = pending
  BY OpenIs DEF TypeOK, Proposal, OneWriterInv, Vote, Begin
<1>2. voted.id = e.id /\ voted.votes = votes
  BY DEF TypeOK, Proposal
<1>3. OneVoteMore(e.votes, voted.votes)
  BY <1>2 DEF OneVoteMore, Vote, HasVoted
<1>4. /\ op' = [op EXCEPT ![w] = IF e.req.auto /\ Finalizable(voted)
                                 THEN FinalizePending(voted, pending \ {e})
                                 ELSE Rewrite((pending \ {e}) \cup {voted})]
      /\ UNCHANGED <<entries, pending, proposed>>
  BY DEF Vote, Begin
<1>5. CASE e.req.auto /\ Finalizable(voted)
  BY <1>1, <1>2, <1>3, <1>4, <1>5, FinalizePendingStep
<1>6. CASE ~(e.req.auto /\ Finalizable(voted))
  <2> PICK o : o = Rewrite((pending \ {e}) \cup {voted})
    OBVIOUS
  <2>1. op' = [op EXCEPT ![w] = o] /\ op'[w] = o
    BY <1>1, <1>4, <1>6
  <2>2. o.stage = "truncate" /\ o.rest = (pending \ {e}) \cup {voted}
    BY DEF Rewrite
  <2>3. Open' = (Open \ {e}) \cup {voted}
    BY <1>1, <2>1, <2>2, OpenIs
  <2>4. /\ Sound(entries', Open', proposed')
        /\ voted.votes \in Log!OneMore(e.id) /\ Log!Cast(e.id, voted.votes)
    BY <1>1, <1>2, <1>3, <1>4, <2>3, CastStep
  <2>5. OneWriterInv'
    BY <1>1, <2>1, <2>2, <2>4, OneWriterAfter
  <2> QED
    BY <1>1, <2>4, <2>5 DEF Log!Next
<1> QED
  BY <1>5, <1>6

\* Propose opens a ballot.
LEMMA ProposeStep ==
    ASSUME NEW w, Procs = {w}, TypeOK, OneWriterInv,
           NEW i \in Ids, NEW req \in Requirements, Propose(w, i, req)
    PROVE  OneWriterInv' /\ [Log!Next]_(Log!vars)
<1> PICK e : e = [id |-> i, req |-> req, votes |-> << >>]
  OBVIOUS
<1> PICK o : o = Rewrite(pending \cup {e})
  OBVIOUS
<1>1. /\ op \in [Procs -> Operation] /\ op[w].stage = "idle" /\ i \notin proposed
      /\ Sound(entries, Open, proposed) /\ Open = pending
  BY OpenIs DEF TypeOK, OneWriterInv, Propose, Begin
<1>2. /\ op' = [op EXCEPT ![w] = o] /\ op'[w] = o
      /\ entries' = entries /\ proposed' = proposed \cup {i}
  BY <1>1 DEF Propose, Begin
<1>3. o.stage = "truncate" /\ o.rest = pending \cup {e}
  BY DEF Rewrite
<1>4. Open' = Open \cup {e}
  BY <1>1, <1>2, <1>3, OpenIs
<1>5. Sound(entries', Open', proposed') /\ Log!Open(i)
  BY <1>1, <1>2, <1>4, ConstantsAssumption, OpenStep
<1>6. OneWriterInv'
  BY <1>1, <1>2, <1>3, <1>5, OneWriterAfter
<1> QED
  BY <1>5, <1>6 DEF Log!Next

\* A step that moves neither the lines nor the list.
LEMMA QuietStep ==
    ASSUME NEW w, Procs = {w}, TypeOK, OneWriterInv, NEW o, op' = [op EXCEPT ![w] = o],
           UNCHANGED <<entries, proposed>>, Open' = Open,
           o.stage \in {"replay", "append"} => Deciding(pending', o)
    PROVE  OneWriterInv' /\ [Log!Next]_(Log!vars)
<1>1. op \in [Procs -> Operation] /\ Sound(entries, Open, proposed)
  BY DEF TypeOK, OneWriterInv
<1>2. Sound(entries', Open', proposed') /\ UNCHANGED <<Numbered, Ballots>>
  BY <1>1, Quiet
<1>3. OneWriterInv'
  BY <1>1, <1>2, OneWriterAfter
<1> QED
  BY <1>2, <1>3 DEF Log!vars

\* appendEntry's line is a record, or the commitment of a proposal.
LEMMA AppendLineStep ==
    ASSUME NEW w, Procs = {w}, TypeOK, OneWriterInv, SequenceIsPosition', AppendLine(w)
    PROVE  OneWriterInv' /\ [Log!Next]_(Log!vars)
<1> PICK line : line = op[w].entry
  OBVIOUS
<1> PICK o : o = IF op[w].save THEN [op[w] EXCEPT !.stage = "truncate"] ELSE Idle
  OBVIOUS
<1>1. /\ op \in [Procs -> Operation] /\ op[w] \in Operation /\ op[w].stage = "append"
      /\ line \in LedgerEntry /\ entries \in Seq(LedgerEntry) /\ pending \subseteq Proposal
      /\ Sound(entries, Open, proposed) /\ Open = pending /\ Deciding(pending, op[w])
  BY OpenIs DEF TypeOK, OneWriterInv, Operation, AppendLine
<1>2. /\ op' = [op EXCEPT ![w] = o] /\ op'[w] = o
      /\ entries' = Append(entries, line) /\ pending' = pending /\ proposed' = proposed
  BY <1>1 DEF AppendLine
<1>3. CASE line.id = Unnamed /\ ~op[w].save
  <2>1. o.stage = "idle"
    BY <1>3 DEF Idle
  <2>2. Open' = Open
    BY <1>1, <1>2, <2>1, OpenIs
  <2>3. Sound(entries', Open', proposed') /\ Log!Record
    BY <1>1, <1>2, <1>3, <2>2, ConstantsAssumption, RecordStep
  <2>4. OneWriterInv'
    BY <1>1, <1>2, <2>1, <2>3, OneWriterAfter
  <2> QED
    BY <2>3, <2>4 DEF Log!Next
<1>4. ASSUME NEW e \in pending, line.id = e.id, op[w].rest = pending \ {e}, op[w].save,
             OneVoteMore(e.votes, line.votes)
      PROVE  OneWriterInv' /\ [Log!Next]_(Log!vars)
  <2>1. o.stage = "truncate" /\ o.rest = op[w].rest
    BY <1>1, <1>4 DEF Operation
  <2>2. Open' = Open \ {e}
    BY <1>1, <1>2, <1>4, <2>1, OpenIs
  <2>3. e \in Open /\ e.id \in Ids
    BY <1>1, <1>4 DEF Proposal
  <2>4. /\ Sound(entries', Open', proposed')
        /\ line.votes \in Log!OneMore(e.id) /\ Log!Commit(e.id, line.votes)
    BY <1>1, <1>2, <1>4, <2>2, <2>3, CommitStep
  <2>5. OneWriterInv'
    BY <1>1, <1>2, <2>1, <2>4, OneWriterAfter
  <2> QED
    BY <2>3, <2>4, <2>5 DEF Log!Next
<1> QED
  BY <1>1, <1>3, <1>4 DEF Deciding

\* Every step is a step of LedgerLog or a stutter.
LEMMA OneWriterNext ==
    ASSUME NEW w, Procs = {w}, MaxFaults = 0, TypeOK, OneWriterInv, SequenceIsPosition', [Next]_vars
    PROVE  OneWriterInv' /\ [Log!Next]_(Log!vars)
<1>0. /\ op \in [Procs -> Operation] /\ op[w] \in Operation /\ faults \in 0 .. 0
      /\ op[w].stage \in {"replay", "append"} => Deciding(pending, op[w])
  BY DEF TypeOK, OneWriterInv
<1>1. ASSUME NEW accepted \in BOOLEAN, NEW req \in Requirements, AppendEntry(w, accepted, req)
      PROVE  OneWriterInv' /\ [Log!Next]_(Log!vars)
  <2> PICK o : o = [stage |-> "replay",
                    entry |-> [id |-> Unnamed, sequence |-> 0,
                               status |-> DerivedStatus(accepted, req),
                               req |-> req, votes |-> << >>],
                    save |-> FALSE, rest |-> {}]
    OBVIOUS
  <2>1. /\ op[w].stage = "idle" /\ op' = [op EXCEPT ![w] = o] /\ op'[w] = o
        /\ UNCHANGED <<entries, pending, proposed>>
    BY <1>0, <1>1 DEF AppendEntry, Begin
  <2>2. o.stage = "replay" /\ Deciding(pending', o)
    BY DEF Deciding
  <2>3. Open' = Open
    BY <2>1, <2>2, OpenIs
  <2> QED
    BY <2>1, <2>2, <2>3, QuietStep
<1>2. ASSUME NEW e \in pending, Finalize(w, e)
      PROVE  OneWriterInv' /\ [Log!Next]_(Log!vars)
  <2>1. OneVoteMore(e.votes, e.votes)
    BY DEF OneVoteMore
  <2> QED
    BY <1>2, <2>1, FinalizePendingStep DEF Finalize, Begin
<1>3. CASE ReplayLines(w)
  <2> PICK o : o = [op[w] EXCEPT !.stage = "append", !.entry = [op[w].entry EXCEPT !.sequence = Len(entries) + 1]]
    OBVIOUS
  <2>1. /\ op[w].stage = "replay" /\ op' = [op EXCEPT ![w] = o] /\ op'[w] = o
        /\ UNCHANGED <<entries, pending, proposed>>
    BY <1>0, <1>3 DEF ReplayLines, Operation
  <2>2. /\ o.stage = "append" /\ o.save = op[w].save /\ o.rest = op[w].rest
        /\ o.entry.id = op[w].entry.id /\ o.entry.votes = op[w].entry.votes
    BY <1>0 DEF Operation, LedgerEntry
  <2>3. Open' = Open
    BY <2>1, <2>2, OpenIs
  <2>4. Deciding(pending', o)
    BY <1>0, <2>1, <2>2 DEF Deciding
  <2> QED
    BY <2>1, <2>3, <2>4, QuietStep
<1>4. CASE TruncatePending(w)
  <2> PICK o : o = [op[w] EXCEPT !.stage = "write"]
    OBVIOUS
  <2>1. /\ op[w].stage = "truncate" /\ op' = [op EXCEPT ![w] = o] /\ op'[w] = o
        /\ UNCHANGED <<entries, proposed>>
    BY <1>0, <1>4 DEF TruncatePending
  <2>2. o.stage = "write" /\ o.rest = op[w].rest
    BY <1>0 DEF Operation
  <2>3. Open' = Open
    BY <2>1, <2>2, OpenIs
  <2> QED
    BY <2>1, <2>2, <2>3, QuietStep
<1>5. CASE WritePending(w)
  <2>1. /\ op[w].stage = "write" /\ op' = [op EXCEPT ![w] = Idle] /\ op'[w] = Idle
        /\ UNCHANGED <<entries, proposed>> /\ pending' = op[w].rest
    BY <1>0, <1>5 DEF WritePending
  <2>2. Idle.stage = "idle"
    BY DEF Idle
  <2>3. Open' = Open
    BY <2>1, <2>2, OpenIs
  <2> QED
    BY <2>1, <2>2, <2>3, QuietStep
<1>6. ~Fail(w)
  BY <1>0 DEF Fail
<1>7. CASE UNCHANGED vars
  <2>1. UNCHANGED <<entries, pending, op, proposed>>
    BY <1>7 DEF vars
  <2>2. op' = [op EXCEPT ![w] = op[w]] /\ Open' = Open
    BY <1>0, <2>1, OpenIs
  <2> QED
    BY <1>0, <2>1, <2>2, QuietStep
<1> QED
  BY <1>1, <1>2, <1>3, <1>4, <1>5, <1>6, <1>7, ProposeStep, VoteStep, AppendLineStep DEF Next

\* One process that meets no error: what the files say is a log numbered from 1
\* and a ballot per proposal that is opened once, counts one vote of a voter
\* and is decided once, for any number of proposals, voters and entries.
THEOREM OneWriterRefines ==
    ASSUME NEW w, Procs = {w}, MaxFaults = 0
    PROVE  Spec => ImplementsLog
<1>1. Init => OneWriterInv /\ Log!Init
  <2> SUFFICES ASSUME Init PROVE OneWriterInv /\ Log!Init
    OBVIOUS
  <2>1. entries = << >> /\ DOMAIN entries = {} /\ pending = {} /\ proposed = {} /\ op[w] = Idle
    BY DEF Init
  <2>2. Open = {}
    BY <2>1, OpenIs DEF Idle
  <2>3. OneWriterInv
    BY <2>1, <2>2 DEF OneWriterInv, Sound, Idle
  <2>4. Numbered = << >>
    BY <2>1 DEF Numbered
  <2>5. Ballots = [i \in Ids |-> [phase |-> "absent", votes |-> << >>]]
    <3>1. \A i \in Ids : BallotFrom(entries, Open, proposed, i) = [phase |-> "absent", votes |-> << >>]
      BY <2>1, <2>2, NoBallot
    <3> QED
      BY <3>1, BallotsAre
  <2> QED
    BY <2>3, <2>4, <2>5 DEF Log!Init
<1>2. TypeOK /\ OneWriterInv /\ SequenceIsPosition' /\ [Next]_vars
        => OneWriterInv' /\ [Log!Next]_(Log!vars)
  BY OneWriterNext
<1>3. Spec => []SequenceIsPosition
  BY OneWriterSequence
<1> QED
  BY <1>1, <1>2, <1>3, TypeCorrect, PTL DEF Spec, ImplementsLog, Log!Spec
=============================================================================
