------------------------------- MODULE Ledger -------------------------------
(***************************************************************************)
(* LedgerService (internal/agency/ledger.go): the append-only file         *)
(* entries.jsonl and the rewritten-whole file pending.json, which holds    *)
(* the proposals that still collect votes.                                 *)
(*                                                                         *)
(* Every operating-system process (office service, runtime daemon, actor   *)
(* daemons, IPC server) opens a LedgerService of its own on the same       *)
(* directory.  Its mutex serialises the operations of ONE process, so a    *)
(* process has at most one operation under way; operations of different    *)
(* processes interleave at every file access.  A process may die, or a     *)
(* file operation fail, between any two accesses (Fail).                   *)
(*                                                                         *)
(* Abstracted: the payload of an entry (signal, action, snapshot), times,  *)
(* hashes and certificates, and the order of pending.json, whose elements  *)
(* have distinct IDs because Propose draws a uuid when it is given none,   *)
(* as every caller does.                                                   *)
(***************************************************************************)
EXTENDS Integers, Sequences, FiniteSets

CONSTANTS
    Procs,          \* processes that opened the ledger directory
    Ids,            \* proposal IDs (uuids)
    Unnamed,        \* the ID of an entry appended without a proposal
    Voters,         \* voter IDs, eligible or not
    Requirements,   \* the ConsensusRequirements callers attach
    MaxEntries,     \* bound: no operation starts that could exceed this length
    MaxFaults       \* bound: crashes and I/O errors in one behaviour

\* types.go:ConsensusRequirement; the QuorumKey names the quorum and is not used.
ConsensusRequirement ==
    [strategy : {"direct", "quorum"}, required : Nat,
     eligible : SUBSET Voters, auto : BOOLEAN]

\* A nil Consensus: buildQuorumState leaves RequiredApprovals at 0.
NoConsensus ==
    [strategy |-> "none", required |-> 0, eligible |-> {}, auto |-> FALSE]

AnyRequirement == ConsensusRequirement \cup {NoConsensus}

ConsensusVote == [voter : Voters, approved : BOOLEAN]

\* An element of pending.json.
Proposal == [id : Ids, req : AnyRequirement, votes : Seq(ConsensusVote)]

LedgerEntryStatus == {"pending", "finalized", "rejected"}

LedgerEntry ==
    [id : Ids \cup {Unnamed}, sequence : Nat, status : LedgerEntryStatus,
     req : AnyRequirement, votes : Seq(ConsensusVote)]

ASSUME ConstantsAssumption ==
    /\ Requirements \subseteq AnyRequirement
    /\ \A r \in Requirements : IsFiniteSet(r.eligible)
    /\ Unnamed \notin Ids
    /\ MaxEntries \in Nat
    /\ MaxFaults \in Nat

VARIABLES
    entries,    \* entries.jsonl, one record per line
    pending,    \* pending.json
    op,         \* op[p]: the operation process p has under way
    proposed,   \* history: IDs drawn so far, so that a new uuid is fresh
    faults      \* history: number of Fail steps, bounded by MaxFaults

vars == <<entries, pending, op, proposed, faults>>

-----------------------------------------------------------------------------
(* The vote counts of buildQuorumState, from the votes and the requirement. *)

Approvals(votes)  == Cardinality({k \in DOMAIN votes : votes[k].approved})
Rejections(votes) == Cardinality({k \in DOMAIN votes : ~votes[k].approved})

RemainingVoters(e) ==
    IF Cardinality(e.req.eligible) > Len(e.votes)
    THEN Cardinality(e.req.eligible) - Len(e.votes)
    ELSE 0

Rejected(e) ==
    /\ Rejections(e.votes) > 0
    /\ Approvals(e.votes) + RemainingVoters(e) < e.req.required

Finalizable(e) == Approvals(e.votes) >= e.req.required \/ Rejected(e)

\* Mutant of HasVoted: Vote without the loop over the earlier votes.
NeverVoted(e, v) == FALSE

HasVoted(e, v) == \E k \in DOMAIN e.votes : e.votes[k].voter = v

\* deriveEntryStatus: the status of an entry appended without a proposal.
DerivedStatus(accepted, req) ==
    IF ~accepted THEN "rejected"
    ELSE IF req.strategy = "quorum" THEN "pending" ELSE "finalized"

-----------------------------------------------------------------------------
(* The operation a process has under way is the rest of a method body:     *)
(* stage says which file access is next, entry is the line to append,      *)
(* save says whether pending.json is to be rewritten with rest.            *)

Stages == {"idle", "replay", "append", "truncate", "write"}

NoEntry ==
    [id |-> Unnamed, sequence |-> 0, status |-> "pending",
     req |-> NoConsensus, votes |-> << >>]

Idle == [stage |-> "idle", entry |-> NoEntry, save |-> FALSE, rest |-> {}]

Operation ==
    [stage : Stages, entry : LedgerEntry, save : BOOLEAN, rest : SUBSET Proposal]

FinalizedEntry(e) ==
    [id |-> e.id, sequence |-> 0, status |-> "finalized",
     req |-> e.req, votes |-> e.votes]

\* Rewrite pending.json with rest and append nothing.
Rewrite(rest) ==
    [stage |-> "truncate", entry |-> NoEntry, save |-> TRUE, rest |-> rest]

\* Mutant of FinalizePending: the proposal is not filtered out of pending.json.
FinalizeAndKeep(e, rest) ==
    IF Rejected(e)
    THEN Rewrite(rest)
    ELSE [stage |-> "replay", entry |-> FinalizedEntry(e),
          save |-> TRUE, rest |-> rest \cup {e}]

\* finalizePendingEntryLocked: a rejected proposal leaves pending.json without
\* a ledger entry; any other is appended first and removed afterwards.
FinalizePending(e, rest) ==
    IF Rejected(e)
    THEN Rewrite(rest)
    ELSE [stage |-> "replay", entry |-> FinalizedEntry(e),
          save |-> TRUE, rest |-> rest]

-----------------------------------------------------------------------------
Init ==
    /\ entries = << >>
    /\ pending = {}
    /\ op = [p \in Procs |-> Idle]
    /\ proposed = {}
    /\ faults = 0

Begin(p, o) ==
    /\ op[p].stage = "idle"
    /\ op' = [op EXCEPT ![p] = o]
    /\ UNCHANGED <<entries, pending, faults>>

\* Append (and AppendSignal, AppendSnapshot, AppendSchedule, AppendVoiceEvent,
\* which end in it): lock, replay, append with the next sequence number.
\* accepted is FALSE for an entry that carries a rejecting KernelDecision.
AppendEntry(p, accepted, req) ==
    /\ Len(entries) < MaxEntries
    /\ Begin(p, [stage |-> "replay",
                 entry |-> [id |-> Unnamed, sequence |-> 0,
                            status |-> DerivedStatus(accepted, req),
                            req |-> req, votes |-> << >>],
                 save |-> FALSE, rest |-> {}])
    /\ UNCHANGED proposed

\* Propose: read pending.json, add the proposal under a fresh ID, rewrite it.
Propose(p, i, req) ==
    /\ i \notin proposed
    /\ proposed' = proposed \cup {i}
    /\ Begin(p, Rewrite(pending \cup {[id |-> i, req |-> req, votes |-> << >>]}))

\* Mutant of Vote: the quorum is looked at before the vote is added.
VoteOnStaleQuorum(p, e, v, approved) ==
    /\ e \in pending
    /\ ~HasVoted(e, v)
    /\ Len(entries) < MaxEntries
    /\ LET voted  == [e EXCEPT !.votes = Append(@, [voter |-> v, approved |-> approved])]
           others == pending \ {e}
       IN Begin(p, IF e.req.auto /\ Finalizable(e)
                   THEN FinalizePending(voted, others)
                   ELSE Rewrite(others \cup {voted}))
    /\ UNCHANGED proposed

\* Vote: an unknown ID and a second vote of one voter return an error and
\* change nothing; nothing asks whether the voter is eligible.
Vote(p, e, v, approved) ==
    /\ e \in pending
    /\ ~HasVoted(e, v)
    /\ Len(entries) < MaxEntries
    /\ LET voted  == [e EXCEPT !.votes = Append(@, [voter |-> v, approved |-> approved])]
           others == pending \ {e}
       IN Begin(p, IF e.req.auto /\ Finalizable(voted)
                   THEN FinalizePending(voted, others)
                   ELSE Rewrite(others \cup {voted}))
    /\ UNCHANGED proposed

\* Finalize: refuses a proposal that is not finalizable.
Finalize(p, e) ==
    /\ e \in pending
    /\ Finalizable(e)
    /\ Len(entries) < MaxEntries
    /\ Begin(p, FinalizePending(e, pending \ {e}))
    /\ UNCHANGED proposed

\* Mutant of ReplayLines: the sequence of the line before the last one.
ReplayOffByTwo(p) ==
    /\ op[p].stage = "replay"
    /\ op' = [op EXCEPT ![p].stage = "append",
                        ![p].entry.sequence = Len(entries) - 1]
    /\ UNCHANGED <<entries, pending, proposed, faults>>

\* replayLocked: the number of lines now in entries.jsonl gives the sequence.
ReplayLines(p) ==
    /\ op[p].stage = "replay"
    /\ op' = [op EXCEPT ![p].stage = "append",
                        ![p].entry.sequence = Len(entries) + 1]
    /\ UNCHANGED <<entries, pending, proposed, faults>>

\* Mutant of AppendLine: entries.jsonl opened with O_TRUNC.
WriteLine(p) ==
    /\ op[p].stage = "append"
    /\ entries' = <<op[p].entry>>
    /\ op' = [op EXCEPT ![p] = IF op[p].save
                               THEN [op[p] EXCEPT !.stage = "truncate"] ELSE Idle]
    /\ UNCHANGED <<pending, proposed, faults>>

\* appendLocked: one O_APPEND write of one line.
AppendLine(p) ==
    /\ op[p].stage = "append"
    /\ entries' = Append(entries, op[p].entry)
    /\ op' = [op EXCEPT ![p] = IF op[p].save
                               THEN [op[p] EXCEPT !.stage = "truncate"] ELSE Idle]
    /\ UNCHANGED <<pending, proposed, faults>>

\* writePendingLocked: os.WriteFile opens with O_TRUNC, then writes.  Between
\* the two an empty file is read as an empty list (readPendingLocked).
TruncatePending(p) ==
    /\ op[p].stage = "truncate"
    /\ pending' = {}
    /\ op' = [op EXCEPT ![p].stage = "write"]
    /\ UNCHANGED <<entries, proposed, faults>>

WritePending(p) ==
    /\ op[p].stage = "write"
    /\ pending' = op[p].rest
    /\ op' = [op EXCEPT ![p] = Idle]
    /\ UNCHANGED <<entries, proposed, faults>>

\* The process dies and is started again (NewLedgerService keeps existing
\* files), or the next file access returns an error and the method returns.
Fail(p) ==
    /\ op[p].stage # "idle"
    /\ faults < MaxFaults
    /\ faults' = faults + 1
    /\ op' = [op EXCEPT ![p] = Idle]
    /\ UNCHANGED <<entries, pending, proposed>>

Next ==
    \E p \in Procs :
        \/ \E accepted \in BOOLEAN, req \in Requirements : AppendEntry(p, accepted, req)
        \/ \E i \in Ids, req \in Requirements : Propose(p, i, req)
        \/ \E e \in pending, v \in Voters, approved \in BOOLEAN : Vote(p, e, v, approved)
        \/ \E e \in pending : Finalize(p, e)
        \/ ReplayLines(p)
        \/ AppendLine(p)
        \/ TruncatePending(p)
        \/ WritePending(p)
        \/ Fail(p)

Spec == Init /\ [][Next]_vars

-----------------------------------------------------------------------------
(* Properties *)

\* The files and the operations under way have the shapes of types.go.
TypeOK ==
    /\ entries \in Seq(LedgerEntry)
    /\ pending \in SUBSET Proposal
    /\ op \in [Procs -> Operation]
    /\ proposed \subseteq Ids
    /\ faults \in 0..MaxFaults

Approvers(votes) ==
    {votes[k].voter : k \in {j \in DOMAIN votes : votes[j].approved}}

QuorumReached(e) == Cardinality(Approvers(e.votes)) >= e.req.required

\* A finalized entry under a quorum requirement has the required number of
\* approvals, each of a DIFFERENT voter: whatever other processes rewrite
\* pending.json with, and wherever Vote, Finalize or Append is cut short, no
\* quorum entry is finalized short of its quorum or on one voter's two votes.
QuorumBacked ==
    \A k \in DOMAIN entries :
        (entries[k].status = "finalized" /\ entries[k].req.strategy = "quorum")
            => QuorumReached(entries[k])

\* Vote decides an AutoFinalize proposal in the call that makes it decidable:
\* no voted-on proposal in pending.json, nor in what a process is about to
\* write there, is both AutoFinalize and finalizable, so none waits for a
\* Finalize that nobody will send.
OnFile == pending \cup UNION {op[p].rest : p \in Procs}

AutoFinalizeDecides ==
    \A e \in OnFile : (e.req.auto /\ e.votes # << >>) => ~Finalizable(e)

\* entries.jsonl only grows, one line at a time, and no line is ever changed:
\* neither a crash nor a process appending at the same time undoes an entry.
AppendOnlyStep ==
    \/ entries' = entries
    \/ /\ Len(entries') = Len(entries) + 1
       /\ \A k \in DOMAIN entries : entries'[k] = entries[k]

AppendOnly == [][AppendOnlyStep]_vars

\* The sequence number an entry carries is its place in the ledger, which is
\* what LatestSnapshot reports as LedgerSequence.  Append computes it from a
\* replay made before the write, so this is a promise about one writer only.
SequenceIsPosition ==
    \A k \in DOMAIN entries : entries[k].sequence = k

\* AGENCY_BLUEPRINT.md:118 calls a quorum "N of M eligible voters": the
\* approvals that finalize a quorum entry come from its EligibleVoters.
EligibleVotersDecide ==
    \A k \in DOMAIN entries :
        (entries[k].status = "finalized" /\ entries[k].req.strategy = "quorum")
            => Cardinality(Approvers(entries[k].votes) \cap entries[k].req.eligible)
                 >= entries[k].req.required
=============================================================================
