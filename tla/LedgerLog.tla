----------------------------- MODULE LedgerLog ------------------------------
(***************************************************************************)
(* What the ledger promises to its users when one process writes it: a log *)
(* whose sequence numbers are 1, 2, 3, ..., and a ballot per proposal that *)
(* is opened once, loses no vote, takes one vote per voter, and is decided *)
(* once, by one log entry or by a rejection that leaves none.              *)
(***************************************************************************)
EXTENDS Naturals, Sequences

CONSTANTS Ids, Unnamed, Voters

VARIABLES
    log,      \* the replay: IDs and sequence numbers
    ballot    \* ballot[i]: the phase of proposal i and the votes it counts

vars == <<log, ballot>>

Phases == {"absent", "open", "committed", "rejected"}

Init ==
    /\ log = << >>
    /\ ballot = [i \in Ids |-> [phase |-> "absent", votes |-> << >>]]

Extend(id) == log' = Append(log, [id |-> id, sequence |-> Len(log) + 1])

Record == Extend(Unnamed) /\ UNCHANGED ballot

Open(i) ==
    /\ ballot[i].phase = "absent"
    /\ ballot' = [ballot EXCEPT ![i].phase = "open"]
    /\ UNCHANGED log

\* The votes of an open ballot, with at most one vote more, of a new voter.
Counted(i, votes) ==
    /\ ballot[i].phase = "open"
    /\ \/ votes = ballot[i].votes
       \/ \E v \in Voters, approved \in BOOLEAN :
            /\ \A k \in DOMAIN ballot[i].votes : ballot[i].votes[k].voter # v
            /\ votes = Append(ballot[i].votes, [voter |-> v, approved |-> approved])

Cast(i, votes) ==
    /\ Counted(i, votes)
    /\ ballot' = [ballot EXCEPT ![i].votes = votes]
    /\ UNCHANGED log

Commit(i, votes) ==
    /\ Counted(i, votes)
    /\ ballot' = [ballot EXCEPT ![i] = [phase |-> "committed", votes |-> votes]]
    /\ Extend(i)

Reject(i) ==
    /\ ballot[i].phase = "open"
    /\ ballot' = [ballot EXCEPT ![i] = [phase |-> "rejected", votes |-> << >>]]
    /\ UNCHANGED log

\* The vote lists a step may leave behind.
OneMore(i) ==
    {ballot[i].votes} \cup
    {Append(ballot[i].votes, [voter |-> v, approved |-> approved]) :
        v \in Voters, approved \in BOOLEAN}

Next ==
    \/ Record
    \/ \E i \in Ids :
        \/ Open(i)
        \/ \E votes \in OneMore(i) : Cast(i, votes) \/ Commit(i, votes)
        \/ Reject(i)

Spec == Init /\ [][Next]_vars
=============================================================================
