--------------------------- MODULE LedgerOneWriter --------------------------
(***************************************************************************)
(* With one process on the ledger directory and no fault, Ledger           *)
(* implements LedgerLog.  The mapping reads pending.json through the       *)
(* rewrite under way: once Vote, Propose or Finalize reaches its rewrite,  *)
(* the list it is about to write is the list every later call will see.    *)
(***************************************************************************)
EXTENDS Ledger

Rewriting == {p \in Procs : op[p].stage \in {"truncate", "write"}}

\* pending.json as the next operation will find it.
Open == IF Rewriting = {} THEN pending ELSE op[CHOOSE p \in Rewriting : TRUE].rest

Committed(i) == {k \in DOMAIN entries : entries[k].id = i}

Numbered == [k \in DOMAIN entries |-> [id |-> entries[k].id, sequence |-> entries[k].sequence]]

BallotOf(i) ==
    IF Committed(i) # {}
    THEN [phase |-> "committed",
          votes |-> entries[CHOOSE k \in Committed(i) : TRUE].votes]
    ELSE IF \E e \in Open : e.id = i
    THEN [phase |-> "open", votes |-> (CHOOSE e \in Open : e.id = i).votes]
    ELSE [phase |-> IF i \in proposed THEN "rejected" ELSE "absent", votes |-> << >>]

Ballots == [i \in Ids |-> BallotOf(i)]

Log == INSTANCE LedgerLog WITH
    Ids <- Ids, Unnamed <- Unnamed, Voters <- Voters,
    log <- Numbered, ballot <- Ballots

\* One writer, no fault: the files behave as the log and the ballots of
\* LedgerLog.  No vote is lost between two rewrites of pending.json, no
\* proposal is decided twice or reopened, and a rejection leaves no entry.
ImplementsLog == Log!Spec
=============================================================================
