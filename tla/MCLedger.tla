------------------------------ MODULE MCLedger ------------------------------
(* Instances of Ledger for TLC. *)
EXTENDS LedgerOneWriter

CONSTANTS a, b, outsider, i1, i2

MCVoters == {a, b}
AllVoters == {a, b, outsider}
MCIds == {i1, i2}
OneId == {i1}

Quorum(required, auto) ==
    [strategy |-> "quorum", required |-> required, eligible |-> {a, b}, auto |-> auto]

\* Two of two eligible voters, decided by Finalize or by the last vote.
MCRequirements == {Quorum(2, FALSE), Quorum(2, TRUE)}

\* With the requirement an entry of the other callers carries: none.
AllRequirements == MCRequirements \cup {NoConsensus}
=============================================================================
