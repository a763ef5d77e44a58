----------------------------- MODULE MCEventBus -----------------------------
(* An instance of EventBus for TLC: two subscribers of an organization's    *)
(* channel; one publisher publishes twice, another once.                    *)
EXTENDS EventBus

CONSTANTS org, s1, s2, q1, q2

MCSubs == {s1, s2}
MCChannelOf == [s \in MCSubs |-> org]
MCPublishers == {q1, q2}
MCMaxSignals == [p \in MCPublishers |-> IF p = q1 THEN 2 ELSE 1]
=============================================================================
