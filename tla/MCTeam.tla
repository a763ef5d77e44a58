------------------------------- MODULE MCTeam -------------------------------
(* Team with two workers that are spawned under one name, one of them by the *)
(* bootstrap tool. *)
EXTENDS Team

CONSTANTS v, w, n

MCNameOf == [x \in {v, w} |-> n]
MCRows == [x \in {v, w} |-> IF x = v THEN 2 ELSE 1]
MCKinds ==
    [a \in Agents |->
        CASE a = Lead -> {"send", "add", "spawn", "wait"}
          [] a = v -> {"send", "move", "accept", "wait"}
          [] a = w -> {"create", "board", "wait"}]
=============================================================================
