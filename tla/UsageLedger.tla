---------------------------- MODULE UsageLedger ----------------------------
(***************************************************************************)
(* What the usage buffer promises to the platform and to the workspace     *)
(* (usage/buffer.ts, usage/flush.ts): whatever is retried, lost, repeated  *)
(* or erased, only usage that was recorded is ever reported, under one     *)
(* outcome per row, and a row that is marked as reported has an outcome    *)
(* and is never again due.                                                 *)
(***************************************************************************)
CONSTANT Row

VARIABLES
    stage,    \* of each row: absent, pending, flushed or deleted
    settled   \* the platform's outcome for the key of each row

Init ==
    /\ stage = [r \in Row |-> "absent"]
    /\ settled = [r \in Row |-> "no"]

RecordRow(r) ==
    /\ stage[r] = "absent"
    /\ stage' = [stage EXCEPT ![r] = "pending"]
    /\ UNCHANGED settled

\* The platform consumes or refuses; a row may have been erased under a report on its way.
SettleRow(r) ==
    /\ stage[r] # "absent" /\ settled[r] = "no"
    /\ \E outcome \in {"consumed", "refused"} : settled' = [settled EXCEPT ![r] = outcome]
    /\ UNCHANGED stage

MarkRow(r) ==
    /\ stage[r] = "pending" /\ settled[r] # "no"
    /\ stage' = [stage EXCEPT ![r] = "flushed"]
    /\ UNCHANGED settled

EraseRows ==
    /\ stage' = [r \in Row |-> IF stage[r] = "absent" THEN "absent" ELSE "deleted"]
    /\ UNCHANGED settled

Next ==
    \/ \E r \in Row : RecordRow(r) \/ SettleRow(r) \/ MarkRow(r)
    \/ EraseRows
Spec == Init /\ [][Next]_<<stage, settled>>
============================================================================
