----------------------------- MODULE KeyLedger -----------------------------
(***************************************************************************)
(* What an idempotency key promises to a client of the write API           *)
(* (arda_data_180, lib/api/idempotency.ts): whatever is retried, reordered *)
(* or repeated, a key makes at most one resource, and every success that   *)
(* is answered under the key names that resource.                          *)
(***************************************************************************)
CONSTANTS Key, Resource

VARIABLES
    made,   \* the <<key, resource>> pairs that have come into being
    told    \* the <<key, resource>> pairs that clients have been answered

Make(k, r) ==
    /\ \A m \in made : m[1] # k /\ m[2] # r
    /\ made' = made \cup {<<k, r>>}
    /\ told' \in {told, told \cup {<<k, r>>}}

Tell(k, r) ==
    /\ <<k, r>> \in made
    /\ told' = told \cup {<<k, r>>}
    /\ UNCHANGED made

Init == made = {} /\ told = {}
Next == \E k \in Key, r \in Resource : Make(k, r) \/ Tell(k, r)
Spec == Init /\ [][Next]_<<made, told>>
============================================================================
