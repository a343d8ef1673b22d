------------------------------ MODULE Gateway -------------------------------
(***************************************************************************)
(* The external gateway of a data service (api/services/[serviceId]) and   *)
(* the settings it obeys: API keys ((app)/apikeys/actions.ts), the access  *)
(* level and the masking rules ((app)/security/actions.ts), and the        *)
(* classification of datasets ((app)/catalog/actions.ts).  A call reads    *)
(* key, anchor, service and policies one after the other while             *)
(* administrators change them.  The service is published, stopped and      *)
(* deleted as in module Publishing.                                        *)
(***************************************************************************)
EXTENDS Integers, FiniteSets, SequencesExt

CONSTANTS
    Members,      \* administrators who set the access level
    Linked,       \* the datasets the service links
    Live,         \* those with a location and a live connector
    Levels,       \* classification ranks; DefaultMax is the rank of "internal"
    DefaultMax,
    MaxRules,     \* bound: masking rules
    Strategies,
    Moves,        \* scenario: which settings move while calls are made
    NoRow         \* no API key; no rank

VARIABLES
    moving,    \* the settings that move in this behaviour; the others let a call through
    front,     \* the service: running, stopped or gone
    wiped,     \* the workspace carries the soft-delete mark
    apiKey,    \* the API key of the caller
    level,     \* the classification of each dataset
    access,    \* the levels of the access policies, in the order of their creation
    masks,     \* the masking rules, in the order of their creation
    member,    \* what each administrator is doing
    lastSet,   \* history: the level set last
    call,      \* what the gateway's call is doing
    seen       \* history: what has held at some time, or all the time, since it began

gatewayVars == <<moving, front, wiped, apiKey, level, access, masks, member, lastSet, call, seen>>
settings == <<moving, front, wiped, apiKey, level, access, masks, member, lastSet>>

NoCall == [pc |-> "idle"]
Waiting == [pc |-> "idle"]

\* resolveEgressPolicy: the last valid level wins, "internal" without one.
MaxExternal == IF access = <<>> THEN DefaultMax ELSE Last(access)
\* levelAllowed.
Allowed(l, max) == l <= max
\* maskedColumnsFor: of the rules for a dataset or for all, the last one names the strategy.
RulesFor(rules, d) == SelectSeq(rules, LAMBDA m : m.ds \in {d, "*"})
MaskOf(rules, d) == IF RulesFor(rules, d) = <<>> THEN "clear" ELSE Last(RulesFor(rules, d)).strategy

\* What holds now, in the form of seen.
Now == [low |-> level, high |-> MaxExternal, hidden |-> {d \in Linked : MaskOf(masks, d) # "clear"},
        ran |-> front = "running", alive |-> ~wiped]

GatewayInit ==
    /\ moving \in Moves /\ wiped = FALSE
    /\ front = IF "service" \in moving THEN "stopped" ELSE "running"
    /\ apiKey = IF "service" \in moving THEN NoRow
                ELSE [bound |-> "none", minted |-> "none", revoked |-> FALSE]
    /\ level \in [Linked -> {DefaultMax}]
    /\ access = <<>> /\ masks = <<>>
    /\ member = [m \in Members |-> Waiting] /\ lastSet = NoRow
    /\ call = NoCall /\ seen = Now

-----------------------------------------------------------------------------
(* The settings. *)

Publish ==
    /\ "service" \in moving /\ front = "stopped" /\ front' = "running"
    /\ UNCHANGED <<moving, wiped, apiKey, level, access, masks, member, lastSet, call>>
Unpublish ==
    /\ "service" \in moving /\ front = "running" /\ front' = "stopped"
    /\ UNCHANGED <<moving, wiped, apiKey, level, access, masks, member, lastSet, call>>

\* The foreign key of a deleted service is set to null: the key is bound to none.
Unbind(k, s) == IF k # NoRow /\ k.bound = s THEN [k EXCEPT !.bound = "none"] ELSE k
DeleteService == \E s \in {"this", "other"} :
    /\ "service" \in moving
    /\ s = "this" => front = "stopped"
    /\ front' = IF s = "this" THEN "gone" ELSE front
    /\ apiKey' = Unbind(apiKey, s)
    /\ UNCHANGED <<moving, wiped, level, access, masks, member, lastSet, call>>

CreateApiKey == \E b \in {"none", "this", "other"} :
    /\ "service" \in moving /\ apiKey = NoRow
    /\ b = "this" => front # "gone"
    /\ apiKey' = [bound |-> b, minted |-> b, revoked |-> FALSE]
    /\ UNCHANGED <<moving, front, wiped, level, access, masks, member, lastSet, call>>
RevokeApiKey ==
    /\ "service" \in moving /\ apiKey # NoRow /\ ~apiKey.revoked
    /\ apiKey' = [apiKey EXCEPT !.revoked = TRUE]
    /\ UNCHANGED <<moving, front, wiped, level, access, masks, member, lastSet, call>>

\* setDatasetClassification; a change to the same level is none.
SetDatasetClassification == \E d \in Linked, l \in Levels :
    /\ "level" \in moving /\ level[d] # l
    /\ level' = [level EXCEPT ![d] = l]
    /\ UNCHANGED <<moving, front, wiped, apiKey, access, masks, member, lastSet, call>>

\* setMaxExternalLevel looks for an access policy first and updates or creates one then.
FindAccessPolicy(m) == \E l \in Levels :
    /\ "access" \in moving /\ member[m] = Waiting
    /\ \E i \in IF access = <<>> THEN {0} ELSE DOMAIN access :
         member' = [member EXCEPT ![m] = [pc |-> "set", row |-> i, level |-> l]]
    /\ UNCHANGED <<moving, front, wiped, apiKey, level, access, masks, lastSet, call>>
SetMaxExternalLevelAnew(m) == \* mutant: every setting makes a policy
    /\ member[m] # Waiting
    /\ access' = Append(access, member[m].level) /\ lastSet' = member[m].level
    /\ member' = [member EXCEPT ![m] = Waiting]
    /\ UNCHANGED <<moving, front, wiped, apiKey, level, masks, call>>
SetMaxExternalLevel(m) ==
    /\ member[m] # Waiting
    /\ access' = IF member[m].row = 0 THEN Append(access, member[m].level)
                 ELSE [access EXCEPT ![member[m].row] = member[m].level]
    /\ lastSet' = member[m].level
    /\ member' = [member EXCEPT ![m] = Waiting]
    /\ UNCHANGED <<moving, front, wiped, apiKey, level, masks, call>>

CreateMaskingRule == \E d \in Linked \cup {"*"}, s \in Strategies :
    /\ "masks" \in moving /\ Len(masks) < MaxRules
    /\ masks' = Append(masks, [ds |-> d, strategy |-> s])
    /\ UNCHANGED <<moving, front, wiped, apiKey, level, access, member, lastSet, call>>
DeleteMaskingRule == \E i \in DOMAIN masks :
    /\ masks' = RemoveAt(masks, i)
    /\ UNCHANGED <<moving, front, wiped, apiKey, level, access, member, lastSet, call>>

Wipe ==
    /\ "service" \in moving /\ ~wiped /\ wiped' = TRUE
    /\ UNCHANGED <<moving, front, apiKey, level, access, masks, member, lastSet, call>>

-----------------------------------------------------------------------------
(* A call.  A refusal ends it; the next one starts afresh. *)

\* The key must exist, not be revoked, and be bound to this service or to none.
KeyOpensAny == apiKey # NoRow /\ ~apiKey.revoked   \* mutant: the binding is not compared
KeyOpens == apiKey # NoRow /\ ~apiKey.revoked /\ apiKey.bound \in {"none", "this"}
FindKey ==
    /\ call.pc = "idle" /\ KeyOpens
    /\ call' = [pc |-> "wipe", minted |-> apiKey.minted]
    /\ UNCHANGED settings
CheckWipe ==
    /\ call.pc = "wipe"
    /\ call' = IF wiped THEN NoCall ELSE [call EXCEPT !.pc = "service"]
    /\ UNCHANGED settings
\* The service comes with its datasets and their sources.
ReadService ==
    /\ call.pc = "service"
    /\ call' = IF front # "running" THEN NoCall
               ELSE [pc |-> "policy", minted |-> call.minted, level |-> level]
    /\ UNCHANGED settings
ReadPolicy ==
    /\ call.pc = "policy"
    /\ call' = [pc |-> "rows", minted |-> call.minted, level |-> call.level,
                max |-> MaxExternal, masks |-> masks]
    /\ UNCHANGED settings

\* The mask is pushed down into the source's query, which may fail.
RowsOf(d) == {MaskOf(call.masks, d), "source_unavailable"}

\* One dataset of the answer.
Governed(d) ==
    IF ~Allowed(call.level[d], call.max) THEN {"excluded"}
    ELSE IF d \notin Live THEN {"metadata_only"}
    ELSE RowsOf(d)
FetchRows ==
    /\ call.pc = "rows"
    /\ \E out \in [Linked -> {"excluded", "metadata_only", "source_unavailable", "clear"} \cup Strategies] :
         /\ \A d \in Linked : out[d] \in Governed(d)
         /\ call' = [pc |-> "record", minted |-> call.minted, out |-> out]
    /\ UNCHANGED settings

\* Last use, audit and usage are written at the same time; the answer waits for all
\* three, and an error of one is a 500 whatever the others did.
RecordAccess ==
    /\ call.pc = "record"
    /\ \E written \in SUBSET {"last_used", "audit", "usage"} :
         call' = IF Cardinality(written) < 3 THEN NoCall
                 ELSE [pc |-> "answered", minted |-> call.minted, out |-> call.out, written |-> written]
    /\ UNCHANGED settings
Answered == call.pc = "answered" /\ call' = NoCall /\ UNCHANGED settings

SmallerOf(a, b) == IF a <= b THEN a ELSE b
LargerOf(a, b) == IF a <= b THEN b ELSE a
Watch == seen' = IF call'.pc = "idle" \/ call.pc = "idle" THEN Now'
    ELSE [low |-> [d \in Linked |-> SmallerOf(seen.low[d], level'[d])],
          high |-> LargerOf(seen.high, Now'.high),
          hidden |-> seen.hidden \cap Now'.hidden,
          ran |-> seen.ran \/ Now'.ran, alive |-> seen.alive \/ Now'.alive]

GatewayNext ==
    /\ \/ Publish \/ Unpublish \/ DeleteService \/ CreateApiKey \/ RevokeApiKey
       \/ SetDatasetClassification \/ CreateMaskingRule \/ DeleteMaskingRule \/ Wipe
       \/ \E m \in Members : FindAccessPolicy(m) \/ SetMaxExternalLevel(m)
       \/ FindKey \/ CheckWipe \/ ReadService \/ ReadPolicy \/ FetchRows \/ RecordAccess \/ Answered
    /\ Watch
GatewaySpec == GatewayInit /\ [][GatewayNext]_gatewayVars

-----------------------------------------------------------------------------
(* Properties. *)

GatewayTypeOK ==
    /\ front \in {"running", "stopped", "gone"} /\ wiped \in BOOLEAN
    /\ level \in [Linked -> Levels]
    /\ Len(access) <= Cardinality(Members) /\ ToSet(access) \subseteq Levels
    /\ Len(masks) <= MaxRules
    /\ \A d \in DOMAIN seen.low : seen.low[d] \in Levels

\* An answered call has used a running service of a live workspace, served no dataset
\* whose classification was above the access level all the while, and shown in clear no
\* column that was masked all the while - however the settings moved between its reads.
\* A key minted for another service opens this one only after that service was deleted.
AnswersObeyPolicy ==
    /\ call.pc # "idle" /\ call.minted = "other" => apiKey.bound = "none"
    /\ call.pc = "answered" =>
         /\ seen.ran /\ seen.alive /\ call.written = {"last_used", "audit", "usage"}
         /\ \A d \in Linked :
              /\ call.out[d] # "excluded" => Allowed(seen.low[d], seen.high)
              /\ call.out[d] = "clear" => d \notin seen.hidden

\* The level an administrator set last is in force, as long as there is one access policy;
\* there are two only after two administrators found none at the same time.
LevelInForce == Len(access) <= 1 => lastSet \in {NoRow, MaxExternal}
=============================================================================
