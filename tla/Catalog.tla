------------------------------ MODULE Catalog ------------------------------
(***************************************************************************)
(* The writers of one workspace's catalogue: the idempotent creates of     *)
(* api/v1 (datasets, lineage edges, access requests), the server action    *)
(* that adds an edge without a key, and the sync of a source, which        *)
(* creates datasets in bulk.  A writer looks its key up, checks against    *)
(* what it reads, and creates in a transaction that also writes the audit  *)
(* row with the key.                                                       *)
(*                                                                         *)
(* Authentication and the validation of the body come before (module       *)
(* Admission).  Audit rows without a key are left out: nothing reads them. *)
(***************************************************************************)
EXTENDS Integers, FiniteSets, SequencesExt, LineageGraph

CONSTANTS
    Writers,     \* the requests, in the order they come; each also names the row it may create
    MaxWorking,  \* bound: requests in work at the same time
    Keys,        \* Idempotency-Key values of the workspace's clients
    Codes,       \* dataset codes, numbered in the order a source lists them
    DatasetMax,  \* quota.limits.datasetMax
    NODE_CAP,    \* nodes that the lineage view shows
    Kinds        \* scenario: which kinds of writer run together, from which datasets

ASSUME CatalogAssumption ==
    /\ Codes \subseteq Nat /\ IsFiniteSet(Codes)
    /\ DatasetMax \in Nat /\ NODE_CAP \in Nat
    /\ Kinds \subseteq [kinds: SUBSET {"dataset", "edge", "action", "request", "sync"},
                        codes: SUBSET Codes]
    /\ Writers \cap {"source", "old"} = {}

None == "none"
Unused == [action |-> None, target |-> None]

VARIABLES
    kinds,    \* the kinds of writer of this behaviour
    dataset,  \* the datasets, as <<code, id>>; (workspace, code) is unique
    edge,     \* the lineage edges, as <<<<up, down>>, id>>; the pair is unique
    request,  \* the ids of the access requests
    ledger,   \* the audit row that carries each key: its action and target
    writer,   \* what each request is doing
    made,     \* history: the <<key, id>> of every row created under a key
    excess,   \* history: datasets over the quota since the plan was lowered, or created
              \* on a count that had moved
    raced     \* history: edges created on a graph that had moved

catalogVars == <<kinds, dataset, edge, request, ledger, writer, made, excess, raced>>

\* The audit action of a row, which tells the routes apart.
Action == [dataset |-> "catalog.dataset.register", edge |-> "lineage.change",
           request |-> "access.request.submit"]

Bodies(kind) ==
    CASE kind = "sync" -> SUBSET Codes \ {{}}                   \* the discovered objects
      [] kind \in {"edge", "action"} -> {p \in Codes \X Codes : p[1] # p[2]}
      [] OTHER -> Codes

\* late: the key had been used before the request came.  moved: rows of the same
\* table were written since the request made its checks.
Working == [pc: {"lookup", "check", "create", "catch"}, kind: STRING, key: Keys \cup {None},
            late: BOOLEAN, moved: BOOLEAN, plan: SUBSET Codes]
Answer(st, id) == [status |-> st, id |-> id]

EdgePairs == {e[1] : e \in edge}
TakenCodes == {d[1] : d \in dataset}
Exists(id) == id \in {d[2] : d \in dataset} \cup {e[2] : e \in edge} \cup request

CatalogInit ==
    \E s \in Kinds :
        /\ kinds = s.kinds
        /\ dataset = {<<c, "old">> : c \in s.codes}
        /\ edge = {} /\ request = {} /\ made = {} /\ raced = {}
        /\ excess = Max({0, Cardinality(s.codes) - DatasetMax})
        /\ ledger = [k \in Keys |-> Unused]
        /\ writer = [w \in Writers |-> [pc |-> "idle"]]

-----------------------------------------------------------------------------
(* What a writer reads and writes. *)

\* planSync: known objects are updated for free, new ones fill what is left of the
\* quota in the order they were discovered.
PlanSyncUncapped(discovered, known, count) == discovered \ known   \* mutant: no quota
PlanSync(discovered, known, count) ==
    LET new  == discovered \ known
        room == Max({0, DatasetMax - count})
    IN  {c \in new : Cardinality({d \in new : d < c}) < room}

\* The business checks before the create: the refusal, or "ok".
RefusalOfDataset(code) ==
    IF Cardinality(dataset) >= DatasetMax THEN "quota_exceeded"
    ELSE IF code \in TakenCodes THEN "duplicate_code" ELSE "ok"
RefusalOfEdge(pair) ==
    IF ~{pair[1], pair[2]} \subseteq TakenCodes THEN "not_found"
    ELSE IF pair \in EdgePairs THEN "duplicate_edge"
    ELSE IF WouldCreateCycle(pair[1], pair[2], EdgePairs) THEN "cycle_detected" ELSE "ok"
RefusalOfRequest(code) == IF code \in TakenCodes THEN "ok" ELSE "not_found"
Refusal(kind, body) ==
    CASE kind = "dataset" -> RefusalOfDataset(body)
      [] kind \in {"edge", "action"} -> RefusalOfEdge(body)
      [] kind = "request" -> RefusalOfRequest(body)
      [] OTHER -> "ok"

\* The unique index or foreign key that the transaction of a writer runs into, if any;
\* the row comes before its audit row.
ViolationUnkeyed(w) ==        \* mutant: the key of an audit row is not unique
    LET q == writer[w] IN
    IF (q.kind = "dataset" /\ q.body \in TakenCodes) \/ (q.kind = "edge" /\ q.body \in EdgePairs)
    THEN "error" ELSE "none"
Violation(w) ==
    LET q == writer[w] IN
    CASE q.kind = "dataset" /\ q.body \in TakenCodes -> "duplicate_code"
      [] q.kind = "edge" /\ q.body \in EdgePairs -> "duplicate_edge"
      [] q.kind = "action" /\ q.body \in EdgePairs -> "error"
      [] q.kind = "sync" /\ q.plan \cap TakenCodes # {} -> "error"
      [] OTHER -> IF q.key # None /\ ledger[q.key] # Unused THEN "key" ELSE "none"

\* The answer to a key that is in use: the original, unless another route used the key
\* or the row has gone since.
Replay(kind, k) ==
    IF ledger[k].action = kind /\ Exists(ledger[k].target)
    THEN Answer("replayed", ledger[k].target) ELSE Answer("conflict", None)

Finish(w, answer) == writer' = [writer EXCEPT ![w] = [pc |-> "done", kind |-> writer[w].kind,
    key |-> writer[w].key, late |-> writer[w].late, answer |-> answer]]
Rows == <<dataset, edge, request, ledger, made, excess, raced>>

-----------------------------------------------------------------------------
(* The steps of a writer. *)

\* An authenticated request with a valid body; server actions and syncs carry no key.
Begin(w) ==
    /\ writer[w].pc = "idle" /\ w = CHOOSE v \in Writers : writer[v].pc = "idle"
    /\ Cardinality({v \in Writers : writer[v].pc \notin {"idle", "done"}}) < MaxWorking
    /\ \E kind \in kinds : \E body \in Bodies(kind) :
       \E k \in {None} \cup (IF kind \in {"action", "sync"} THEN {} ELSE Keys) :
         writer' = [writer EXCEPT ![w] =
           [pc |-> IF k = None THEN "check" ELSE "lookup", kind |-> kind, body |-> body,
            key |-> k, late |-> k # None /\ ledger[k] # Unused, moved |-> FALSE, plan |-> {}]]
    /\ UNCHANGED <<kinds, Rows>>

\* findIdempotentReplay.  An audit row stays, so reading it and its target in one step
\* answers as the two awaits do.
LookupNever(w) ==             \* mutant: the key is not looked up before the checks
    /\ writer[w].pc = "lookup"
    /\ writer' = [writer EXCEPT ![w].pc = "check"]
    /\ UNCHANGED <<kinds, Rows>>
Lookup(w) ==
    /\ writer[w].pc = "lookup"
    /\ IF ledger[writer[w].key] # Unused
       THEN Finish(w, Replay(writer[w].kind, writer[w].key))
       ELSE writer' = [writer EXCEPT ![w].pc = "check"]
    /\ UNCHANGED <<kinds, Rows>>

\* The pre-checks; a sync reads the codes of its source and the count.
Check(w) ==
    /\ writer[w].pc = "check"
    /\ LET q == writer[w]
           no == Refusal(q.kind, q.body)
       IN  IF no # "ok" THEN Finish(w, Answer(no, None))
           ELSE writer' = [writer EXCEPT ![w] = [q EXCEPT !.pc = "create",
                  !.plan = IF q.kind # "sync" THEN {} ELSE
                           PlanSync(q.body, {d[1] : d \in {e \in dataset : e[2] = "source"}},
                                    Cardinality(dataset))]]
    /\ UNCHANGED <<kinds, Rows>>

\* The writers whose checks a commit to the table of a kind makes stale.
Outdates(kind, other) ==
    {kind, other} \subseteq {"dataset", "sync"} \/ {kind, other} \subseteq {"edge", "action"}

\* What each of the routes, the server action and the sync insert.
NewDatasets(q, w) == CASE q.kind = "dataset" -> {<<q.body, w>>}
                       [] q.kind = "sync" -> {<<c, "source">> : c \in q.plan}
                       [] OTHER -> {}
NewEdges(q, w) == IF q.kind \in {"edge", "action"} THEN {<<q.body, w>>} ELSE {}
NewRequests(q, w) == IF q.kind = "request" THEN {w} ELSE {}

\* The transaction: the row and its audit row with the key, or neither.
Create(w) ==
    /\ writer[w].pc = "create"
    /\ LET q   == writer[w]
           bad == Violation(w)
       IN  \/ /\ bad = "none"
              /\ dataset' = dataset \cup NewDatasets(q, w)
              /\ edge' = edge \cup NewEdges(q, w)
              /\ request' = request \cup NewRequests(q, w)
              /\ ledger' = IF q.key = None THEN ledger
                           ELSE [ledger EXCEPT ![q.key] = [action |-> q.kind, target |-> w]]
              /\ made' = IF q.key = None THEN made ELSE made \cup {<<q.key, w>>}
              /\ excess' = IF q.moved THEN excess + Cardinality(dataset') - Cardinality(dataset)
                           ELSE excess
              /\ raced' = IF q.moved THEN raced \cup (edge' \ edge) ELSE raced
              /\ writer' = [v \in Writers |->
                   IF v = w THEN [pc |-> "done", kind |-> q.kind, key |-> q.key, late |-> q.late,
                                  answer |-> Answer("created", w)]
                   ELSE IF writer[v].pc = "create" /\ Outdates(q.kind, writer[v].kind)
                        THEN [writer[v] EXCEPT !.moved = TRUE] ELSE writer[v]]
           \/ /\ bad = "key"
              /\ writer' = [writer EXCEPT ![w].pc = "catch"]
              /\ UNCHANGED Rows
           \/ /\ bad \notin {"none", "key"}
              /\ Finish(w, Answer(bad, None))
              /\ UNCHANGED Rows
    /\ UNCHANGED kinds

\* The catch of runIdempotentCreate.
Catch(w) ==
    /\ writer[w].pc = "catch"
    /\ Finish(w, Replay(writer[w].kind, writer[w].key))
    /\ UNCHANGED <<kinds, Rows>>

\* The hard-delete sweep takes datasets and, with them, edges; requests and audit rows
\* stay.  It comes 90 days after the workspace was closed: nothing is in flight.
Sweep ==
    /\ \A w \in Writers : writer[w].pc \in {"idle", "done"}
    /\ dataset # {}
    /\ dataset' = {} /\ edge' = {}
    /\ raced' = {} /\ excess' = 0
    /\ UNCHANGED <<kinds, request, ledger, writer, made>>

CatalogNext ==
    \/ \E w \in Writers : Begin(w) \/ Lookup(w) \/ Check(w) \/ Create(w) \/ Catch(w)
    \/ Sweep
CatalogSpec == CatalogInit /\ [][CatalogNext]_catalogVars

-----------------------------------------------------------------------------
(* Properties. *)

CatalogTypeOK ==
    /\ dataset \subseteq Codes \X (Writers \cup {"source", "old"})
    /\ edge \subseteq (Codes \X Codes) \X Writers
    /\ request \subseteq Writers
    /\ \A k \in Keys : ledger[k] = Unused \/ ledger[k].target \in Writers
    /\ excess \in Nat /\ raced \subseteq edge

Success(w) == /\ writer[w].pc = "done" /\ writer[w].key # None
              /\ writer[w].answer.status \in {"created", "replayed"}
Told == {<<writer[w].key, writer[w].answer.id>> : w \in {v \in Writers : Success(v)}}

Once == INSTANCE KeyLedger WITH
    Key <- Keys, Resource <- Writers, made <- made, told <- Told

\* A key makes at most one row, in one route, and every success under it names that row.
KeyMakesOneRow == Once!Spec

\* A retry that starts after its key was recorded never reaches the business checks: it is
\* answered with the original, or told of the conflict when another route holds the key or
\* the row has gone.  A retry that overlaps its original may be told "duplicate" instead.
LateRetryReplays ==
    \A w \in Writers : writer[w].pc = "done" /\ writer[w].late =>
        \/ writer[w].answer = Answer("replayed", ledger[writer[w].key].target)
        \/ /\ writer[w].answer.status = "conflict"
           /\ \/ ledger[writer[w].key].action # writer[w].kind
              \/ ~Exists(ledger[writer[w].key].target)

\* The catalogue outgrows its quota by no more than what was created on a stale count.
CapExceededOnlyByRace == Cardinality(dataset) <= DatasetMax + excess

\* The lineage view as it is now: the datasets by name, one source for those of a sync, a
\* service on the last of them, and one wanted subject or the default.
SyncedFrom == [c \in {d[1] : d \in {e \in dataset : e[2] = "source"}} |-> Max(Codes) + 1]
Served == {<<Max(TakenCodes), Max(Codes) + 2>>}
View(wanted) == LineageView(TakenCodes, EdgePairs, SyncedFrom, Served, wanted, NODE_CAP)
Behind(E) == {n \in UNION {{e[1], e[2]} : e \in E} : \E e \in E :
                 e[1] \in DownstreamOf(e[1], E) /\ n \in {e[1]} \cup DownstreamOf(e[1], E)}

\* Every cycle of the lineage graph goes through an edge whose check had missed another.
LineageIsAcyclic ==
    LET sound == {e[1] : e \in edge \ raced}
    IN  \A e \in sound : e[1] \notin DownstreamOf(e[1], sound)

\* Whatever the graph, the view puts each node that no cycle leads to one layer behind the last
\* of its sources ("longest-path layer per node", graph-core.ts:12), and its impact is all that
\* the subject leads to (lineage/data.ts:112), unless nodes were cut, and never more.
ViewIsRight ==
    (dataset # {} /\ \A w \in Writers : writer[w].pc \in {"idle", "done"}) =>
        \A wanted \in Codes :
            LET v == View(wanted)
                whole == WholeGraph(TakenCodes, EdgePairs, SyncedFrom, Served)
                closed == {N \in SUBSET (Codes \cup {Max(Codes) + 1, Max(Codes) + 2}) :
                              \A e \in whole : e[1] \in N \cup {v.subject} => e[2] \in N}
            IN  /\ \A n \in v.nodes \ Behind(v.edges) : v.layer[n] =
                       Max({0} \cup {v.layer[e[1]] + 1 : e \in {f \in v.edges : f[2] = n}})
                /\ \A N \in closed : v.impact \subseteq N
                /\ ~v.truncated => v.impact \in closed

\* The lineage graph and its view are sound.
LineageIsSound == LineageIsAcyclic /\ ViewIsRight
============================================================================
