----------------------------- MODULE Publishing -----------------------------
(***************************************************************************)
(* The data services of one workspace and the quality rules that gate      *)
(* their publication: (app)/service/actions.ts, quality-gate.ts and        *)
(* (app)/quality/actions.ts.  A server action reads what it needs, decides *)
(* and commits in a transaction with its audit row; between the read and   *)
(* the commit other actions run.                                           *)
(*                                                                         *)
(* A call that is refused (no session, role, tier, invalid input, missing  *)
(* row) changes nothing but, for a blocked publish, an audit row that      *)
(* nobody reads: it is a call that does not happen.                        *)
(***************************************************************************)
EXTENDS Integers, FiniteSets, FiniteSetsExt

CONSTANTS
    Admins,       \* server actions of the workspace's administrators at work
    Datasets,
    Services,     \* ids of data services
    Rules,        \* ids of quality rules
    Live,         \* datasets with a location, all of one source that has a live connector
    Absent,       \* the value of a row that is not there
    MaxCode,      \* bound: display codes that are handed out
    MaxRuns       \* bound: runs of the checks

Idle == [op |-> "none"]

VARIABLES
    service,  \* the data services: status, code, links
    rule,     \* the quality rules: dataset, severity, enabled, config, the latest result
              \* and the runAt it carries
    runs,     \* the last runAt that was taken
    admin,    \* what each server action is doing
    standing  \* history: the checks that have been failing on what a service links ever
              \* since its publish was asked for

publishVars == <<service, rule, runs, admin, standing>>

\* History of a service that runs: gated, the links its gate saw; raced, that an edit and the
\* publish of it overlapped.
Service == [status: {"draft", "review", "running", "paused"}, code: 1..MaxCode,
            links: SUBSET Datasets, gated: SUBSET Datasets, raced: BOOLEAN]
Rule == [ds: Datasets, severity: {"warning", "critical"}, enabled: BOOLEAN,
         config: {"empty", "full"}, latest: {"none", "pass", "warn", "fail"}, at: 0..MaxRuns]

ServiceIds == {s \in Services : service[s] # Absent}
RuleIds == {r \in Rules : rule[r] # Absent}
\* Ids are fresh: one that an action still holds is not given to a new row.
NewServices == Services \ (ServiceIds \cup {admin[a].id : a \in {b \in Admins : "id" \in DOMAIN admin[b]}})
NewRules == Rules \ (RuleIds \cup UNION {admin[a].due : a \in {b \in Admins : admin[b].op = "run"}})

\* What seedTemplate leaves: services that run, wait for review or are paused, of no links and
\* without a gate; rules of no config with results of any status, on datasets of no source.
\* Rules with a config are loaded beside the application.
Seeded == [ds: Datasets \ Live, severity: {"warning"}, enabled: {TRUE}, config: {"empty"},
           latest: {"pass", "warn", "fail"}, at: {0}]
Loaded == [ds: Datasets, severity: {"critical"}, enabled: {TRUE}, config: {"full"},
           latest: {"pass", "fail"}, at: {0}]
PublishInit ==
    /\ service \in [Services -> {Absent} \cup
           [status: {"running", "review", "paused"}, code: 1..MaxCode, links: {{}}, gated: {{}},
            raced: {FALSE}]]
    /\ \A s, t \in ServiceIds : service[s].code = service[t].code => s = t
    /\ rule \in [Rules -> {Absent} \cup Seeded \cup Loaded] /\ runs = 0
    /\ admin = [a \in Admins |-> Idle] /\ standing = [a \in Admins |-> {}]

-----------------------------------------------------------------------------
(* The quality gate. *)

\* The enabled rules of a dataset that have a result.
Checked(d) == {r \in RuleIds : rule[r].ds = d /\ rule[r].enabled /\ rule[r].latest # "none"}
BlockersNever(links) == {}    \* mutant: a failing critical check does not block
Blockers(links) == {r \in UNION {Checked(d) : d \in links} :
                       rule[r].severity = "critical" /\ rule[r].latest = "fail"}

-----------------------------------------------------------------------------
(* Requests and commits. *)

Ask(a, req) ==
    /\ admin[a] = Idle
    /\ admin' = [admin EXCEPT ![a] = req]
    /\ UNCHANGED <<service, rule>>

\* Request a ends.  An edit overtakes the publishes that have read the links, and a publish
\* the edits that have read the status.
Overtaken(op) == CASE op = "update" -> {"verdict", "commit"}
                   [] op = "commit" -> {"update"}
                   [] OTHER -> {}
Done(a, s) ==
    admin' = [b \in Admins |-> IF b = a THEN Idle
                               ELSE IF admin[b].op \in Overtaken(admin[a].op) /\ admin[b].id = s
                                    THEN [admin[b] EXCEPT !.moved = TRUE] ELSE admin[b]]
EndOf(a) == admin' = [admin EXCEPT ![a] = Idle]

On(a, op) == admin[a].op = op
Mine(a) == service[admin[a].id]

\* nextServiceCode: one more than the highest code there is.
NextCode == 1 + Max({0} \cup {service[s].code : s \in ServiceIds})

AskCreate(a) == \E links \in SUBSET Datasets : NextCode <= MaxCode
    /\ Ask(a, [op |-> "create", links |-> links, code |-> NextCode])

\* (workspace, code) is unique: of two creates that read the same codes one throws.
CreateDataService(a) ==
    /\ On(a, "create")
    /\ \/ /\ \A s \in ServiceIds : service[s].code # admin[a].code
          /\ \E s \in NewServices :
                service' = [service EXCEPT ![s] =
                    [status |-> "draft", code |-> admin[a].code, links |-> admin[a].links,
                     gated |-> {}, raced |-> FALSE]]
       \/ /\ \E s \in ServiceIds : service[s].code = admin[a].code
          /\ UNCHANGED service
    /\ EndOf(a) /\ UNCHANGED rule

AskOn(a, op, statuses) == \E s \in ServiceIds :
    /\ service[s].status \in statuses
    /\ \E links \in (IF op = "update" THEN SUBSET Datasets ELSE {{}}) :
         Ask(a, [op |-> op, id |-> s, links |-> links, moved |-> FALSE])

\* A commit on a row that is gone throws and rolls back.
CommitOn(a, op, after) ==
    /\ On(a, op)
    /\ IF Mine(a) = Absent THEN EndOf(a) /\ UNCHANGED service
       ELSE service' = [service EXCEPT ![admin[a].id] = after] /\ Done(a, admin[a].id)
    /\ UNCHANGED rule

NotRunning == {"draft", "review", "paused"}

AskUpdate(a) == AskOn(a, "update", NotRunning)
UpdateDataService(a) == CommitOn(a, "update",
    [Mine(a) EXCEPT !.links = admin[a].links, !.raced = @ \/ (admin[a].moved /\ Mine(a).status = "running")])

AskUnpublish(a) == AskOn(a, "unpublish", NotRunning \cup {"running"})
UnpublishDataService(a) == CommitOn(a, "unpublish",
    [Mine(a) EXCEPT !.status = "paused", !.gated = {}, !.raced = FALSE])

AskDelete(a) == AskOn(a, "delete", NotRunning)
DeleteDataService(a) == CommitOn(a, "delete", Absent)

\* publishDataService reads the row, then the links, then their rules and results.
AskPublish(a) == AskOn(a, "publish", NotRunning)
ReadLinks(a) ==
    /\ On(a, "publish")
    /\ admin' = [admin EXCEPT ![a].op = "verdict",
                     ![a].links = IF Mine(a) = Absent THEN {} ELSE Mine(a).links]
    /\ UNCHANGED <<service, rule>>
QualityGate(a) ==
    /\ On(a, "verdict")
    /\ IF Blockers(admin[a].links) # {} THEN EndOf(a)
       ELSE admin' = [admin EXCEPT ![a].op = "commit"]
    /\ UNCHANGED <<service, rule>>
PublishDataService(a) == CommitOn(a, "commit",
    [Mine(a) EXCEPT !.status = "running", !.gated = admin[a].links, !.raced = admin[a].moved])

-----------------------------------------------------------------------------
(* Quality rules and their runs. *)

\* A rule is authored with an empty config.
CreateQualityRule == \E r \in NewRules, d \in Datasets, sev \in {"warning", "critical"} :
    /\ rule' = [rule EXCEPT ![r] = [ds |-> d, severity |-> sev, enabled |-> TRUE,
                   config |-> "empty", latest |-> "none", at |-> 0]]
    /\ UNCHANGED <<service, runs, admin>>
SetQualityRuleEnabled == \E r \in RuleIds :
    /\ rule' = [rule EXCEPT ![r].enabled = ~@]
    /\ UNCHANGED <<service, runs, admin>>
\* The results of a rule go with it.
DeleteQualityRule == \E r \in RuleIds :
    /\ rule' = [rule EXCEPT ![r] = Absent]
    /\ UNCHANGED <<service, runs, admin>>

\* A run, interactive or scheduled, reads the enabled rules and takes its runAt; rules without
\* a live source are skipped.
Due == {r \in RuleIds : rule[r].enabled /\ rule[r].ds \in Live}
AskRun(a) ==
    /\ Due # {} /\ runs < MaxRuns /\ runs' = runs + 1
    /\ Ask(a, [op |-> "run", due |-> Due, config |-> [r \in Due |-> rule[r].config],
               severity |-> [r \in Due |-> rule[r].severity], at |-> runs + 1])

\* buildCheckSql: every type of check needs a column or a limit from the config.
Outcomes(config) == IF config = "empty" THEN {"error"} ELSE {"clean", "issues", "error"}
StatusOf(outcome, severity) ==
    IF outcome = "clean" THEN "pass" ELSE IF severity = "critical" THEN "fail" ELSE "warn"

\* The results are written in one transaction, which throws if a rule that ran is gone.  The
\* latest of a rule is that of the highest runAt, not the one that was written last.
WithResults(run, out) == LET ran == {r \in run.due : out[r] # "error"} IN
    IF ran \subseteq RuleIds
    THEN [r \in Rules |-> IF r \in ran /\ rule[r].at <= run.at
                          THEN [rule[r] EXCEPT !.latest = StatusOf(out[r], run.severity[r]), !.at = run.at]
                          ELSE rule[r]]
    ELSE rule

\* The connector answers, or it cannot connect and all checks of the source are skipped.
RunWorkspaceChecks(a) ==
    /\ On(a, "run")
    /\ \/ \E out \in [admin[a].due -> {"clean", "issues", "error"}] :
            /\ \A r \in admin[a].due : out[r] \in Outcomes(admin[a].config[r])
            /\ rule' = WithResults(admin[a], out)
       \/ UNCHANGED rule
    /\ EndOf(a) /\ UNCHANGED <<service, runs>>

-----------------------------------------------------------------------------
(* The steps, watched for the checks that fail all the while a publish is under way. *)

Publishing(a) == admin[a].op \in {"publish", "verdict", "commit"}
FailingOn(s) == {r \in RuleIds : /\ service[s] # Absent /\ rule[r].ds \in service[s].links
                                 /\ rule[r].enabled /\ rule[r].severity = "critical"
                                 /\ rule[r].latest = "fail"}
Failing(a) == IF Publishing(a) THEN FailingOn(admin[a].id) ELSE {}
Watch == standing' = [a \in Admins |-> IF Publishing(a) THEN standing[a] \cap Failing(a)'
                                                       ELSE Failing(a)']

ServiceStep(a) ==
    \/ AskCreate(a) \/ CreateDataService(a) \/ AskUpdate(a) \/ UpdateDataService(a)
    \/ AskUnpublish(a) \/ UnpublishDataService(a) \/ AskDelete(a) \/ DeleteDataService(a)
    \/ AskPublish(a) \/ ReadLinks(a) \/ QualityGate(a) \/ PublishDataService(a)
PublishNext ==
    /\ \/ \E a \in Admins : ServiceStep(a) /\ UNCHANGED runs
       \/ \E a \in Admins : AskRun(a) \/ RunWorkspaceChecks(a)
       \/ CreateQualityRule \/ SetQualityRuleEnabled \/ DeleteQualityRule
    /\ Watch
PublishSpec == PublishInit /\ [][PublishNext]_publishVars

-----------------------------------------------------------------------------
(* Properties. *)

PublishTypeOK ==
    /\ service \in [Services -> Service \cup {Absent}]
    /\ rule \in [Rules -> Rule \cup {Absent}]
    /\ \A s, t \in ServiceIds : service[s].code = service[t].code => s = t

\* What a running service serves is what its quality gate saw, unless an edit and a publish
\* of it overlapped.  And a publish that is about to take effect passes over no check that
\* has been failing ever since it was asked for, whatever was edited, toggled or run meanwhile.
RunningWasGated ==
    /\ \A s \in ServiceIds : service[s].status = "running" /\ ~service[s].raced =>
           service[s].links = service[s].gated
    /\ \A a \in Admins : On(a, "commit") => standing[a] = {}

\* A critical check that fails on any linked dataset blocks the publish, and a running service
\* is edited only after it was unpublished ((app)/service/actions.ts:196 and 113): whatever
\* fails on a dataset that a running service links, its gate has seen that dataset.
ServesWhatWasGated ==
    \A s \in ServiceIds : service[s].status = "running" =>
        \A r \in FailingOn(s) : rule[r].ds \in service[s].gated
=============================================================================
