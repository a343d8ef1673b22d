------------------------------ MODULE Sources -------------------------------
(***************************************************************************)
(* The data sources of one workspace: registration, sync and unbinding     *)
(* ((app)/sources/actions.ts), the scheduled refresh (jobs/refresh.ts) and *)
(* the storage gauge that follows a sync (usage/lib/gauge.ts).  A sync     *)
(* pulls metadata from the source, plans against the datasets it reads,    *)
(* and commits; the job does so for each source it listed, and marks the   *)
(* sources that fail.  Any statement may fail with the database.           *)
(*                                                                         *)
(* Permissions are refusals that change nothing (module Access).  The      *)
(* quality pass of the job is module Publishing's run of checks.           *)
(***************************************************************************)
EXTENDS Integers, FiniteSets, FiniteSetsExt, SequencesExt

CONSTANTS
    SourceIds,
    Names,          \* source names, by the slug they make
    Objects,        \* objects (tables) that the sources hold
    Lower(_),       \* sourceLocalId.toLowerCase(): two objects may make one code
    Registrars,     \* administrators who register sources
    Syncers,        \* interactive syncs
    Job,            \* the scheduled refresh
    DatasourceMax,  \* quota.limits.datasourceMax
    DatasetMax,     \* quota.limits.datasetMax
    Bytes,          \* sizes of a dataset
    Scenarios,      \* scenario: sources, objects and registrations that there are, and the
                    \* bound of gauge reports, none where no platform is configured
    Gone            \* no such row

Actors == Syncers \cup {Job}
datasetCode(n, o) == <<n, Lower(o)>>
DatasetCodes == {datasetCode(n, o) : n \in Names, o \in Objects}

VARIABLES
    scenario,  \* the scenario of this behaviour
    source,    \* the sources: name, status and, as history, whether only what the
               \* database held made its last sync fail
    dataset,   \* the datasets of such codes as syncs make: the source each came from ("orphan" once
               \* it is unbound, "api" if it was registered over the write API) and size
    extra,     \* the datasets of other codes, all from the write API and of one byte each
    registrar, \* what each registration is doing
    sync,      \* what each sync is doing
    report,    \* the gauge reports on their way
    gauge,     \* the platform's storage gauge: value and observed_at
    stamps,    \* how many observed_at have been stamped
    excuse,    \* history: why the gauge may differ from the sum of the sizes
    overbooked \* history: sources registered on a count that had moved

sourceVars == <<scenario, source, dataset, extra, registrar, sync, report, gauge, stamps, excuse, overbooked>>

Idle == [pc |-> "idle"]
Reporting == scenario.reports > 0
ToReport == IF Reporting THEN [pc |-> "report"] ELSE Idle
Here == {s \in SourceIds : source[s] # Gone}
Rows == {c \in DatasetCodes : dataset[c] # Gone}
Sizes == extra + SumFunction([c \in Rows |-> dataset[c].size])

SourcesInit ==
    /\ scenario \in Scenarios
    /\ source = [s \in SourceIds |-> Gone] /\ dataset = [c \in DatasetCodes |-> Gone] /\ extra = 0
    /\ registrar = [r \in Registrars |-> Idle] /\ sync = [a \in Actors |-> Idle]
    /\ report = {} /\ gauge = [value |-> 0, at |-> 0] /\ stamps = 0
    /\ excuse = {} /\ overbooked = 0

Busy(a) == sync[a].pc \in {"pull", "commit", "catch"}
gaugeVars == <<report, gauge, stamps, excuse>>

-----------------------------------------------------------------------------
(* Registration and unbinding. *)

\* Sources without a config or a connector are never synced, and are left out.
CountSources(r) ==
    /\ r \in scenario.registrars /\ registrar[r] = Idle /\ Cardinality(Here) < DatasourceMax
    /\ registrar' = [registrar EXCEPT ![r] = [pc |-> "create", moved |-> FALSE]]
    /\ UNCHANGED <<scenario, source, dataset, extra, sync, gaugeVars, overbooked>>
HeldBy(a) == IF Busy(a) THEN {sync[a].id} \cup {l.id : l \in ToSet(sync[a].left)} ELSE {}
Free == scenario.sources \ (Here \cup UNION {HeldBy(a) : a \in Actors})
RegisterDataSource(r) == \E n \in Names : LET s == CHOOSE t \in Free : TRUE IN
    /\ registrar[r].pc = "create" /\ Free # {}
    /\ source' = [source EXCEPT ![s] = [name |-> n, status |-> "connected", held |-> FALSE]]
    /\ registrar' = [q \in Registrars |-> IF q = r THEN Idle ELSE
           IF registrar[q].pc = "create" THEN [registrar[q] EXCEPT !.moved = TRUE] ELSE registrar[q]]
    /\ overbooked' = overbooked + (IF registrar[r].moved THEN 1 ELSE 0)
    /\ UNCHANGED <<scenario, dataset, extra, sync, gaugeVars>>

\* The row goes, with its credentials; its datasets are kept as orphans.
UnbindDataSource(s) ==
    /\ s \in Here
    /\ source' = [source EXCEPT ![s] = Gone]
    /\ dataset' = [c \in DatasetCodes |-> IF c \in Rows /\ dataset[c].src = s
                                   THEN [dataset[c] EXCEPT !.src = "orphan"] ELSE dataset[c]]
    /\ overbooked' = Max({0, overbooked - 1})
    /\ UNCHANGED <<scenario, extra, registrar, sync, gaugeVars>>

-----------------------------------------------------------------------------
(* Syncs. *)

\* Objects of a known code are updated; the others are created while the quota has room.
planSyncAnew(s, name, found) ==   \* mutant: what is known is created again
    [create : {found}, update : {{}}]
planSync(s, name, found) ==
    LET known == {c \in Rows : dataset[c].src = s}
        new   == {o \in found : datasetCode(name, o) \notin known}
        room  == Max({0, DatasetMax - Cardinality(Rows) - extra})
    IN  [create : kSubset(Min({room, Cardinality(new)}), new),
         update : {{datasetCode(name, o) : o \in found} \cap known}]

SyncOf(l, left) == [pc |-> "pull", id |-> l.id, name |-> l.name, left |-> left,
                    create |-> {}, update |-> {}, moved |-> FALSE, held |-> FALSE]
Listed(s) == [id |-> s, name |-> source[s].name]
StartSync(a) == \E s \in Here :
    /\ sync[a] = Idle
    /\ sync' = [sync EXCEPT ![a] = SyncOf(Listed(s), <<>>)]
    /\ UNCHANGED <<scenario, source, dataset, extra, registrar, gaugeVars, overbooked>>

\* The job lists the sources once, in any order.
StartJob ==
    /\ sync[Job] = Idle
    /\ \E due \in SetToSeqs({Listed(s) : s \in Here}) :
         sync' = [sync EXCEPT ![Job] = IF due = <<>> THEN ToReport ELSE SyncOf(Head(due), Tail(due))]
    /\ UNCHANGED <<scenario, source, dataset, extra, registrar, gaugeVars, overbooked>>
NextSource(a, ended) ==
    IF sync[a].left = <<>> THEN ended ELSE SyncOf(Head(sync[a].left), Tail(sync[a].left))

\* pullMetadata, then the reads of the plan; or the connector fails.
Pull(a) ==
    /\ sync[a].pc = "pull"
    /\ \/ \E found \in SUBSET scenario.objects : \E plan \in planSync(sync[a].id, sync[a].name, found) :
             sync' = [sync EXCEPT ![a].pc = "commit", ![a].create = plan.create, ![a].update = plan.update]
       \/ sync' = [sync EXCEPT ![a].pc = "catch"]
    /\ UNCHANGED <<scenario, source, dataset, extra, registrar, gaugeVars, overbooked>>

\* The transaction: a code that is taken, or a source row that has gone, makes it throw.
Creates(a) == {datasetCode(sync[a].name, o) : o \in sync[a].create}
Taken(a) == Creates(a) \cap Rows
Clash(a) == Cardinality(Creates(a)) < Cardinality(sync[a].create)
Commits(a) == Taken(a) = {} /\ ~Clash(a) /\ sync[a].id \in Here
SyncCommits(a) == \E size \in Bytes :
    /\ sync[a].pc = "commit" /\ Commits(a)
    /\ dataset' = [c \in DatasetCodes |->
           IF c \in Creates(a) THEN [src |-> sync[a].id, size |-> size]
           ELSE IF c \in sync[a].update THEN [dataset[c] EXCEPT !.size = size] ELSE dataset[c]]
    /\ source' = [source EXCEPT ![sync[a].id].status = "connected", ![sync[a].id].held = FALSE]
    /\ sync' = [b \in Actors |->
           IF b = a THEN NextSource(a, ToReport)
           ELSE IF sync[b].pc = "commit" /\ sync[b].id = sync[a].id
                THEN [sync[b] EXCEPT !.moved = TRUE] ELSE sync[b]]
    /\ UNCHANGED <<scenario, extra, registrar, gaugeVars, overbooked>>

\* It throws, for that or because the database fails, as it may in the reads of the plan: an
\* interactive sync ends with the error, the job goes to its catch.
SyncThrows(a) ==
    /\ sync[a].pc = "commit"
    /\ sync' = [sync EXCEPT ![a] = IF a # Job THEN Idle ELSE [sync[a] EXCEPT !.pc = "catch",
                                                        !.held = ~Commits(a) /\ ~sync[a].moved]]
    /\ UNCHANGED <<scenario, source, dataset, extra, registrar, gaugeVars, overbooked>>

\* The catch marks the source; it throws too if the row has gone or the database fails, and
\* then the error leaves the job's loop.
Catch(a) ==
    /\ sync[a].pc = "catch" /\ sync[a].id \in Here
    /\ source' = [source EXCEPT ![sync[a].id].status = "disconnected", ![sync[a].id].held = sync[a].held]
    /\ sync' = [sync EXCEPT ![a] = NextSource(a, IF a = Job THEN ToReport ELSE Idle)]
    /\ UNCHANGED <<scenario, dataset, extra, registrar, gaugeVars, overbooked>>
CatchThrows(a) ==
    /\ sync[a].pc = "catch"
    /\ sync' = [sync EXCEPT ![a] = IF a = Job THEN [pc |-> "aborted"] ELSE Idle]
    /\ excuse' = IF a = Job THEN excuse \cup {"aborted"} ELSE excuse
    /\ UNCHANGED <<scenario, source, dataset, extra, registrar, report, gauge, stamps, overbooked>>
EndTick ==
    /\ sync[Job].pc = "aborted" /\ sync' = [sync EXCEPT ![Job] = Idle]
    /\ UNCHANGED <<scenario, source, dataset, extra, registrar, gaugeVars, overbooked>>

-----------------------------------------------------------------------------
(* The storage gauge. *)

Stamping == {a \in Actors : sync[a].pc = "stamp"}

\* The sum is read first and observed_at is stamped when the body is built.
ReadSizes(a) ==
    /\ sync[a].pc = "report" /\ stamps + Cardinality(Stamping) < scenario.reports
    /\ sync' = [sync EXCEPT ![a] = [pc |-> "stamp", value |-> Sizes]]
    /\ UNCHANGED <<scenario, source, dataset, extra, registrar, gaugeVars, overbooked>>
SendReport(a) ==
    /\ sync[a].pc = "stamp"
    /\ stamps' = stamps + 1
    /\ report' = report \cup {[value |-> sync[a].value, at |-> stamps + 1]}
    /\ sync' = [sync EXCEPT ![a] = Idle]
    /\ excuse' = IF sync[a].value = Sizes THEN {} ELSE {"stale sum"}
    /\ UNCHANGED <<scenario, source, dataset, extra, registrar, gauge, overbooked>>

\* The platform keeps the later observed_at; a report may be lost: nobody retries.
ReportArrivesLast == \E r \in report :   \* mutant: the last report to arrive wins
    /\ report' = report \ {r} /\ gauge' = r
    /\ UNCHANGED <<scenario, source, dataset, extra, registrar, sync, stamps, excuse, overbooked>>
ReportArrives == \E r \in report :
    /\ report' = report \ {r}
    /\ gauge' = IF r.at > gauge.at THEN r ELSE gauge
    /\ UNCHANGED <<scenario, source, dataset, extra, registrar, sync, stamps, excuse, overbooked>>
ReportLost == \E r \in report :
    /\ report' = report \ {r} /\ excuse' = IF r.at = stamps THEN excuse \cup {"lost"} ELSE excuse
    /\ UNCHANGED <<scenario, source, dataset, extra, registrar, sync, gauge, stamps, overbooked>>

\* POST /api/v1/datasets stores a size and reports nothing; the count it checks against the
\* quota may have moved since (module Catalog).  Its code is the caller's: any that is free,
\* one that a sync would make included.
ApiCreate ==
    /\ extra = 0 /\ \A c \in Rows : dataset[c].src # "api"
    /\ \/ extra' = 1 /\ UNCHANGED dataset
       \/ \E c \in DatasetCodes \ Rows, size \in Bytes :
             dataset' = [dataset EXCEPT ![c] = [src |-> "api", size |-> size]] /\ UNCHANGED extra
    /\ excuse' = excuse \cup {"api"}
    /\ UNCHANGED <<scenario, source, registrar, sync, report, gauge, stamps, overbooked>>

SourcesNext ==
    \/ \E r \in Registrars : CountSources(r) \/ RegisterDataSource(r)
    \/ \E s \in SourceIds : UnbindDataSource(s)
    \/ \E a \in Syncers : StartSync(a)
    \/ StartJob \/ EndTick
    \/ \E a \in Actors : Pull(a) \/ SyncCommits(a) \/ SyncThrows(a) \/ Catch(a) \/ CatchThrows(a)
                         \/ ReadSizes(a) \/ SendReport(a)
    \/ ReportArrives \/ ReportLost \/ ApiCreate
SourcesSpec == SourcesInit /\ [][SourcesNext]_sourceVars

-----------------------------------------------------------------------------
(* Properties. *)

SourcesTypeOK ==
    /\ \A s \in Here : /\ source[s].name \in Names
                       /\ source[s].status \in {"connected", "disconnected"}
    /\ \A c \in Rows : dataset[c].src \in SourceIds \cup {"orphan", "api"} /\ dataset[c].size \in Bytes
    /\ extra \in 0..1 /\ gauge.at \in 0..stamps /\ stamps \in 0..scenario.reports
    /\ overbooked \in Nat

\* The plan's caps hold but for what was registered on a count that had moved.
SourceCapHolds == Cardinality(Here) <= DatasourceMax + overbooked

\* Something that is not the source's own is in the way of its syncs: two of the objects make
\* one code, or a row of such a code came from elsewhere.
Obstructed(s) ==
    \/ \E o, p \in scenario.objects : o # p /\ Lower(o) = Lower(p)
    \/ \E o \in scenario.objects : LET c == datasetCode(source[s].name, o) IN
           c \in Rows /\ dataset[c].src # s

\* A sync keeps to the rows of its source.  It overwrites by code what it had read as its own,
\* and that is still its own when it commits, whatever was unbound, registered or synced in
\* between.  And its own rows are never in its way: if the job shows a source as disconnected
\* although the connector answered, the database worked and no other sync of the source
\* overlapped, then something from elsewhere obstructs it (jobs/refresh.ts:126).
SyncKeepsToItsRows ==
    /\ \A a \in Actors : sync[a].pc = "commit" /\ sync[a].id \in Here =>
           \A c \in sync[a].update : c \in Rows /\ dataset[c].src = sync[a].id
    /\ \A s \in Here : source[s].held => Obstructed(s)

\* The gauge heals: once no sync or report is under way, the platform holds the sum of the
\* sizes, whatever order the reports came in, unless the latest one carried a sum that was
\* older than its stamp (usage/lib/gauge.ts:46) or was lost, or since then the write API
\* created a dataset or the job aborted after syncs it had committed.
GaugeHeals ==
    (Reporting /\ report = {} /\ excuse = {} /\ \A a \in Actors : sync[a] = Idle) => gauge.value = Sizes
=============================================================================
