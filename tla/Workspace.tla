----------------------------- MODULE Workspace ------------------------------
(***************************************************************************)
(* One workspace: the components that hold its rows, the requests and      *)
(* reads of its clients, and its pages.  They share the database but no    *)
(* row that steps of two of them change, so each behaviour exercises one   *)
(* of them, the part; the variables of the others are not in use.          *)
(***************************************************************************)
EXTENDS Catalog

CONSTANTS
    Parts,  \* the parts that are exercised
    Gone,   \* a row that is not there, a time that never comes, a variable not in use
    Fresh   \* a row that has not been yet

CONSTANTS
    Admins, Requester,                              \* administrators, and who asks for access
    Datasets, Services, Rules, Live, MaxCode, MaxRuns,  \* publishing
    Linked, Levels, Setters, DefaultMax, MaxRules, Strategies, Movings,  \* the gateway
    SourceIds, Objects, Lower(_), Registrars, Syncers, Job, Names, DatasourceMax, Bytes,
    Scenarios,                                      \* sources and their syncs
    Calls, Limit, Window, Grace, MaxTime,           \* admission to the API
    Ids, SortKeys, RawLimits, LIMIT_DEFAULT, LIMIT_MAX,  \* lists
    Subscriptions, RoleSets, PageSubscriptions,     \* screens and pages
    Requests,                                       \* access requests
    Entries, MaxFaults                              \* first entries

ASSUME PartsAssumption ==
    Parts \subseteq {"catalog", "publishing", "gateway", "sources", "admission", "reads", "access",
                     "screens", "approvals", "firstEntry"}

\* A row that is not there can be told from one that is.
ASSUME GoneIsNoRequest ==
    Gone \notin [status: {"pending", "approved", "rejected", "cancelled"}, decidedBy: Admins \cup {Gone}]
ASSUME GoneIsNoStatus == Gone \notin {"null", "pending", "seeding", "done", "failed"}
ASSUME GoneIsNoKey ==
    Gone \notin [bound: {"none", "this", "other"}, minted: {"none", "this", "other"}, revoked: BOOLEAN]
ASSUME GoneIsNoTime == Gone \notin Nat
ASSUME AdmissionAssumption ==
    Limit \in Nat /\ Window \in Nat \ {0} /\ Grace \in Nat /\ MaxTime \in Nat
ASSUME GoneIsNoSource ==
    Gone \notin [name: Names, status: {"connected", "disconnected"}, held: BOOLEAN]
ASSUME GoneIsNoDataset == Gone \notin [src: SourceIds \cup {"orphan", "api"}, size: Bytes]
ASSUME SourcesAssumption ==
    /\ Scenarios \subseteq [sources: SUBSET SourceIds, objects: SUBSET Objects,
                           registrars: SUBSET Registrars, reports: Nat]
    /\ DatasourceMax \in Nat /\ IsFiniteSet(Objects) /\ IsFiniteSet(Syncers) /\ Job \notin Syncers
    /\ {"orphan", "api"} \cap SourceIds = {}
ASSUME PublishingAssumption == MaxCode \in Nat /\ MaxRuns \in Nat
ASSUME GatewayAssumption ==
    Levels \subseteq Int /\ DefaultMax \in Levels /\ IsFiniteSet(Setters) /\ MaxRules \in Nat

ASSUME GoneIsNoListed ==
    {Gone, Fresh} \cap [owner: {"own", "platform", "other"}, sort: SortKeys, match: BOOLEAN] = {}
ASSUME ReadsAssumption ==
    /\ Ids \subseteq Int /\ IsFiniteSet(Ids) /\ SortKeys \subseteq Int
    /\ Gone \notin Ids /\ Gone # Fresh
    /\ RawLimits \subseteq Int /\ LIMIT_MAX \in Nat /\ LIMIT_DEFAULT \in 0..LIMIT_MAX

VARIABLES part,
    service, rule, runs, editor, standing,
    moving, front, apiKey, level, policies, masks, member, lastSet, call, seen,
    scenario, source, copied, extra, registrar, sync, report, gauge, stamps, excuse, overbooked,
    caller, time, key, access, counter, incoming, passed, late, torn,
    list, listed, walk, steady, touched,
    subscription, roles, browser, item, shown, linked, stale,
    plan, admin, page, row, view, click, result, moved, unseen,
    application, trail, tab, action, overtaken,
    autofill, anchor, own, copies, entry, audited, faults,
    wiped   \* the workspace carries the soft-delete mark, for those that ask

Pub == INSTANCE Publishing WITH admin <- editor, Absent <- Gone
Gate == INSTANCE Gateway WITH
    access <- policies, Members <- Setters, Moves <- Movings, NoRow <- Gone
Src == INSTANCE Sources WITH dataset <- copied
Adm == INSTANCE Admission WITH request <- incoming, Requests <- Calls, Never <- Gone
Rd == INSTANCE Reads WITH row <- listed, Unused <- Fresh, Deleted <- Gone, NoCursor <- Gone
Acc == INSTANCE Access WITH Null <- Gone
Scr == INSTANCE Screens WITH Subscriptions <- PageSubscriptions, Null <- Fresh
App == INSTANCE Approvals WITH request <- application, Missing <- Gone
Seed == INSTANCE FirstEntry WITH NoAnchor <- Gone

\* A subscription has one of the five tiers or none, as it is parsed.
ASSUME SubscriptionsAssumption ==
    /\ \A s \in Subscriptions : s.tier \in Acc!Tiers \cup {Gone}
    /\ \A t \in Acc!Tiers : Gone \notin Acc!Adds[t]
    /\ \A s \in PageSubscriptions : s.tier \in Scr!Tiers \cup {Fresh}
    /\ Fresh \notin PageSubscriptions
ASSUME GoneIsNoRow == Gone \notin UNION Scr!RowKinds

\* The variables of each part.
publishingVars == <<service, rule, runs, editor, standing>>
gatewayVars == <<moving, front, apiKey, level, policies, masks, member, lastSet, call, seen>>
sourcesVars == <<scenario, source, copied, extra, registrar, sync, report, gauge, stamps, excuse,
                 overbooked>>
admissionVars == <<caller, time, key, access, counter, incoming, passed, late, torn>>
readsVars == <<list, listed, walk, steady, touched>>
accessVars == <<subscription, roles, browser, item, shown, linked, stale>>
screensVars == <<plan, admin, page, row, view, click, result, moved, unseen>>
approvalsVars == <<application, trail, tab, action, overtaken>>
firstEntryVars == <<autofill, anchor, own, copies, entry, audited, faults>>
workspaceVars == <<part, wiped, catalogVars, publishingVars, gatewayVars, sourcesVars, admissionVars,
                   readsVars, accessVars, screensVars, approvalsVars, firstEntryVars>>

-----------------------------------------------------------------------------
(* Each part begins as its module says, or is not in use. *)

PublishingBegins ==
    IF part = "publishing" THEN Pub!PublishInit
    ELSE service = Gone /\ rule = Gone /\ runs = Gone /\ editor = Gone /\ standing = Gone
GatewayBegins ==
    IF part = "gateway" THEN Gate!GatewayInit
    ELSE /\ moving = Gone /\ front = Gone /\ apiKey = Gone /\ level = Gone /\ policies = Gone
         /\ masks = Gone /\ member = Gone /\ lastSet = Gone /\ call = Gone /\ seen = Gone
SourcesBegin ==
    IF part = "sources" THEN Src!SourcesInit
    ELSE /\ scenario = Gone /\ source = Gone /\ copied = Gone /\ extra = Gone /\ registrar = Gone
         /\ sync = Gone /\ report = Gone /\ gauge = Gone /\ stamps = Gone /\ excuse = Gone
         /\ overbooked = Gone
AdmissionBegins ==
    IF part = "admission" THEN Adm!AdmissionInit
    ELSE /\ caller = Gone /\ time = Gone /\ key = Gone /\ access = Gone /\ counter = Gone
         /\ incoming = Gone /\ passed = Gone /\ late = Gone /\ torn = Gone
ReadsBegin ==
    IF part = "reads" THEN Rd!ReadsInit
    ELSE list = Gone /\ listed = Gone /\ walk = Gone /\ steady = Gone /\ touched = Gone
AccessBegins ==
    IF part = "access" THEN Acc!AccessInit
    ELSE /\ subscription = Gone /\ roles = Gone /\ browser = Gone /\ item = Gone /\ shown = Gone
         /\ linked = Gone /\ stale = Gone
ScreensBegin ==
    IF part = "screens" THEN Scr!ScreensInit
    ELSE /\ plan = Gone /\ admin = Gone /\ page = Gone /\ row = Gone /\ view = Gone
         /\ click = Gone /\ result = Gone /\ moved = Gone /\ unseen = Gone
ApprovalsBegin ==
    IF part = "approvals" THEN App!ApprovalsInit
    ELSE application = Gone /\ trail = Gone /\ tab = Gone /\ action = Gone /\ overtaken = Gone
FirstEntryBegins ==
    IF part = "firstEntry" THEN Seed!FirstEntryInit
    ELSE /\ autofill = Gone /\ anchor = Gone /\ own = Gone /\ copies = Gone /\ entry = Gone
         /\ audited = Gone /\ faults = Gone

\* The catalogue is there in every part, with the first scenario when nobody works on it.
WorkspaceInit ==
    /\ part \in Parts /\ wiped = FALSE
    /\ CatalogInit /\ (part = "catalog" \/ kinds = {"dataset", "sync"})
    /\ PublishingBegins /\ GatewayBegins /\ SourcesBegin /\ AdmissionBegins /\ ReadsBegin
    /\ AccessBegins /\ ScreensBegin /\ ApprovalsBegin /\ FirstEntryBegins

-----------------------------------------------------------------------------
(* A step is one of the part. *)

Around1 == <<part, catalogVars>>                                \* all but a part's own
Around2 == <<publishingVars, gatewayVars, sourcesVars>>
Around3 == <<admissionVars, readsVars, accessVars>>
Around4 == <<screensVars, approvalsVars, firstEntryVars>>

CatalogRuns == part = "catalog" /\ CatalogNext
    /\ UNCHANGED <<part, wiped, Around2, Around3, Around4>>
PublishingRuns == part = "publishing" /\ Pub!PublishNext
    /\ UNCHANGED <<Around1, wiped, gatewayVars, sourcesVars, Around3, Around4>>
GatewayRuns == part = "gateway" /\ Gate!GatewayNext
    /\ UNCHANGED <<Around1, publishingVars, sourcesVars, Around3, Around4>>
SourcesRun == part = "sources" /\ Src!SourcesNext
    /\ UNCHANGED <<Around1, wiped, publishingVars, gatewayVars, Around3, Around4>>
AdmissionRuns == part = "admission" /\ Adm!AdmissionNext
    /\ UNCHANGED <<Around1, Around2, readsVars, accessVars, Around4>>
ReadsRun == part = "reads" /\ Rd!ReadsNext
    /\ UNCHANGED <<Around1, wiped, Around2, admissionVars, accessVars, Around4>>
AccessRuns == part = "access" /\ Acc!AccessNext
    /\ UNCHANGED <<Around1, Around2, admissionVars, readsVars, Around4>>
ScreensRun == part = "screens" /\ Scr!ScreensNext
    /\ UNCHANGED <<Around1, wiped, Around2, Around3, approvalsVars, firstEntryVars>>
ApprovalsRun == part = "approvals" /\ App!ApprovalsNext
    /\ UNCHANGED <<Around1, wiped, Around2, Around3, screensVars, firstEntryVars>>
FirstEntryRuns == part = "firstEntry" /\ Seed!FirstEntryNext
    /\ UNCHANGED <<Around1, wiped, Around2, Around3, screensVars, approvalsVars>>

WorkspaceNext ==
    \/ CatalogRuns \/ PublishingRuns \/ GatewayRuns \/ SourcesRun
    \/ AdmissionRuns \/ ReadsRun \/ AccessRuns \/ ScreensRun \/ ApprovalsRun \/ FirstEntryRuns
WorkspaceSpec == WorkspaceInit /\ [][WorkspaceNext]_workspaceVars

-----------------------------------------------------------------------------
(* The properties of the parts, under one roof. *)

\* Types, and the facts of the tables' unique indexes, in every part.
WorkspaceTypeOK ==
    CASE part = "catalog" -> CatalogTypeOK
      [] part = "publishing" -> Pub!PublishTypeOK
      [] part = "gateway" -> Gate!GatewayTypeOK
      [] part = "sources" -> Src!SourcesTypeOK
      [] part = "admission" -> Adm!AdmissionTypeOK
      [] part = "reads" -> Rd!ReadsTypeOK
      [] part = "access" -> Acc!AccessTypeOK
      [] part = "screens" -> Scr!ScreensTypeOK
      [] part = "approvals" -> App!ApprovalsTypeOK
      [] part = "firstEntry" -> Seed!FirstEntryTypeOK

\* What a running service serves is what its quality gate saw, unless an edit and a publish
\* overlapped, and a publish passes over no check that fails all the while (service/actions.ts).
RunningWasGated == part = "publishing" => Pub!RunningWasGated

\* A gateway call that is answered has obeyed the service's status, the wipe mark, the access
\* level and the masks of some moment of it (api/services/[serviceId]); and the level set last
\* is in force while there is one access policy (security/actions.ts).
AnswersObeyPolicy == part = "gateway" => Gate!AnswersObeyPolicy /\ Gate!LevelInForce

\* A sync overwrites rows of its own source only, and they are never in its way
\* ((app)/sources/actions.ts, jobs/refresh.ts).
SyncKeepsToItsRows == part = "sources" => Src!SyncKeepsToItsRows

\* At rest the platform's storage gauge is the sum of the sizes, but for a named excuse
\* (usage/lib/gauge.ts).
GaugeHeals == part = "sources" => Src!GaugeHeals

\* A rate-limit counter lets no more through than the limit, and stays for ever only after a
\* failed PEXPIRE (lib/api/rate-limit.ts).
RateLimitHolds == part = "admission" => Adm!RateLimitHolds

\* A client that walks a list receives every row that matched all the while, once
\* (lib/api/pagination.ts).
PagesAreComplete == part = "reads" => Rd!PagesAreComplete

\* The badge of a menu entry is what its screen's gate will say (ui/sidebar.tsx,
\* entitlement/screen-gate.tsx).
BadgeTellsGate == part = "access" => Acc!BadgeTellsGate

\* A control that a page offers is refused only if something has moved since, or at one of the
\* named dead ends (the pages and their actions.ts).
OfferedIsAccepted == part = "screens" => Scr!OfferedIsAccepted

\* An access request is decided once, unless two actions had both read it as pending
\* (approvals/actions.ts).
DecidedOnceUnlessRaced == part = "approvals" => App!DecidedOnceUnlessRaced

\* The seed status says truly whether the template was cloned, and is left at seeding only by
\* a crash or a failing release (lib/seed-fill.ts).
SeedStatusIsTrue == part = "firstEntry" => Seed!SeedStatusIsTrue

\* The plan's caps on datasets and on sources hold, but for what was created on a count that
\* had moved (api/v1/datasets/route.ts:102, (app)/sources/actions.ts:57).
CapsHold == CapExceededOnlyByRace /\ (part = "sources" => Src!SourceCapHolds)
=============================================================================
