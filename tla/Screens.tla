------------------------------ MODULE Screens -------------------------------
(***************************************************************************)
(* The pages and the server actions behind their controls.  A page is      *)
(* rendered from the state of one moment and offers controls by the role,  *)
(* the plan and the row it saw; a click runs a server action that checks   *)
(* role, plan and row again, as they are by then.  A refused click leaves  *)
(* the page as it was; an accepted one renders it anew.                    *)
(*                                                                         *)
(* One row stands for the list of a page; inputs are valid and fresh.      *)
(***************************************************************************)
EXTENDS Plans

CONSTANTS
    Subscriptions,  \* scenario: what the resolver may answer
    Gone            \* a row that is not there

-----------------------------------------------------------------------------
(* The rows of the pages, by what the controls and the actions tell apart. *)

Row == {"row"}
AnyRow == {"row", Gone}
\* A reference asset of the platform is read-only, whatever the role.
AssetRows == {"own", "platform"}
\* The row of the register form is the plan's cap on sources.
Caps == {"room", "full"}
AssetMarks == {"golden", "plain"}
\* Sources differ in kind; a sync needs a connector and a sealed config.
SourceKinds == {"live", "premium", "unsupported", "no_config"}
\* The row "drained" is an enabled rule while the pool of check runs is empty.
RuleRows == {"enabled", "disabled", "drained"}
ServiceRows == {"draft", "running", "paused"}
KeyRows == {"active", "revoked"}
RowKinds == {Row, AssetRows, Caps, AssetMarks, SourceKinds, RuleRows, ServiceRows, KeyRows}

\* What the actions of all members do to a row.
Becomes(row) ==
    CASE row \in {"draft", "paused"} -> {"running", Gone}
      [] row = "running" -> {"paused"}
      [] row = "active" -> {"revoked"}
      [] row = "enabled" -> {"disabled", "drained", Gone}
      [] row = "disabled" -> {"enabled", Gone}
      [] row = "drained" -> {"enabled", "disabled", Gone}
      [] row = "golden" -> {"plain"} [] row = "plain" -> {"golden"}
      [] row = "room" -> {"full"} [] row = "full" -> {"room"}
      [] row \in SourceKinds -> {Gone}
      [] OTHER -> {}

-----------------------------------------------------------------------------
(* The server actions: the feature that the plan must have, the rows that  *)
(* an action takes, and whether it is for administrators.                  *)

Action(feature, takes) == [feature |-> feature, takes |-> takes, admin |-> TRUE]

CatalogActions == [setGoldenRecord |-> Action("master_data", {"own", "golden", "plain"}),
                   attachTag |-> Action("edit_metadata", {"own"}),
                   setDatasetClassification |-> Action("classification", {"own"} \cup Row)]
StandardActions == [attachStandard |-> Action("standards", {"own"})]
RequestActions == [submitAccessRequest |-> [Action(Null, {"own"}) EXCEPT !.admin = FALSE]]
RegisterActions == [registerDataSource |-> Action("sources_basic", {"room"}),
                    registerPremium |-> Action("sources_premium", {"room"})]
SyncActions == [syncDataSource |-> Action("sources_basic", {"live"}),
                syncPremium |-> Action("sources_premium", {"premium"})]
UnbindActions == [unbindDataSource |-> Action(Null, SourceKinds)]
RuleActions == [createQualityRule |-> Action("quality_rules", RuleRows \cup {Gone}),
                setQualityRuleEnabled |-> Action("quality_rules", RuleRows),
                deleteQualityRule |-> Action("quality_rules", RuleRows)]
RunActions == [runWorkspaceChecks |-> Action("quality_rules", {"enabled"})]
PolicyActions == [setMaxExternalLevel |-> Action("policies", AnyRow),
                  createMaskingRule |-> Action("policies", AnyRow),
                  deleteMaskingRule |-> Action("policies", Row)]
ServiceActions == [createDataService |-> Action("publish_api", ServiceRows \cup {Gone}),
                   updateDataService |-> Action("publish_api", {"draft", "paused"}),
                   unpublishDataService |-> Action("publish_api", ServiceRows),
                   deleteDataService |-> Action("publish_api", {"draft", "paused"})]
PublishActions == [publishDataService |-> Action("publish_api", ServiceRows)]
KeyActions == [createApiKey |-> Action(Null, KeyRows), revokeApiKey |-> Action(Null, KeyRows)]
TermActions == [createGlossaryTerm |-> Action("glossary", Row)]
TagActions == [createTag |-> Action("edit_metadata", AnyRow), deleteTag |-> Action("edit_metadata", Row)]
LinkActions == [addLineageEdge |-> Action("lineage", Row)]

ActionOf(name) ==
    CASE name \in DOMAIN CatalogActions -> CatalogActions[name]
      [] name \in DOMAIN StandardActions -> StandardActions[name]
      [] name \in DOMAIN RequestActions -> RequestActions[name]
      [] name \in DOMAIN RegisterActions -> RegisterActions[name]
      [] name \in DOMAIN SyncActions -> SyncActions[name]
      [] name \in DOMAIN UnbindActions -> UnbindActions[name]
      [] name \in DOMAIN RuleActions -> RuleActions[name]
      [] name \in DOMAIN RunActions -> RunActions[name]
      [] name \in DOMAIN PolicyActions -> PolicyActions[name]
      [] name \in DOMAIN ServiceActions -> ServiceActions[name]
      [] name \in DOMAIN PublishActions -> PublishActions[name]
      [] name \in DOMAIN KeyActions -> KeyActions[name]
      [] name \in DOMAIN TermActions -> TermActions[name]
      [] name \in DOMAIN TagActions -> TagActions[name]
      [] name \in DOMAIN LinkActions -> LinkActions[name]

\* The row after an action that was accepted.
After(name, row) ==
    CASE name = "publishDataService" -> "running"
      [] name = "unpublishDataService" -> "paused"
      [] name \in {"unbindDataSource", "deleteDataService", "deleteQualityRule", "deleteMaskingRule",
                   "deleteTag"} -> Gone
      [] name = "setQualityRuleEnabled" -> IF row = "disabled" THEN "enabled" ELSE "disabled"
      [] name = "revokeApiKey" -> "revoked"
      [] name = "setGoldenRecord" -> IF row = "own" THEN row ELSE "plain"
      [] OTHER -> row

-----------------------------------------------------------------------------
(* The controls of each page: the action behind one, the rows for which it *)
(* is shown, and whether it is shown to administrators only.               *)

Control(name, rows) == [name |-> name, shown |-> rows, admin |-> TRUE]
OpenControl(name, rows) == [name |-> name, shown |-> rows, admin |-> FALSE]

RequestForm == OpenControl("submitAccessRequest", AssetRows)
SidePanel == {Control(name, {"own"}) : name \in {"attachTag", "setDatasetClassification", "attachStandard"}}
AssetPage == {Control("setGoldenRecord", {"own"}), RequestForm} \cup SidePanel
LabelingPage == {Control("setDatasetClassification", Row)}
MasterdataPage == {Control("setGoldenRecord", {"golden"})}
RegisterPage == {Control(name, {"room"}) : name \in {"registerDataSource", "registerPremium"}}
SourcesPage == {Control("syncDataSource", SourceKinds \ {"premium"}), Control("syncPremium", {"premium"}),
                Control("unbindDataSource", SourceKinds)}
QualityPage == {Control(name, RuleRows) : name \in {"setQualityRuleEnabled", "deleteQualityRule"}}
          \cup {Control(name, RuleRows \cup {Gone}) : name \in {"createQualityRule", "runWorkspaceChecks"}}
SecurityPage == {Control("setMaxExternalLevel", AnyRow), Control("createMaskingRule", AnyRow),
                 Control("deleteMaskingRule", Row)}
ServicePage == {Control("publishDataService", {"draft"})}
PublishPage == {Control("createDataService", ServiceRows \cup {Gone}),
                Control("publishDataService", {"draft"}),
                Control("unpublishDataService", {"running"})}
          \cup {Control(name, {"draft", "paused"}) : name \in {"updateDataService", "deleteDataService"}}
\* The page takes no role of its own: its section's gate lets administrators in only.
ApikeysPage == {OpenControl("createApiKey", KeyRows), OpenControl("revokeApiKey", {"active"})}
GlossaryPage == {Control("createGlossaryTerm", Row)}
TagsPage == {Control("createTag", AnyRow), Control("deleteTag", Row)}
LineagePage == {Control("addLineageEdge", Row)}

Page == [asset |-> AssetPage, labeling |-> LabelingPage, masterdata |-> MasterdataPage,
         register |-> RegisterPage, sources |-> SourcesPage, quality |-> QualityPage,
         security |-> SecurityPage, service |-> ServicePage, publish |-> PublishPage,
         apikeys |-> ApikeysPage, glossary |-> GlossaryPage, tags |-> TagsPage, lineage |-> LineagePage]
Pages == DOMAIN Page
Section == [p \in Pages |-> CASE p = "asset" -> "catalog" [] p = "labeling" -> "security"
                              [] p = "register" -> "sources" [] p = "publish" -> "service"
                              [] p = "tags" -> "metadata" [] OTHER -> p]
Statuses(p) == LET rows == UNION {c.shown : c \in Page[p]}
               IN  rows \cup UNION {kind \in RowKinds : kind \cap rows # {}}

-----------------------------------------------------------------------------
VARIABLES
    plan,     \* the workspace's subscription, by the resolver
    admin,    \* whether the caller's session is an administrator's
    page,     \* the page that is open
    row,      \* its row, in the database
    view,     \* what the page was rendered from: row, role, and the browser's subscription
    click,    \* the control clicked last
    result,   \* what came of it
    moved,    \* history: plan, role or row were moved by others since the page was rendered
    unseen    \* history: the page was not rendered anew after an action of its own

screenVars == <<plan, admin, page, row, view, click, result, moved, unseen>>

NoClick == [name |-> "none"]

\* ScreenGate, and for the pages of the role-locked sections the role.
Opens(p) ==
    /\ Section[p] \in ADMIN_SCREENS => admin
    /\ Section[p] \in GatedSections => canUseFeature(plan, Feature(Section[p]))

OffersToAny(p, v, c) == v.row \in c.shown   \* mutant: the page does not look at the role
Offers(p, v, c) ==
    /\ v.row \in c.shown
    /\ c.admin => v.admin
    /\ c.name = "registerPremium" => v.plan = Null \/ canUseFeature(v.plan, "sources_premium")

\* The checks of the action: role, plan, row.
Accepts(name) ==
    /\ ActionOf(name).admin => admin
    /\ ActionOf(name).feature = Null \/ canUseFeature(plan, ActionOf(name).feature)
    /\ row \in ActionOf(name).takes

ScreensInit ==
    /\ plan \in Subscriptions /\ hasProductAccess(plan) /\ admin \in BOOLEAN
    /\ page \in Pages /\ Opens(page)
    /\ row \in Statuses(page)
    /\ view = [row |-> row, admin |-> admin, plan |-> plan]
    /\ click = NoClick /\ result = "none" /\ moved = FALSE /\ unseen = FALSE

Click == \E c \in Page[page] :
    /\ result # "running" /\ Offers(page, view, c)
    /\ click' = c /\ result' = "running"
    /\ UNCHANGED <<plan, admin, page, row, view, moved, unseen>>

\* The actions revalidate the pages of their table; publishing revalidates /service only.
\* What has been published or revoked already is accepted without a change.
Accept ==
    /\ result = "running" /\ Accepts(click.name)
    /\ row' = After(click.name, row) /\ result' = "ok"
    /\ LET repeated == click.name \in {"publishDataService", "revokeApiKey"} /\ row' = row IN
       \/ /\ ~repeated
          /\ view' = [row |-> row', admin |-> admin, plan |-> view.plan]
          /\ moved' = (view.plan # plan) /\ unseen' = FALSE
       \/ /\ ~repeated /\ page = "publish" /\ click.name = "publishDataService"
          /\ unseen' = TRUE /\ UNCHANGED <<view, moved>>
       \/ /\ repeated
          /\ UNCHANGED <<view, moved, unseen>>
    /\ UNCHANGED <<plan, admin, page, click>>

\* The quality gate of a publish may block it.
Block ==
    /\ result = "running" /\ click.name = "publishDataService" /\ Accepts(click.name) /\ row # "running"
    /\ result' = "blocked"
    /\ UNCHANGED <<plan, admin, page, row, view, click, moved, unseen>>
Refuse ==
    /\ result = "running" /\ ~Accepts(click.name)
    /\ result' = "refused"
    /\ UNCHANGED <<plan, admin, page, row, view, click, moved, unseen>>

\* What happens elsewhere.
RowMoves == \E new \in Becomes(row) :
    /\ row' = new /\ moved' = TRUE
    /\ UNCHANGED <<plan, admin, page, view, click, result, unseen>>
PlanMoves == \E new \in Subscriptions \ {plan} :
    /\ plan' = new /\ moved' = TRUE
    /\ UNCHANGED <<admin, page, row, view, click, result, unseen>>
RoleMoves ==
    /\ admin' = ~admin /\ moved' = TRUE
    /\ UNCHANGED <<plan, page, row, view, click, result, unseen>>

ScreensNext == Click \/ Accept \/ Block \/ Refuse \/ RowMoves \/ PlanMoves \/ RoleMoves
ScreensSpec == ScreensInit /\ [][ScreensNext]_screenVars

-----------------------------------------------------------------------------
(* Properties. *)

ScreensTypeOK ==
    /\ plan \in Subscriptions
    /\ row \in Statuses(page) \cup {Gone} /\ view.row \in Statuses(page) \cup {Gone}
    /\ click = NoClick \/ click \in Page[page]
    /\ result \in {"none", "running", "ok", "blocked", "refused"}

\* Controls that are refused though nothing has moved: the asset page does not look at the
\* plan and offers its request form for the platform's assets too; a source is offered a sync
\* it cannot have; checks are offered with no enabled rule or no pool; and a subscription
\* without one of the five tiers opens the pages that no section gates.
LacksFeature == ~canUseFeature(plan, ActionOf(click.name).feature)
DeadEnd ==
    \/ plan.tier = Null /\ Section[page] \notin GatedSections
    \/ page = "asset" /\ IF click.name = "submitAccessRequest" THEN row = "platform"
                         ELSE click.name # "attachTag" /\ LacksFeature
    \/ page = "sources" /\ IF click.name = "syncPremium" THEN LacksFeature
                           ELSE click.name = "syncDataSource" /\ row \in {"unsupported", "no_config"}
    \/ page = "quality" /\ click.name = "runWorkspaceChecks" /\ row # "enabled"

\* An offer is good: a click is refused only if plan, role or row have moved since the page
\* was rendered, at one of the dead ends, or on the publish form after a publish of its own.
OfferedIsAccepted == result = "refused" => moved \/ unseen \/ DeadEnd
=============================================================================
