------------------------------- MODULE Plans --------------------------------
(***************************************************************************)
(* What the code says of plans, roles and screens: the capability matrix   *)
(* (entitlement/capability.ts, types.ts, roles.ts), the menus of the       *)
(* boards (ui/nav-config.ts), the feature of each screen and the gated     *)
(* sections (entitlement/screen-features.ts and the section layouts).      *)
(***************************************************************************)
EXTENDS Integers, FiniteSets, Sequences

CONSTANT Null  \* no tier, no feature

-----------------------------------------------------------------------------
(* The capability matrix. *)

TIER_ORDER == <<"free", "starter", "pro", "business", "enterprise">>
Tiers == {TIER_ORDER[i] : i \in DOMAIN TIER_ORDER}
tierRank(t) == CHOOSE i \in DOMAIN TIER_ORDER : TIER_ORDER[i] = t
tierMeets(t, low) == tierRank(t) >= tierRank(low)

\* What a tier adds to the one below it.
Adds == [free |-> {"catalog", "edit_metadata", "sources_basic"},
         starter |-> {"glossary", "advanced_search", "classification", "quality_rules"},
         pro |-> {"bulk_ops", "sources_premium", "standards", "master_data", "policies", "lineage",
                  "publish_api", "data_products", "api_keys", "audit_log"},
         business |-> {"cross_workspace_share"},
         enterprise |-> {}]
CAPABILITY_MATRIX == [t \in Tiers |-> UNION {Adds[u] : u \in {v \in Tiers : tierMeets(t, v)}}]
FUTURE_FEATURE_KEYS == {"pipelines", "scheduling", "realtime", "governance", "planning",
                        "architecture", "operations"}

hasProductAccess(s) == s.status \in {"active", "trialing", "overdue"}
canUseFeature(s, f) == hasProductAccess(s) /\ s.tier # Null /\ f \in CAPABILITY_MATRIX[s.tier]
minTierFor(f) ==
    LET ts == {t \in Tiers : f \in CAPABILITY_MATRIX[t]}
    IN  IF ts = {} THEN Null ELSE CHOOSE t \in ts : \A u \in ts : tierMeets(u, t)

isWorkspaceAdmin(rs) == rs \cap {"org:owner", "workspace:owner", "workspace:manager"} # {}

-----------------------------------------------------------------------------
(* The menus: the screens of each board, with the section of their route. *)

At(section, screens) == {<<s, section>> : s \in screens}

AssetMenus == [
    assets |-> At("dashboard", {"dashboard"}) \cup At("todo", {"todo"}) \cup
        At("catalog", {"catalog", "assetFavorites", "assetRequests", "assetTaxonomy", "assetInventory"}),
    services |-> At("service", {"service", "svcPublish", "svcMonitor", "svcSharing"}),
    design |-> At("planning", {"planStrategy", "planRoadmap", "planSystem", "planMaturity", "planScorecard"})
        \cup At("architecture", {"archBusiness", "archSubjects", "archDataflow", "archConceptual",
                                 "archLogical", "archPhysical", "archReview", "archMetrics"})
        \cup At("governance", {"govOrg", "govOwners", "govPolicies"}),
    standards |-> At("standards", {"standards", "stdCodeSets", "stdDictionary", "stdDocuments",
                                   "stdBindings", "stdCompliance", "stdReview"})]
GovernMenus == [
    integration |-> At("sources", {"sources"}) \cup
        At("integration", {"intSync", "intRealtime", "intHealth", "intLogs"}),
    storage |-> At("storage", {"storIngest", "storTables", "storJobs"}),
    engineering |-> At("etl", {"etl", "engScheduling", "engRuns"}),
    quality |-> At("quality", {"quality", "qaTemplates", "qaTasks", "qaResults", "qaAlerts",
                               "qaRemediation", "qaReport"}),
    security |-> At("security", {"security", "secClassRules", "secLabeling", "secDiscovery",
                                 "secMasking", "secAccess", "secRetention", "secApprovals"}),
    masterdata |-> At("masterdata", {"masterdata", "mdmModels", "mdmMatching", "mdmQuality", "mdmServices"})]
OperateMenus == [
    metadata |-> At("metadata", {"metaMap", "metaImpact", "metaTags", "metaHarvest", "metaChanges",
                                 "metaQuality"})
        \cup At("lineage", {"lineage"}) \cup At("glossary", {"glossary"}),
    operations |-> At("operations", {"operations", "opsHeat", "opsServiceStats", "opsCost", "opsReports",
                                     "opsCapacity", "opsDisposal", "opsMonitoring", "opsLogs"})
        \cup At("governance", {"govIssues", "govRectification", "govScorecard"}),
    admin |-> At("approvals", {"approvals", "adminFlows"}) \cup At("apikeys", {"apikeys"})
        \cup At("audit", {"audit"}) \cup At("admin", {"adminDict", "adminNotif", "adminPlatform"})]
Menu(b) == IF b \in DOMAIN AssetMenus THEN AssetMenus[b]
           ELSE IF b \in DOMAIN GovernMenus THEN GovernMenus[b] ELSE OperateMenus[b]
Boards == DOMAIN AssetMenus \cup DOMAIN GovernMenus \cup DOMAIN OperateMenus
Items == UNION {Menu(b) : b \in Boards}

\* The screen that opening a board leads to.
Home(b) == CASE b = "assets" -> "dashboard" [] b = "services" -> "service"
             [] b = "design" -> "planStrategy" [] b = "integration" -> "sources"
             [] b = "storage" -> "storIngest" [] b = "engineering" -> "etl"
             [] b = "metadata" -> "lineage" [] b = "admin" -> "approvals" [] OTHER -> b
\* The screens of the menu groups that only administrators see.
AdminOnly == {"opsDisposal", "adminFlows", "apikeys", "audit", "adminDict", "adminNotif", "adminPlatform"}

Feature(s) ==
    CASE s \in {"catalog", "assetFavorites", "assetRequests", "assetInventory"} -> "catalog"
      [] s \in {"assetTaxonomy", "metaTags"} -> "edit_metadata"
      [] s = "glossary" -> "glossary"
      [] s \in {"standards", "stdCodeSets", "stdDictionary", "stdDocuments", "stdBindings",
                "stdCompliance", "stdReview"} -> "standards"
      [] s \in {"quality", "qaTemplates", "qaTasks", "qaResults", "qaAlerts", "qaRemediation",
                "qaReport"} -> "quality_rules"
      [] s \in {"lineage", "metaMap", "metaImpact"} -> "lineage"
      [] s \in {"security", "secMasking", "secAccess", "secRetention", "secApprovals"} -> "policies"
      [] s \in {"secClassRules", "secLabeling", "secDiscovery"} -> "classification"
      [] s \in {"service", "svcPublish", "svcMonitor"} -> "publish_api"
      [] s = "svcSharing" -> "data_products"
      [] s = "sources" -> "sources_basic"
      [] s = "apikeys" -> "api_keys"
      [] s = "audit" -> "audit_log"
      [] s \in {"masterdata", "mdmModels", "mdmMatching", "mdmQuality", "mdmServices"} -> "master_data"
      [] s \in {"planning", "planStrategy", "planRoadmap", "planSystem", "planMaturity",
                "planScorecard"} -> "planning"
      [] s \in {"architecture", "archBusiness", "archSubjects", "archDataflow", "archConceptual",
                "archLogical", "archPhysical", "archReview", "archMetrics"} -> "architecture"
      [] s \in {"governance", "govOrg", "govOwners", "govPolicies", "govIssues", "govRectification",
                "govScorecard"} -> "governance"
      [] s \in {"operations", "opsHeat", "opsServiceStats", "opsCost", "opsReports", "opsDisposal",
                "opsMonitoring", "opsLogs"} -> "operations"
      [] s = "intRealtime" -> "realtime"
      [] s = "engScheduling" -> "scheduling"
      [] s = "engRuns" -> "pipelines"
      [] OTHER -> Null

\* The sections whose layout holds a ScreenGate.
GatedSections == {"apikeys", "architecture", "audit", "glossary", "governance", "lineage", "masterdata",
                  "planning", "quality", "security", "service", "sources", "standards"}
ADMIN_SCREENS == {"apikeys", "audit"}
=============================================================================
