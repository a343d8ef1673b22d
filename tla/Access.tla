------------------------------- MODULE Access -------------------------------
(***************************************************************************)
(* Who sees which screen: the gates of the shell and of the sections, and  *)
(* the menus that announce them.                                           *)
(* A gate is evaluated on the server when a section is entered; the menu's *)
(* badges come from the subscription the browser fetched once.             *)
(***************************************************************************)
EXTENDS Plans

CONSTANTS
    Subscriptions,  \* scenario: what the platform may say of tier and status
    RoleSets        \* scenario: what the session's roles claim may hold

VARIABLES
    subscription,  \* what the resolver answers for the workspace
    roles,         \* the roles of the caller's session
    wiped,         \* the workspace carries the soft-delete mark
    browser,       \* what the page holds: phase, subscription and administrator flag
    item,          \* the <<screen, section>> opened last
    shown,         \* what its section rendered: the content, a panel or the tier to upgrade to
    linked,        \* history: the screen was opened from the menu
    stale          \* history: subscription or roles have moved since the page was loaded

accessVars == <<subscription, roles, wiped, browser, item, shown, linked, stale>>

\* UpgradePanel: a tier to upgrade to, unless no tier has the feature yet.
Panel(f) == IF f \in FUTURE_FEATURE_KEYS THEN "soon" ELSE minTierFor(f)
ScreenGate(section) ==
    IF section \in ADMIN_SCREENS /\ ~isWorkspaceAdmin(roles) THEN "denied"
    ELSE IF section \notin GatedSections \/ canUseFeature(subscription, Feature(section)) THEN "content"
    ELSE Panel(Feature(section))

\* lockedTierTag, with what the browser holds.
Badge(screen) ==
    LET f == Feature(screen)
    IN  IF f = Null \/ canUseFeature(browser.sub, f) THEN Null ELSE minTierFor(f)

activeBoard == CHOOSE b \in Boards : item \in Menu(b)
VisibleToAll(i) == TRUE       \* mutant: the menus hide nothing
Visible(i) == i[1] \in AdminOnly => browser.admin
Inside == browser.phase = "ready" /\ hasProductAccess(browser.sub) /\ shown # "notice"

\* A page load renders the layout of the group; a wiped workspace shows a notice only.
Load(i) ==
    /\ item' = i /\ linked' = FALSE /\ stale' = FALSE
    /\ shown' = IF wiped THEN "notice" ELSE ScreenGate(i[2])
    /\ browser' = [phase |-> IF wiped THEN "ready" ELSE "loading", sub |-> [tier |-> Null, status |-> Null],
                   admin |-> ~wiped /\ isWorkspaceAdmin(roles)]

AccessInit ==
    /\ subscription \in Subscriptions /\ roles \in RoleSets /\ wiped = FALSE
    /\ item = <<"dashboard", "dashboard">> /\ shown = "content" /\ linked = FALSE /\ stale = FALSE
    /\ browser = [phase |-> "loading", sub |-> [tier |-> Null, status |-> Null],
                  admin |-> isWorkspaceAdmin(roles)]

Enter == \E i \in Items : Load(i) /\ UNCHANGED <<subscription, roles, wiped>>

\* EntitlementGate fetches once after the session has been found; an error closes the gate.
FetchEntitlement ==
    /\ browser.phase = "loading"
    /\ \/ browser' = [browser EXCEPT !.phase = "ready", !.sub = subscription]
       \/ browser' = [browser EXCEPT !.phase = "error"]
    /\ UNCHANGED <<subscription, roles, wiped, item, shown, linked, stale>>

\* Navigation inside the page: the layouts that both screens share are kept as they are.
Navigate(i) ==
    /\ item' = i /\ linked' = TRUE
    /\ shown' = IF i[2] = item[2] THEN shown ELSE ScreenGate(i[2])
    /\ UNCHANGED <<subscription, roles, wiped, browser, stale>>
Select == \E i \in Menu(activeBoard) : Inside /\ Visible(i) /\ Navigate(i)
OpenBoard == \E b \in Boards : \E i \in Menu(b) : Inside /\ i[1] = Home(b) /\ Navigate(i)

SubscriptionMoves == \E s \in Subscriptions \ {subscription} :
    /\ subscription' = s /\ stale' = TRUE
    /\ UNCHANGED <<roles, wiped, browser, item, shown, linked>>
RolesMove == \E rs \in RoleSets \ {roles} :
    /\ roles' = rs /\ stale' = TRUE
    /\ UNCHANGED <<subscription, wiped, browser, item, shown, linked>>
WorkspaceWiped ==
    /\ ~wiped /\ wiped' = TRUE
    /\ UNCHANGED <<subscription, roles, browser, item, shown, linked, stale>>

AccessNext == Enter \/ FetchEntitlement \/ Select \/ OpenBoard \/ SubscriptionMoves \/ RolesMove
              \/ WorkspaceWiped
AccessSpec == AccessInit /\ [][AccessNext]_accessVars

-----------------------------------------------------------------------------
(* Properties. *)

AccessTypeOK ==
    /\ browser.phase \in {"loading", "ready", "error"} /\ browser.admin \in BOOLEAN
    /\ item \in Items
    /\ shown \in Tiers \cup {"content", "denied", "soon", "notice"}

\* The menu announces what a screen will show ("Locked screens stay VISIBLE in the nav
\* with a required-tier badge; opening one renders the upgrade interstitial",
\* entitlement/screen-features.ts:6): as long as plan and roles have not moved since the page
\* was loaded, a screen opened from the menu asks for an upgrade exactly when its entry has a
\* badge, and to the tier of the badge, and never denies the role.  Excepted are the three
\* screens whose own feature is below that of their section, two that no section gates, and,
\* for a subscription without one of the five tiers, all that no section gates.
BadgeTellsGate ==
    (Inside /\ linked /\ ~stale) =>
        /\ shown # "denied"
        /\ /\ item[1] \notin {"secClassRules", "secLabeling", "secDiscovery", "metaMap", "metaImpact"}
           /\ browser.sub.tier # Null \/ item[2] \in GatedSections
           => (IF shown \in Tiers THEN shown ELSE Null) = Badge(item[1])
=============================================================================
