---------------------------- MODULE MCWorkspace -----------------------------
(***************************************************************************)
(* Workspace on small instances of its parts.                              *)
(***************************************************************************)
EXTENDS Workspace

\* The kinds of writer that run together in the catalogue.
MCKinds == {[kinds |-> {"dataset", "sync"}, codes |-> {}],
            [kinds |-> {"dataset", "request"}, codes |-> {1}],
            [kinds |-> {"edge", "request"}, codes |-> {1, 2}],
            [kinds |-> {"action"}, codes |-> {1, 2, 3}]}

\* The settings that move together while calls of the gateway are made.
MCMovings == {{"service"}, {"level", "access"}, {"masks"}}

\* The two objects make one code.  Two sources and two registrations, and one source of two
\* objects with the gauge that follows its syncs.
MCLower(o) == "t"
MCScenarios == {[sources |-> {"s1", "s2"}, objects |-> {"t"}, registrars |-> {"r1", "r2"}, reports |-> 0],
                [sources |-> {"s1"}, objects |-> {"t", "T"}, registrars |-> {"r1"}, reports |-> 2]}

\* Plans and roles that differ in everything the gates ask; three plans at which the features
\* of the pages begin; and no tier of the five.
MCSubscriptions == {[tier |-> "starter", status |-> "overdue"], [tier |-> "pro", status |-> "expired"],
                    [tier |-> Gone, status |-> "active"]}
MCRoleSets == {{"workspace:manager"}, {"workspace:member"}}
MCPageSubscriptions == {[tier |-> t, status |-> "active"] : t \in {"free", "starter", "pro", Fresh}}
=============================================================================
