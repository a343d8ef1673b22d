-------------------------- MODULE Governance_proofs -------------------------
(***************************************************************************)
(* Proofs about the parts of a workspace that its people use: those in     *)
(* which administrators act on each other's rows, for all administrators,  *)
(* datasets, services, rules and requests (a running service serves what   *)
(* its quality gate saw; an access request is decided once), and what the  *)
(* menus and the pages promise, for all plans and roles.                   *)
(***************************************************************************)
EXTENDS Workspace, Catalog_proofs, TLAPS

RowOps == {"update", "unpublish", "delete", "publish", "verdict", "commit"}

\* A service, whatever its code and links; a rule; what an action at work looks like.
IsService(x) == x \in [status: {"draft", "review", "running", "paused"}, code: {x.code}, links: {x.links},
                       gated: {x.gated}, raced: BOOLEAN]
IsRule(x) == x = [ds |-> x.ds, severity |-> x.severity, enabled |-> x.enabled, config |-> x.config,
                  latest |-> x.latest, at |-> x.at]
OnRow(q) == q \in [op: RowOps, id: Services, links: {q.links}, moved: BOOLEAN]
IsCreate(q) == q = [op |-> "create", links |-> q.links, code |-> q.code]
IsRun(q) == q = [op |-> "run", due |-> q.due, config |-> q.config, severity |-> q.severity, at |-> q.at]
PublishShapes ==
    /\ service = [s \in Services |-> service[s]] /\ \A s \in Pub!ServiceIds : IsService(service[s])
    /\ rule = [r \in Rules |-> rule[r]] /\ \A r \in Pub!RuleIds : IsRule(rule[r])
    /\ editor = [a \in Admins |-> editor[a]]
    /\ \A a \in Admins :
          editor[a] = Pub!Idle \/ OnRow(editor[a]) \/ IsCreate(editor[a]) \/ IsRun(editor[a])

\* What an action knows of its row is true until it is overtaken: an edit, that the service does
\* not run; a publish, what it links.
ReadOf(q) == (~q.moved /\ service[q.id] # Gone) =>
    /\ q.op = "update" => service[q.id].status # "running"
    /\ q.op \in {"verdict", "commit"} => service[q.id].links = q.links
ReadIsTrue == \A a \in Admins : editor[a].op \in RowOps => ReadOf(editor[a])

RunsAsGated == \A s \in Pub!ServiceIds : service[s].status = "running" /\ ~service[s].raced =>
                   service[s].links = service[s].gated
PubInv == PublishShapes /\ ReadIsTrue /\ RunsAsGated

\* What has failed all the while a publish was under way is in the way of its gate, and nothing
\* is left of it behind the gate.
StandsBefore(q, S) == /\ q.op = "verdict" => S \subseteq Pub!Blockers(q.links)
                      /\ q.op = "commit" => S = {}
StandingInv == /\ standing = [a \in Admins |-> standing[a]]
               /\ \A a \in Admins : StandsBefore(editor[a], standing[a])

LEMMA PublishBegins == Pub!PublishInit => PubInv /\ StandingInv
<1> SUFFICES ASSUME Pub!PublishInit PROVE PubInv /\ StandingInv
  OBVIOUS
<1>1. /\ \A a \in Admins : editor[a] = Pub!Idle
      /\ service = [s \in Services |-> service[s]] /\ rule = [r \in Rules |-> rule[r]]
      /\ editor = [a \in Admins |-> editor[a]] /\ standing = [a \in Admins |-> standing[a]]
  BY DEF Pub!PublishInit
<1>2. ASSUME NEW r \in Pub!RuleIds PROVE IsRule(rule[r])
  <2>1. rule[r] \in Pub!Seeded \cup Pub!Loaded
    BY DEF Pub!PublishInit, Pub!RuleIds
  <2> QED  BY <2>1 DEF Pub!Seeded, Pub!Loaded, IsRule
<1>3. ASSUME NEW s \in Pub!ServiceIds
      PROVE  IsService(service[s]) /\ service[s].links = {} /\ service[s].gated = {}
  <2>1. service[s] \in [status: {"running", "review", "paused"}, code: 1..MaxCode, links: {{}},
                        gated: {{}}, raced: {FALSE}]
    BY DEF Pub!PublishInit, Pub!ServiceIds
  <2> QED  BY <2>1 DEF IsService
<1>4. PublishShapes /\ RunsAsGated
  BY <1>1, <1>2, <1>3 DEF PublishShapes, RunsAsGated
<1>5. ReadIsTrue /\ StandingInv
  BY <1>1 DEF ReadIsTrue, StandingInv, StandsBefore, Pub!Idle, RowOps
<1> QED  BY <1>4, <1>5 DEF PubInv

-----------------------------------------------------------------------------
(* Actions that go on or end without touching a row. *)

LEMMA AskKeeps ==
    ASSUME PubInv, UNCHANGED <<service, rule>>, NEW a \in Admins, NEW new,
           editor' = [editor EXCEPT ![a] = new],
           \/ new = Pub!Idle
           \/ IsCreate(new) \/ IsRun(new)
           \/ OnRow(new) /\ ReadOf(new)
    PROVE  PubInv'
<1>1. /\ service' = service /\ rule' = rule
      /\ Pub!ServiceIds' = Pub!ServiceIds /\ Pub!RuleIds' = Pub!RuleIds
      /\ editor' = [b \in Admins |-> editor'[b]]
      /\ editor'[a] = new /\ \A b \in Admins \ {a} : editor'[b] = editor[b]
  BY DEF PubInv, PublishShapes, Pub!ServiceIds, Pub!RuleIds
<1>2. PublishShapes'
  BY <1>1 DEF PubInv, PublishShapes, IsService, IsRule, OnRow, IsCreate, IsRun
<1>3. new.op \in RowOps => ReadOf(new)
  BY DEF Pub!Idle, RowOps, IsCreate, IsRun
<1>4. \A q : ReadOf(q)' <=> ReadOf(q)
  BY <1>1 DEF ReadOf
<1>5. ReadIsTrue'
  BY <1>1, <1>3, <1>4 DEF PubInv, ReadIsTrue
<1>6. RunsAsGated'
  BY <1>1 DEF PubInv, RunsAsGated
<1> QED  BY <1>2, <1>5, <1>6 DEF PubInv

LEMMA AskOnKeeps ==
    ASSUME PubInv, NEW a \in Admins, NEW op \in RowOps \ {"verdict", "commit"}, NEW statuses,
           Pub!AskOn(a, op, statuses), op = "update" => "running" \notin statuses
    PROVE  PubInv'
<1>1. PICK s \in Pub!ServiceIds, links \in SUBSET Datasets :
           /\ service[s].status \in statuses
           /\ Pub!Ask(a, [op |-> op, id |-> s, links |-> links, moved |-> FALSE])
  BY DEF Pub!AskOn
<1> DEFINE new == [op |-> op, id |-> s, links |-> links, moved |-> FALSE]
<1>2. OnRow(new) /\ ReadOf(new)
  BY <1>1 DEF OnRow, ReadOf, Pub!ServiceIds, RowOps
<1>3. editor' = [editor EXCEPT ![a] = new] /\ UNCHANGED <<service, rule>>
  BY <1>1 DEF Pub!Ask
<1> HIDE DEF new
<1> QED  BY <1>1, <1>2, <1>3, AskKeeps

LEMMA AskStep ==
    ASSUME PubInv, NEW a \in Admins,
           \/ Pub!AskCreate(a) \/ Pub!AskUpdate(a) \/ Pub!AskUnpublish(a) \/ Pub!AskDelete(a)
           \/ Pub!AskPublish(a)
    PROVE  PubInv'
<1>1. CASE Pub!AskCreate(a)
  <2>1. PICK links, code : Pub!Ask(a, [op |-> "create", links |-> links, code |-> code])
    BY <1>1 DEF Pub!AskCreate
  <2> DEFINE new == [op |-> "create", links |-> links, code |-> code]
  <2>2. IsCreate(new)
    BY DEF IsCreate
  <2>3. editor' = [editor EXCEPT ![a] = new] /\ UNCHANGED <<service, rule>>
    BY <2>1 DEF Pub!Ask
  <2> HIDE DEF new
  <2> QED  BY <2>2, <2>3, AskKeeps
<1>2. CASE Pub!AskUpdate(a)
  BY <1>2, AskOnKeeps DEF Pub!AskUpdate, Pub!NotRunning, RowOps
<1>3. CASE Pub!AskUnpublish(a)
  BY <1>3, AskOnKeeps DEF Pub!AskUnpublish, RowOps
<1>4. CASE Pub!AskDelete(a)
  BY <1>4, AskOnKeeps DEF Pub!AskDelete, RowOps
<1>5. CASE Pub!AskPublish(a)
  BY <1>5, AskOnKeeps DEF Pub!AskPublish, RowOps
<1> QED  BY <1>1, <1>2, <1>3, <1>4, <1>5

LEMMA OnIsRow == ASSUME PubInv, NEW a \in Admins, editor[a].op \in RowOps PROVE OnRow(editor[a])
  BY DEF PubInv, PublishShapes, Pub!Idle, RowOps, IsCreate, IsRun

LEMMA ReadLinksStep == ASSUME PubInv, NEW a \in Admins, Pub!ReadLinks(a) PROVE PubInv'
<1> DEFINE q == editor[a]
           links == IF Pub!Mine(a) = Gone THEN {} ELSE Pub!Mine(a).links
           new == [q EXCEPT !.op = "verdict", !.links = links]
<1>1. q.op = "publish" /\ editor' = [editor EXCEPT ![a] = new] /\ UNCHANGED <<service, rule>>
  BY DEF Pub!ReadLinks, Pub!On, PubInv, PublishShapes
<1>2. OnRow(q)
  BY <1>1, OnIsRow DEF RowOps
<1>3. /\ OnRow(new) /\ new.op = "verdict" /\ new.id = q.id /\ new.moved = q.moved
      /\ service[new.id] # Gone => new.links = service[new.id].links
  BY <1>2 DEF OnRow, RowOps, Pub!Mine
<1>4. ReadOf(q)
  BY <1>1 DEF PubInv, ReadIsTrue, RowOps
<1> HIDE DEF new
<1>5. ReadOf(new)
  BY <1>1, <1>3, <1>4 DEF ReadOf
<1> QED  BY <1>1, <1>3, <1>5, AskKeeps

LEMMA QualityGateStep == ASSUME PubInv, NEW a \in Admins, Pub!QualityGate(a) PROVE PubInv'
<1> DEFINE q == editor[a]
           new == [q EXCEPT !.op = "commit"]
<1>1. q.op = "verdict" /\ UNCHANGED <<service, rule>>
  BY DEF Pub!QualityGate, Pub!On
<1>2. CASE editor' = [editor EXCEPT ![a] = Pub!Idle]
  BY <1>1, <1>2, AskKeeps
<1>3. CASE editor' = [editor EXCEPT ![a].op = "commit"]
  <2>1. editor' = [editor EXCEPT ![a] = new]
    BY <1>3 DEF PubInv, PublishShapes
  <2>2. OnRow(q) /\ ReadOf(q)
    BY <1>1, OnIsRow DEF RowOps, PubInv, ReadIsTrue
  <2>3. /\ OnRow(new) /\ new.op = "commit" /\ new.id = q.id /\ new.moved = q.moved
        /\ new.links = q.links
    BY <2>2 DEF OnRow, RowOps
  <2> HIDE DEF new
  <2>4. ReadOf(new)
    BY <1>1, <2>2, <2>3 DEF ReadOf
  <2> QED  BY <1>1, <2>1, <2>3, <2>4, AskKeeps
<1> QED  BY <1>2, <1>3 DEF Pub!QualityGate, Pub!EndOf

LEMMA AskRunStep == ASSUME PubInv, NEW a \in Admins, Pub!AskRun(a) PROVE PubInv'
<1> DEFINE new == [op |-> "run", due |-> Pub!Due, config |-> [r \in Pub!Due |-> rule[r].config],
                   severity |-> [r \in Pub!Due |-> rule[r].severity], at |-> runs + 1]
<1>1. editor' = [editor EXCEPT ![a] = new] /\ UNCHANGED <<service, rule>>
  BY DEF Pub!AskRun, Pub!Ask
<1>2. IsRun(new)
  BY DEF IsRun
<1> HIDE DEF new
<1> QED  BY <1>1, <1>2, AskKeeps

-----------------------------------------------------------------------------
(* Commits on a service. *)

LEMMA IdIsOfRow ==
    ASSUME PubInv, NEW a \in Admins
    PROVE  /\ "id" \in DOMAIN editor[a] <=> OnRow(editor[a])
           /\ editor[a].op \in RowOps <=> OnRow(editor[a])
  BY DEF PubInv, PublishShapes, OnRow, Pub!Idle, RowOps, IsCreate, IsRun

LEMMA CreateServiceStep == ASSUME PubInv, NEW a \in Admins, Pub!CreateDataService(a) PROVE PubInv'
<1>1. /\ rule' = rule /\ editor' = [editor EXCEPT ![a] = Pub!Idle]
  BY DEF Pub!CreateDataService, Pub!EndOf
<1>2. CASE UNCHANGED service
  BY <1>1, <1>2, AskKeeps
<1>3. CASE \E s \in Pub!NewServices : service' = [service EXCEPT ![s] =
             [status |-> "draft", code |-> editor[a].code, links |-> editor[a].links,
              gated |-> {}, raced |-> FALSE]]
  <2>1. PICK s \in Pub!NewServices : service' = [service EXCEPT ![s] =
             [status |-> "draft", code |-> editor[a].code, links |-> editor[a].links,
              gated |-> {}, raced |-> FALSE]]
    BY <1>3
  <2> DEFINE draft == [status |-> "draft", code |-> editor[a].code, links |-> editor[a].links,
              gated |-> {}, raced |-> FALSE]
  <2>2. s \in Services /\ \A b \in Admins : OnRow(editor[b]) => editor[b].id # s
    BY IdIsOfRow DEF Pub!NewServices
  <2>3. IsService(draft) /\ draft.status = "draft" /\ service' = [service EXCEPT ![s] = draft]
    BY <2>1 DEF IsService
  <2> HIDE DEF draft
  <2>4. /\ service' = [t \in Services |-> service'[t]] /\ service'[s] = draft
        /\ \A t \in Services \ {s} : service'[t] = service[t]
        /\ editor' = [b \in Admins |-> editor'[b]] /\ editor'[a] = Pub!Idle
        /\ \A b \in Admins \ {a} : editor'[b] = editor[b]
        /\ rule' = rule /\ Pub!RuleIds' = Pub!RuleIds
    BY <1>1, <2>2, <2>3 DEF PubInv, PublishShapes, Pub!RuleIds
  <2>5. \A t \in Pub!ServiceIds' : t = s \/ t \in Pub!ServiceIds
    BY <2>4 DEF Pub!ServiceIds
  <2>6. PublishShapes'
    <3>1. \A t \in Pub!ServiceIds' : IsService(service'[t])
      BY <2>3, <2>4, <2>5 DEF PubInv, PublishShapes
    <3>2. \A r \in Pub!RuleIds' : IsRule(rule'[r])
      BY <2>4 DEF PubInv, PublishShapes
    <3>3. /\ service' = [t \in Services |-> service'[t]] /\ rule' = [r \in Rules |-> rule'[r]]
          /\ editor' = [b \in Admins |-> editor'[b]]
      BY <2>4 DEF PubInv, PublishShapes
    <3>4. \A b \in Admins : editor'[b] = editor[b] \/ editor'[b] = Pub!Idle
      BY <2>4
    <3> QED  BY <3>1, <3>2, <3>3, <3>4 DEF PubInv, PublishShapes, IsService, IsRule, OnRow, IsCreate, IsRun
  <2>7. ReadIsTrue'
    <3> SUFFICES ASSUME NEW b \in Admins, editor'[b].op \in RowOps PROVE ReadOf(editor[b])'
      BY DEF ReadIsTrue
    <3>1. b # a /\ editor'[b] = editor[b]
      BY <2>4 DEF Pub!Idle, RowOps
    <3>2. ReadOf(editor[b]) /\ editor[b].id \in Services \ {s}
      BY <2>2, <3>1, IdIsOfRow DEF PubInv, ReadIsTrue, OnRow
    <3> QED  BY <2>4, <3>1, <3>2 DEF ReadOf
  <2>8. RunsAsGated'
    BY <2>3, <2>4, <2>5 DEF PubInv, RunsAsGated, Pub!ServiceIds
  <2> QED  BY <2>6, <2>7, <2>8 DEF PubInv
<1> QED  BY <1>2, <1>3 DEF Pub!CreateDataService

\* A commit on a row: what it leaves there is as its gate saw it or raced, and runs with other
\* links only if it overtakes those who read otherwise.
LEMMA CommitKeeps ==
    ASSUME PubInv, NEW a \in Admins, NEW op \in RowOps, NEW after, Pub!CommitOn(a, op, after),
           (Pub!Mine(a) # Gone /\ after # Gone) =>
               /\ IsService(after)
               /\ after.status = "running" /\ ~after.raced => after.links = after.gated
               /\ op # "update" => after.links = Pub!Mine(a).links
               /\ op # "commit" /\ after.status = "running" => Pub!Mine(a).status = "running"
    PROVE  PubInv'
<1> DEFINE s == editor[a].id
<1>1. editor[a].op = op /\ rule' = rule /\ OnRow(editor[a]) /\ s \in Services
  BY OnIsRow DEF Pub!CommitOn, Pub!On, OnRow
<1>2. CASE Pub!Mine(a) = Gone
  <2>1. UNCHANGED <<service, rule>> /\ editor' = [editor EXCEPT ![a] = Pub!Idle]
    BY <1>1, <1>2 DEF Pub!CommitOn, Pub!EndOf
  <2> QED  BY <2>1, AskKeeps
<1>3. CASE Pub!Mine(a) # Gone
  <2>1. /\ service' = [service EXCEPT ![s] = after] /\ Pub!Mine(a) = service[s]
        /\ editor' = [b \in Admins |-> IF b = a THEN Pub!Idle
                               ELSE IF editor[b].op \in Pub!Overtaken(op) /\ editor[b].id = s
                                    THEN [editor[b] EXCEPT !.moved = TRUE] ELSE editor[b]]
    BY <1>1, <1>3 DEF Pub!CommitOn, Pub!Done, Pub!Mine
  <2>2. /\ service' = [t \in Services |-> service'[t]] /\ service'[s] = after
        /\ \A t \in Services \ {s} : service'[t] = service[t]
        /\ editor' = [b \in Admins |-> editor'[b]] /\ editor'[a] = Pub!Idle
        /\ rule' = rule /\ Pub!RuleIds' = Pub!RuleIds
    BY <1>1, <2>1 DEF PubInv, PublishShapes, Pub!RuleIds
  <2>3. \A b \in Admins \ {a} :
            \/ editor'[b] = editor[b] /\ ~(editor[b].op \in Pub!Overtaken(op) /\ editor[b].id = s)
            \/ OnRow(editor[b]) /\ editor'[b] = [editor[b] EXCEPT !.moved = TRUE]
    <3>1. Pub!Overtaken(op) \subseteq RowOps
      BY DEF Pub!Overtaken, RowOps
    <3> QED  BY <2>1, <3>1, OnIsRow
  <2>4. \A b \in Admins \ {a} : OnRow(editor[b]) /\ editor'[b] = [editor[b] EXCEPT !.moved = TRUE] =>
            OnRow(editor'[b]) /\ editor'[b].moved
    BY DEF OnRow
  <2>5. \A t \in Pub!ServiceIds' : \/ t = s /\ after # Gone
                                   \/ t \in Pub!ServiceIds /\ t # s
    BY <2>2 DEF Pub!ServiceIds
  <2>6. PublishShapes'
    <3>1. \A t \in Pub!ServiceIds' : IsService(service[t])'
      BY <1>3, <2>2, <2>5 DEF PubInv, PublishShapes, IsService, Pub!ServiceIds
    <3>2. \A r \in Pub!RuleIds' : IsRule(rule[r])'
      BY <2>2 DEF PubInv, PublishShapes, IsRule
    <3>3. ASSUME NEW b \in Admins
          PROVE  (editor[b] = Pub!Idle \/ OnRow(editor[b]) \/ IsCreate(editor[b]) \/ IsRun(editor[b]))'
      <4>1. editor'[b] = Pub!Idle \/ editor'[b] = editor[b] \/ OnRow(editor'[b])
        BY <2>2, <2>3, <2>4
      <4> QED  BY <4>1 DEF PubInv, PublishShapes, OnRow, IsCreate, IsRun
    <3> QED  BY <1>1, <2>2, <3>1, <3>2, <3>3 DEF PubInv, PublishShapes
  <2>7. ReadIsTrue'
    <3> SUFFICES ASSUME NEW b \in Admins, editor'[b].op \in RowOps, ~editor'[b].moved PROVE ReadOf(editor[b])'
      BY DEF ReadIsTrue, ReadOf
    <3>1. b # a
      BY <2>2 DEF Pub!Idle, RowOps
    <3>2. editor'[b] = editor[b] /\ ~(editor[b].op \in Pub!Overtaken(op) /\ editor[b].id = s)
      BY <2>3, <2>4, <3>1
    <3>3. ReadOf(editor[b]) /\ editor[b].id \in Services
      BY <3>2, IdIsOfRow DEF PubInv, ReadIsTrue, OnRow
    <3>4. CASE editor[b].id # s
      BY <2>2, <3>2, <3>3, <3>4 DEF ReadOf
    <3>5. CASE editor[b].id = s
      <4>1. /\ op = "commit" => editor[b].op # "update"
            /\ op = "update" => editor[b].op \notin {"verdict", "commit"}
        BY <3>2, <3>5 DEF Pub!Overtaken
      <4> QED  BY <1>3, <2>1, <2>2, <3>2, <3>3, <3>5, <4>1 DEF ReadOf
    <3> QED  BY <3>4, <3>5
  <2>8. RunsAsGated'
    BY <1>3, <2>2, <2>5 DEF PubInv, RunsAsGated, Pub!ServiceIds
  <2> QED  BY <2>6, <2>7, <2>8 DEF PubInv
<1> QED  BY <1>2, <1>3

LEMMA RowCommitStep ==
    ASSUME PubInv, NEW a \in Admins,
           Pub!UpdateDataService(a) \/ Pub!UnpublishDataService(a) \/ Pub!DeleteDataService(a)
           \/ Pub!PublishDataService(a)
    PROVE  PubInv'
<1> DEFINE q == editor[a]
<1>1. q.op \in RowOps /\ OnRow(q) /\ ReadOf(q)
  BY OnIsRow DEF Pub!UpdateDataService, Pub!UnpublishDataService, Pub!DeleteDataService,
                 Pub!PublishDataService,
                 Pub!CommitOn, Pub!On, RowOps, PubInv, ReadIsTrue
<1>2. /\ Pub!Mine(a) = service[q.id]
      /\ Pub!Mine(a) # Gone => IsService(Pub!Mine(a)) /\ q.id \in Pub!ServiceIds
  BY <1>1 DEF Pub!Mine, OnRow, PubInv, PublishShapes, Pub!ServiceIds
<1>3. CASE Pub!UpdateDataService(a)
  <2> DEFINE after == [Pub!Mine(a) EXCEPT !.links = q.links,
                                      !.raced = @ \/ (q.moved /\ Pub!Mine(a).status = "running")]
  <2>1. Pub!CommitOn(a, "update", after) /\ q.op = "update"
    BY <1>3 DEF Pub!UpdateDataService, Pub!CommitOn, Pub!On
  <2>2. Pub!Mine(a) # Gone =>
            /\ IsService(after) /\ after.status = Pub!Mine(a).status
            /\ after.status = "running" /\ ~after.raced => ~q.moved
    BY <1>1, <1>2 DEF IsService, OnRow
  <2>3. Pub!Mine(a) # Gone /\ ~q.moved => Pub!Mine(a).status # "running"
    BY <1>1, <1>2, <2>1 DEF ReadOf
  <2> HIDE DEF after
  <2> QED  BY <2>1, <2>2, <2>3, CommitKeeps DEF RowOps
<1>4. CASE Pub!UnpublishDataService(a)
  <2> DEFINE after == [Pub!Mine(a) EXCEPT !.status = "paused", !.gated = {}, !.raced = FALSE]
  <2>1. Pub!CommitOn(a, "unpublish", after)
    BY <1>4 DEF Pub!UnpublishDataService
  <2>2. Pub!Mine(a) # Gone => IsService(after) /\ after.status = "paused" /\ after.links = Pub!Mine(a).links
    BY <1>2 DEF IsService
  <2> HIDE DEF after
  <2> QED  BY <2>1, <2>2, CommitKeeps DEF RowOps
<1>5. CASE Pub!DeleteDataService(a)
  BY <1>5, CommitKeeps DEF Pub!DeleteDataService, RowOps
<1>6. CASE Pub!PublishDataService(a)
  <2> DEFINE after == [Pub!Mine(a) EXCEPT !.status = "running", !.gated = q.links, !.raced = q.moved]
  <2>1. Pub!CommitOn(a, "commit", after) /\ q.op = "commit"
    BY <1>6 DEF Pub!PublishDataService, Pub!CommitOn, Pub!On
  <2>2. Pub!Mine(a) # Gone =>
            /\ IsService(after) /\ after.links = Pub!Mine(a).links /\ after.gated = q.links
            /\ after.raced = q.moved
    BY <1>1, <1>2 DEF IsService, OnRow
  <2>3. Pub!Mine(a) # Gone /\ ~q.moved => Pub!Mine(a).links = q.links
    BY <1>1, <1>2, <2>1 DEF ReadOf
  <2> HIDE DEF after
  <2> QED  BY <2>1, <2>2, <2>3, CommitKeeps DEF RowOps
<1> QED  BY <1>3, <1>4, <1>5, <1>6

-----------------------------------------------------------------------------
(* Rules. *)

\* A rule keeps its dataset for as long as it is there.
RulesStay == \A r \in Pub!RuleIds \cap Pub!RuleIds' : rule'[r].ds = rule[r].ds

LEMMA RulesKeep ==
    ASSUME PubInv, UNCHANGED service, rule' = [r \in Rules |-> rule'[r]],
           UNCHANGED editor \/ \E a \in Admins : editor' = [editor EXCEPT ![a] = Pub!Idle],
           \A r \in Pub!RuleIds' : IsRule(rule'[r])
    PROVE  PubInv'
<1>1. /\ editor' = [b \in Admins |-> editor'[b]]
      /\ \A b \in Admins : editor'[b] = editor[b] \/ editor'[b] = Pub!Idle
      /\ service' = service /\ Pub!ServiceIds' = Pub!ServiceIds
  BY DEF PubInv, PublishShapes, Pub!ServiceIds
<1>2. PublishShapes'
  BY <1>1 DEF PubInv, PublishShapes, IsService, IsRule, OnRow, IsCreate, IsRun
<1>3. ReadIsTrue'
  BY <1>1 DEF PubInv, ReadIsTrue, ReadOf, Pub!Idle, RowOps
<1>4. RunsAsGated'
  BY <1>1 DEF PubInv, RunsAsGated
<1> QED  BY <1>2, <1>3, <1>4 DEF PubInv

LEMMA RuleStep ==
    ASSUME PubInv, Pub!CreateQualityRule \/ Pub!SetQualityRuleEnabled \/ Pub!DeleteQualityRule
    PROVE  PubInv' /\ RulesStay /\ UNCHANGED <<service, editor>>
<1>1. CASE Pub!CreateQualityRule
  <2>1. PICK r \in Pub!NewRules, d \in Datasets, sev \in {"warning", "critical"} :
            /\ rule' = [rule EXCEPT ![r] = [ds |-> d, severity |-> sev, enabled |-> TRUE,
                   config |-> "empty", latest |-> "none", at |-> 0]]
            /\ UNCHANGED <<service, editor>>
    BY <1>1 DEF Pub!CreateQualityRule
  <2>2. PICK new : rule' = [rule EXCEPT ![r] = new] /\ IsRule(new)
    <3>1. IsRule([ds |-> d, severity |-> sev, enabled |-> TRUE, config |-> "empty", latest |-> "none",
                  at |-> 0])
      BY DEF IsRule
    <3> QED  BY <2>1, <3>1
  <2> QED  BY <2>1, <2>2, RulesKeep DEF PubInv, PublishShapes, Pub!RuleIds, Pub!NewRules, RulesStay
<1>2. CASE Pub!SetQualityRuleEnabled
  <2>1. PICK r \in Pub!RuleIds :
            rule' = [rule EXCEPT ![r].enabled = ~@] /\ UNCHANGED <<service, editor>>
    BY <1>2 DEF Pub!SetQualityRuleEnabled
  <2>2. IsRule(rule[r])
    BY DEF PubInv, PublishShapes
  <2>3. PICK new : rule' = [rule EXCEPT ![r] = new] /\ IsRule(new) /\ new.ds = rule[r].ds
    <3>1. LET new == [rule[r] EXCEPT !.enabled = ~@] IN IsRule(new) /\ new.ds = rule[r].ds
      BY <2>2 DEF IsRule
    <3> QED  BY <2>1, <3>1 DEF PubInv, PublishShapes
  <2> QED  BY <2>1, <2>3, RulesKeep DEF PubInv, PublishShapes, Pub!RuleIds, RulesStay
<1>3. CASE Pub!DeleteQualityRule
  <2>1. PICK r \in Pub!RuleIds : rule' = [rule EXCEPT ![r] = Gone] /\ UNCHANGED <<service, editor>>
    BY <1>3 DEF Pub!DeleteQualityRule
  <2> QED  BY <2>1, RulesKeep DEF PubInv, PublishShapes, Pub!RuleIds, RulesStay
<1> QED  BY <1>1, <1>2, <1>3

LEMMA RunStep == ASSUME PubInv, NEW a \in Admins, Pub!RunWorkspaceChecks(a) PROVE PubInv' /\ RulesStay
<1> DEFINE q == editor[a]
<1>1. q.op = "run" /\ UNCHANGED service /\ editor' = [editor EXCEPT ![a] = Pub!Idle]
  BY DEF Pub!RunWorkspaceChecks, Pub!On, Pub!EndOf
<1>2. CASE UNCHANGED rule
  BY <1>1, <1>2, AskKeeps DEF RulesStay
<1>3. ASSUME NEW out, rule' = Pub!WithResults(q, out)
      PROVE  PubInv' /\ RulesStay
  <2> DEFINE ran == {r \in q.due : out[r] # "error"}
             new(r) == [rule[r] EXCEPT !.latest = Pub!StatusOf(out[r], q.severity[r]), !.at = q.at]
  <2>1. CASE ~(ran \subseteq Pub!RuleIds)
    <3>1. rule' = rule
      BY <1>3, <2>1 DEF Pub!WithResults
    <3> QED  BY <1>1, <1>2, <3>1
  <2>2. CASE ran \subseteq Pub!RuleIds
    <3>1. rule' = [r \in Rules |-> IF r \in ran /\ rule[r].at <= q.at THEN new(r) ELSE rule[r]]
      BY <1>3, <2>2 DEF Pub!WithResults
    <3>2. ASSUME NEW r \in Pub!RuleIds' PROVE IsRule(rule'[r]) /\ rule'[r].ds = rule[r].ds
      <4>1. r \in Rules /\ (rule'[r] = rule[r] \/ (r \in ran /\ rule'[r] = new(r)))
        BY <3>1 DEF Pub!RuleIds
      <4>2. IsRule(rule[r])
        BY <2>2, <4>1 DEF Pub!RuleIds, PubInv, PublishShapes
      <4>3. IsRule(new(r)) /\ new(r).ds = rule[r].ds
        <5> DEFINE x == rule[r]
                   st == Pub!StatusOf(out[r], q.severity[r])
                   at == q.at
                   y == [ds |-> x.ds, severity |-> x.severity, enabled |-> x.enabled,
                         config |-> x.config, latest |-> st, at |-> at]
        <5>1. x = [ds |-> x.ds, severity |-> x.severity, enabled |-> x.enabled,
                   config |-> x.config, latest |-> x.latest, at |-> x.at]
          BY <4>2 DEF IsRule
        <5>2. new(r) = [x EXCEPT !.latest = st, !.at = at]
          OBVIOUS
        <5> HIDE DEF x, st, at, new
        <5>3. new(r) = y
          BY <5>1, <5>2
        <5>4. IsRule(y) /\ y.ds = x.ds
          BY DEF IsRule
        <5> HIDE DEF y
        <5> QED  BY <5>3, <5>4 DEF x
      <4> HIDE DEF new
      <4> QED  BY <4>1, <4>2, <4>3
    <3>3. rule' = [r \in Rules |-> rule'[r]]
      BY <3>1
    <3> QED  BY <1>1, <3>2, <3>3, RulesKeep DEF RulesStay
  <2> QED  BY <2>1, <2>2
<1> QED  BY <1>2, <1>3 DEF Pub!RunWorkspaceChecks

-----------------------------------------------------------------------------
(* The theorems. *)

LEMMA PublishStutter == ASSUME PubInv, UNCHANGED <<service, rule, editor>> PROVE PubInv'
<1>1. Pub!ServiceIds' = Pub!ServiceIds /\ Pub!RuleIds' = Pub!RuleIds
  BY DEF Pub!ServiceIds, Pub!RuleIds
<1>2. PublishShapes'
  BY <1>1 DEF PubInv, PublishShapes, IsService, IsRule, OnRow, IsCreate, IsRun
<1>3. ReadIsTrue' /\ RunsAsGated'
  BY <1>1 DEF PubInv, ReadIsTrue, ReadOf, RunsAsGated
<1> QED  BY <1>2, <1>3 DEF PubInv

\* In the publishing part, a step of the workspace is one of that part.
LEMMA PubFrame ==
    ASSUME [WorkspaceNext]_workspaceVars, part' = "publishing"
    PROVE  part = "publishing" /\ [Pub!PublishNext]_Pub!publishVars
<1> USE DEF Around1, Around2, Around3, Around4
<1>1. CASE PublishingRuns
  BY <1>1 DEF PublishingRuns
<1>2. CASE UNCHANGED workspaceVars
  BY <1>2 DEF workspaceVars, publishingVars, Pub!publishVars
<1>3. ASSUME \/ CatalogRuns \/ GatewayRuns \/ SourcesRun \/ AdmissionRuns \/ ReadsRun
             \/ AccessRuns \/ ScreensRun \/ ApprovalsRun \/ FirstEntryRuns
      PROVE  FALSE
  BY <1>3 DEF CatalogRuns, GatewayRuns, SourcesRun, AdmissionRuns, ReadsRun,
              AccessRuns, ScreensRun, ApprovalsRun, FirstEntryRuns
<1> QED  BY <1>1, <1>2, <1>3 DEF WorkspaceNext

\* The checks that fail all the while: a publish on its way keeps those that still fail, and it
\* comes to its verdict with the links it has read and past it with nothing in the way.
GoesOn(b) ==
    /\ editor'[b].op = "verdict" =>
           \/ editor[b].op = "verdict" /\ editor'[b].links = editor[b].links
           \/ /\ editor[b].op = "publish"
              /\ service'[editor'[b].id] # Gone => service'[editor'[b].id].links = editor'[b].links
    /\ editor'[b].op = "commit" =>
           editor[b].op = "commit" \/ (editor[b].op = "verdict" /\ Pub!Blockers(editor[b].links) = {})

LEMMA WatchKeeps ==
    ASSUME PubInv, StandingInv, Pub!Watch, RulesStay, \A b \in Admins : GoesOn(b)
    PROVE  StandingInv'
<1>1. standing' = [a \in Admins |-> standing'[a]]
  BY DEF Pub!Watch
<1>2. ASSUME NEW b \in Admins, editor'[b].op \in {"verdict", "commit"}
      PROVE  standing'[b] \subseteq standing[b] /\ standing'[b] \subseteq Pub!FailingOn(editor[b].id)'
  <2>1. Pub!Publishing(b) /\ Pub!Publishing(b)'
    BY <1>2 DEF GoesOn, Pub!Publishing
  <2>2. standing'[b] = standing[b] \cap Pub!Failing(b)'
    BY <2>1 DEF Pub!Watch
  <2>3. Pub!Failing(b)' = Pub!FailingOn(editor[b].id)'
    BY <2>1 DEF Pub!Failing
  <2> QED  BY <2>2, <2>3
<1>3. ASSUME NEW b \in Admins, editor'[b].op = "verdict"
      PROVE  standing'[b] \subseteq Pub!Blockers(editor[b].links)'
  <2> SUFFICES ASSUME NEW r \in standing'[b] PROVE r \in Pub!Blockers(editor[b].links)'
    OBVIOUS
  <2>1. /\ r \in Pub!RuleIds' /\ service'[editor'[b].id] # Gone
        /\ rule'[r].ds \in service'[editor'[b].id].links
        /\ rule'[r].enabled /\ rule'[r].severity = "critical" /\ rule'[r].latest = "fail"
    BY <1>2, <1>3 DEF Pub!FailingOn
  <2>2. rule'[r].ds \in editor'[b].links
    <3>1. CASE editor[b].op = "verdict" /\ editor'[b].links = editor[b].links
      <4>1. r \in Pub!Blockers(editor[b].links)
        BY <1>2, <1>3, <3>1 DEF StandingInv, StandsBefore
      <4>2. r \in Pub!RuleIds /\ rule[r].ds \in editor[b].links
        BY <4>1 DEF Pub!Blockers, Pub!Checked
      <4> QED  BY <2>1, <3>1, <4>2 DEF RulesStay
    <3>2. CASE service'[editor'[b].id] # Gone => service'[editor'[b].id].links = editor'[b].links
      BY <2>1, <3>2
    <3> QED  BY <1>3, <3>1, <3>2 DEF GoesOn
  <2>3. r \in Pub!Checked(rule[r].ds)'
    BY <2>1 DEF Pub!Checked
  <2> QED  BY <2>1, <2>2, <2>3 DEF Pub!Blockers, Pub!Checked
<1>4. ASSUME NEW b \in Admins, editor'[b].op = "commit" PROVE standing'[b] = {}
  BY <1>2, <1>4 DEF StandingInv, StandsBefore, GoesOn
<1>5. \A b \in Admins : StandsBefore(editor[b], standing[b])'
  BY <1>3, <1>4 DEF StandsBefore
<1> QED  BY <1>1, <1>5 DEF StandingInv

\* Steps of one action, which leave the others as they are but for having been overtaken.
LEMMA OthersGoOn ==
    ASSUME PubInv, NEW a \in Admins,
           \A b \in Admins \ {a} : \/ editor'[b] = editor[b]
                                   \/ OnRow(editor[b]) /\ editor'[b] = [editor[b] EXCEPT !.moved = TRUE],
           GoesOn(a)
    PROVE  \A b \in Admins : GoesOn(b)
<1> SUFFICES ASSUME NEW b \in Admins \ {a} PROVE GoesOn(b)
  OBVIOUS
<1>1. /\ editor'[b].op = editor[b].op
      /\ editor[b].op = "verdict" => editor'[b].links = editor[b].links
  BY DEF OnRow
<1> QED  BY <1>1 DEF GoesOn

LEMMA ServiceStands ==
    ASSUME PubInv, NEW a \in Admins, Pub!ServiceStep(a)
    PROVE  RulesStay /\ \A b \in Admins : GoesOn(b)
<1>1. CASE \/ Pub!AskCreate(a) \/ Pub!AskUpdate(a) \/ Pub!AskUnpublish(a) \/ Pub!AskDelete(a)
           \/ Pub!AskPublish(a)
  <2>1. PICK req : Pub!Ask(a, req) /\ req.op \notin {"verdict", "commit"}
    <3>1. ASSUME NEW kind \in RowOps \ {"verdict", "commit"}, NEW statuses, Pub!AskOn(a, kind, statuses)
          PROVE  \E asked : Pub!Ask(a, asked) /\ asked.op \notin {"verdict", "commit"}
      <4>1. PICK s, links : Pub!Ask(a, [op |-> kind, id |-> s, links |-> links, moved |-> FALSE])
        BY <3>1 DEF Pub!AskOn
      <4> QED  BY <3>1, <4>1
    <3>2. CASE Pub!AskCreate(a)
      <4>1. PICK links, code : Pub!Ask(a, [op |-> "create", links |-> links, code |-> code])
        BY <3>2 DEF Pub!AskCreate
      <4> QED  BY <4>1
    <3>3. CASE Pub!AskUpdate(a) \/ Pub!AskUnpublish(a) \/ Pub!AskDelete(a) \/ Pub!AskPublish(a)
      BY <3>1, <3>3 DEF Pub!AskUpdate, Pub!AskUnpublish, Pub!AskDelete, Pub!AskPublish, RowOps
    <3> QED  BY <1>1, <3>2, <3>3
  <2>2. rule' = rule /\ editor'[a] = req /\ \A b \in Admins \ {a} : editor'[b] = editor[b]
    BY <2>1 DEF Pub!Ask, PubInv, PublishShapes
  <2> QED  BY <2>1, <2>2, OthersGoOn DEF GoesOn, RulesStay
<1>2. CASE Pub!CreateDataService(a)
  <2>1. /\ rule' = rule /\ editor'[a] = Pub!Idle
        /\ \A b \in Admins \ {a} : editor'[b] = editor[b]
    BY <1>2 DEF Pub!CreateDataService, Pub!EndOf, PubInv, PublishShapes
  <2> QED  BY <2>1, OthersGoOn DEF GoesOn, RulesStay, Pub!Idle
<1>3. CASE Pub!ReadLinks(a)
  <2> DEFINE links == IF Pub!Mine(a) = Gone THEN {} ELSE Pub!Mine(a).links
             new == [editor[a] EXCEPT !.op = "verdict", !.links = links]
  <2>1. /\ editor[a].op = "publish" /\ editor' = [editor EXCEPT ![a] = new]
        /\ UNCHANGED <<service, rule>>
    BY <1>3 DEF Pub!ReadLinks, Pub!On, PubInv, PublishShapes
  <2>2. OnRow(editor[a])
    BY <2>1, OnIsRow DEF RowOps
  <2>3. new.op = "verdict" /\ new.links = links /\ new.id = editor[a].id
    BY <2>2 DEF OnRow
  <2> HIDE DEF new
  <2>4. editor'[a] = new /\ \A b \in Admins \ {a} : editor'[b] = editor[b]
    BY <2>1 DEF PubInv, PublishShapes
  <2>5. GoesOn(a)
    BY <2>1, <2>3, <2>4 DEF GoesOn, Pub!Mine
  <2> QED  BY <2>1, <2>4, <2>5, OthersGoOn DEF RulesStay
<1>4. CASE Pub!QualityGate(a)
  <2>1. /\ editor[a].op = "verdict" /\ rule' = rule
        /\ \/ editor' = [editor EXCEPT ![a] = Pub!Idle]
           \/ /\ Pub!Blockers(editor[a].links) = {}
              /\ editor' = [editor EXCEPT ![a].op = "commit"]
    BY <1>4 DEF Pub!QualityGate, Pub!On, Pub!EndOf
  <2>2. \A b \in Admins \ {a} : editor'[b] = editor[b]
    BY <2>1 DEF PubInv, PublishShapes
  <2>3. OnRow(editor[a])
    BY <2>1, OnIsRow DEF RowOps
  <2>4. \/ editor'[a] = Pub!Idle
        \/ Pub!Blockers(editor[a].links) = {} /\ editor'[a].op = "commit"
    BY <2>1, <2>3 DEF PubInv, PublishShapes, OnRow
  <2> QED  BY <2>1, <2>2, <2>4, OthersGoOn DEF GoesOn, RulesStay, Pub!Idle
<1>5. ASSUME NEW op \in RowOps, NEW after, Pub!CommitOn(a, op, after)
      PROVE  RulesStay /\ \A b \in Admins : GoesOn(b)
  <2>1. /\ rule' = rule
        /\ \/ editor' = [editor EXCEPT ![a] = Pub!Idle]
           \/ editor' = [b \in Admins |-> IF b = a THEN Pub!Idle
                             ELSE IF editor[b].op \in Pub!Overtaken(editor[a].op) /\ editor[b].id = editor[a].id
                                  THEN [editor[b] EXCEPT !.moved = TRUE] ELSE editor[b]]
    BY <1>5 DEF Pub!CommitOn, Pub!EndOf, Pub!Done
  <2>2. \A o : Pub!Overtaken(o) \subseteq RowOps
    BY DEF Pub!Overtaken, RowOps
  <2>3. /\ editor'[a] = Pub!Idle
        /\ \A b \in Admins \ {a} : \/ editor'[b] = editor[b]
                                   \/ OnRow(editor[b]) /\ editor'[b] = [editor[b] EXCEPT !.moved = TRUE]
    BY <2>1, <2>2, OnIsRow DEF PubInv, PublishShapes
  <2>4. GoesOn(a)
    BY <2>3 DEF GoesOn, Pub!Idle
  <2> QED  BY <2>1, <2>3, <2>4, OthersGoOn DEF RulesStay
<1>6. CASE \/ Pub!UpdateDataService(a) \/ Pub!UnpublishDataService(a) \/ Pub!DeleteDataService(a)
           \/ Pub!PublishDataService(a)
  <2>1. PICK kind \in RowOps : \E after : Pub!CommitOn(a, kind, after)
    BY <1>6 DEF Pub!UpdateDataService, Pub!UnpublishDataService, Pub!DeleteDataService,
                Pub!PublishDataService, RowOps
  <2>2. PICK next : Pub!CommitOn(a, kind, next)
    BY <2>1
  <2> QED  BY <1>5, <2>2
<1> QED  BY <1>1, <1>2, <1>3, <1>4, <1>6 DEF Pub!ServiceStep

LEMMA StandingStep ==
    ASSUME PubInv, StandingInv, [Pub!PublishNext]_Pub!publishVars PROVE StandingInv'
<1>1. CASE UNCHANGED Pub!publishVars
  BY <1>1 DEF Pub!publishVars, StandingInv, StandsBefore, Pub!Blockers, Pub!Checked, Pub!RuleIds
<1>2. CASE Pub!PublishNext
  <2>1. Pub!Watch
    BY <1>2 DEF Pub!PublishNext
  <2>2. ASSUME NEW a \in Admins, Pub!ServiceStep(a) PROVE StandingInv'
    BY <2>1, <2>2, ServiceStands, WatchKeeps
  <2>3. ASSUME NEW a \in Admins, Pub!AskRun(a) \/ Pub!RunWorkspaceChecks(a) PROVE StandingInv'
    <3>1. PICK new : editor' = [editor EXCEPT ![a] = new] /\ new.op \in {"run", "none"}
      BY <2>3 DEF Pub!AskRun, Pub!Ask, Pub!RunWorkspaceChecks, Pub!EndOf, Pub!Idle
    <3>2. editor'[a] = new /\ \A b \in Admins \ {a} : editor'[b] = editor[b]
      BY <3>1 DEF PubInv, PublishShapes
    <3>3. \A b \in Admins : GoesOn(b)
      BY <3>1, <3>2, OthersGoOn DEF GoesOn
    <3>4. RulesStay
      BY <2>3, RunStep DEF Pub!AskRun, Pub!Ask, RulesStay
    <3> QED  BY <2>1, <3>3, <3>4, WatchKeeps
  <2>4. CASE Pub!CreateQualityRule \/ Pub!SetQualityRuleEnabled \/ Pub!DeleteQualityRule
    <3>1. RulesStay /\ editor' = editor
      BY <2>4, RuleStep
    <3>2. \A b \in Admins : GoesOn(b)
      BY <3>1 DEF GoesOn
    <3> QED  BY <2>1, <3>1, <3>2, WatchKeeps
  <2> QED  BY <1>2, <2>2, <2>3, <2>4 DEF Pub!PublishNext
<1> QED  BY <1>1, <1>2

\* The inductive invariant of the services and their quality rules, from what the seed and the
\* test data leave: what an edit or a publish has read is true until it is overtaken, and what
\* has failed all along is in the way of a publish (service/actions.ts).
THEOREM PublishingInductive == WorkspaceSpec => [](part = "publishing" => PubInv /\ StandingInv)
<1>1. WorkspaceInit => (part = "publishing" => PubInv /\ StandingInv)
  BY PublishBegins DEF WorkspaceInit, PublishingBegins
<1>2. (part = "publishing" => PubInv /\ StandingInv) /\ [WorkspaceNext]_workspaceVars
      => (part = "publishing" => PubInv /\ StandingInv)'
  <2> SUFFICES ASSUME PubInv, StandingInv, [Pub!PublishNext]_Pub!publishVars PROVE PubInv' /\ StandingInv'
    BY PubFrame
  <2>1. ASSUME NEW a \in Admins, Pub!ServiceStep(a) PROVE PubInv'
    BY <2>1, AskStep, ReadLinksStep, QualityGateStep, CreateServiceStep, RowCommitStep DEF Pub!ServiceStep
  <2>2. ASSUME NEW a \in Admins, Pub!AskRun(a) \/ Pub!RunWorkspaceChecks(a) PROVE PubInv'
    BY <2>2, AskRunStep, RunStep
  <2>3. ASSUME UNCHANGED Pub!publishVars PROVE PubInv'
    BY <2>3, PublishStutter DEF Pub!publishVars
  <2>4. PubInv'
    BY <2>1, <2>2, <2>3, RuleStep DEF Pub!PublishNext
  <2> QED  BY <2>4, StandingStep
<1> QED  BY <1>1, <1>2, PTL DEF WorkspaceSpec

\* A running service serves what its quality gate saw, unless an edit and a publish of it
\* overlapped; and a publish that is about to take effect passes over no check that has been
\* failing ever since it was asked for (service/actions.ts:196).
THEOREM GateTheorem == WorkspaceSpec => []RunningWasGated
<1>1. PubInv /\ StandingInv => Pub!RunningWasGated
  BY DEF PubInv, RunsAsGated, StandingInv, StandsBefore, Pub!RunningWasGated, Pub!On
<1>2. (part = "publishing" => PubInv /\ StandingInv) => RunningWasGated
  BY <1>1 DEF RunningWasGated
<1> QED  BY <1>2, PublishingInductive, PTL

\* What is stored has its type, codes are unique, and so will be what an action holds.
HeldIsTyped(q) == /\ q.op = "create" => q.code \in 1..MaxCode /\ q.links \subseteq Datasets
                  /\ q.op \in RowOps => q.links \subseteq Datasets
                  /\ q.op = "run" => q.at \in 0..MaxRuns
PubTyped ==
    /\ \A s \in Services : service[s] \in Pub!Service \cup {Gone}
    /\ \A r \in Rules : rule[r] \in Pub!Rule \cup {Gone}
    /\ \A s, t \in Pub!ServiceIds : service[s].code = service[t].code => s = t
    /\ \A a \in Admins : HeldIsTyped(editor[a])

LEMMA HeldStep ==
    ASSUME PubInv, PubTyped, UNCHANGED <<service, rule>>, NEW a \in Admins, NEW new,
           editor' = [editor EXCEPT ![a] = new], HeldIsTyped(new)
    PROVE  PubTyped'
<1>1. \A b \in Admins : editor'[b] = new \/ editor'[b] = editor[b]
  BY DEF PubInv, PublishShapes
<1>2. \A b \in Admins : HeldIsTyped(editor'[b])
  BY <1>1 DEF PubTyped
<1>3. Pub!ServiceIds' = Pub!ServiceIds
  BY DEF Pub!ServiceIds
<1> QED  BY <1>2, <1>3 DEF PubTyped, HeldIsTyped

\* A row that is written or deleted.
LEMMA ServiceStep ==
    ASSUME PubInv, PubTyped, UNCHANGED rule, NEW s \in Services, NEW x \in Pub!Service \cup {Gone},
           service' = [service EXCEPT ![s] = x],
           x # Gone => \A t \in Pub!ServiceIds \ {s} : service[t].code # x.code,
           \A a \in Admins : HeldIsTyped(editor'[a])
    PROVE  PubTyped'
<1>1. \A t \in Services : service'[t] = IF t = s THEN x ELSE service[t]
  BY DEF PubInv, PublishShapes
<1>2. \A t \in Services : service'[t] \in Pub!Service \cup {Gone}
  BY <1>1 DEF PubTyped
<1>3. ASSUME NEW t \in Pub!ServiceIds', NEW u \in Pub!ServiceIds', service'[t].code = service'[u].code
      PROVE  t = u
  BY <1>1, <1>3 DEF PubTyped, Pub!ServiceIds
<1> QED  BY <1>2, <1>3 DEF PubTyped, HeldIsTyped

LEMMA CommitOnTyped ==
    ASSUME PubInv, PubTyped, NEW a \in Admins, NEW op \in RowOps, NEW after, Pub!CommitOn(a, op, after),
           Pub!Mine(a) \in Pub!Service =>
               after = Gone \/ (after \in Pub!Service /\ after.code = Pub!Mine(a).code)
    PROVE  PubTyped'
<1> DEFINE s == editor[a].id
<1>1. editor[a].op = op /\ rule' = rule /\ OnRow(editor[a]) /\ s \in Services
  BY OnIsRow DEF Pub!CommitOn, Pub!On, OnRow
<1>2. CASE Pub!Mine(a) = Gone
  <2>1. UNCHANGED <<service, rule>> /\ editor' = [editor EXCEPT ![a] = Pub!Idle]
    BY <1>1, <1>2 DEF Pub!CommitOn, Pub!EndOf
  <2>2. HeldIsTyped(Pub!Idle)
    BY DEF HeldIsTyped, Pub!Idle, RowOps
  <2> QED  BY <2>1, <2>2, HeldStep
<1>3. CASE Pub!Mine(a) # Gone
  <2>1. /\ service' = [service EXCEPT ![s] = after]
        /\ editor' = [b \in Admins |-> IF b = a THEN Pub!Idle
                               ELSE IF editor[b].op \in Pub!Overtaken(editor[a].op) /\ editor[b].id = s
                                    THEN [editor[b] EXCEPT !.moved = TRUE] ELSE editor[b]]
    BY <1>3 DEF Pub!CommitOn, Pub!Done
  <2>2. Pub!Mine(a) = service[s] /\ Pub!Mine(a) \in Pub!Service /\ s \in Pub!ServiceIds
    BY <1>1, <1>3 DEF PubTyped, Pub!Mine, Pub!ServiceIds
  <2>3. after \in Pub!Service \cup {Gone}
    BY <2>2
  <2>4. after # Gone => \A t \in Pub!ServiceIds \ {s} : service[t].code # after.code
    BY <2>2 DEF PubTyped
  <2>5. ASSUME NEW b \in Admins PROVE HeldIsTyped(editor'[b])
    <3>1. CASE b = a
      BY <2>1, <3>1 DEF HeldIsTyped, Pub!Idle, RowOps
    <3>2. CASE b # a /\ OnRow(editor[b]) /\ editor'[b] = [editor[b] EXCEPT !.moved = TRUE]
      <4>1. /\ editor'[b].op = editor[b].op /\ editor'[b].links = editor[b].links
            /\ editor[b].op \in RowOps /\ editor[b].op \notin {"create", "run"}
        BY <3>2 DEF OnRow, RowOps
      <4>2. HeldIsTyped(editor[b])
        BY DEF PubTyped
      <4> QED  BY <4>1, <4>2 DEF HeldIsTyped
    <3>3. CASE b # a /\ editor'[b] = editor[b]
      BY <3>3 DEF PubTyped
    <3>4. \A was : Pub!Overtaken(was) \subseteq RowOps
      BY DEF Pub!Overtaken, RowOps
    <3> QED  BY <2>1, <3>1, <3>2, <3>3, <3>4, IdIsOfRow
  <2> QED  BY <1>1, <2>1, <2>3, <2>4, <2>5, ServiceStep
<1> QED  BY <1>2, <1>3

LEMMA RowCommitTyped ==
    ASSUME PubInv, PubTyped, NEW a \in Admins,
           Pub!UpdateDataService(a) \/ Pub!UnpublishDataService(a) \/ Pub!DeleteDataService(a)
           \/ Pub!PublishDataService(a)
    PROVE  PubTyped'
<1> DEFINE q == editor[a]
<1>1. q.op \in RowOps /\ OnRow(q) /\ q.links \subseteq Datasets
  BY OnIsRow DEF Pub!UpdateDataService, Pub!UnpublishDataService, Pub!DeleteDataService,
                 Pub!PublishDataService, Pub!CommitOn, Pub!On, RowOps, PubTyped, HeldIsTyped
<1>2. q.moved \in BOOLEAN
  BY <1>1 DEF OnRow
<1>3. CASE Pub!UpdateDataService(a)
  <2> DEFINE after == [Pub!Mine(a) EXCEPT !.links = q.links,
                                      !.raced = @ \/ (q.moved /\ Pub!Mine(a).status = "running")]
  <2>1. Pub!CommitOn(a, "update", after)
    BY <1>3 DEF Pub!UpdateDataService
  <2>2. Pub!Mine(a) \in Pub!Service => after \in Pub!Service /\ after.code = Pub!Mine(a).code
    BY <1>1, <1>2 DEF Pub!Service
  <2> HIDE DEF after
  <2> QED  BY <2>1, <2>2, CommitOnTyped DEF RowOps
<1>4. CASE Pub!UnpublishDataService(a)
  <2> DEFINE after == [Pub!Mine(a) EXCEPT !.status = "paused", !.gated = {}, !.raced = FALSE]
  <2>1. Pub!CommitOn(a, "unpublish", after)
    BY <1>4 DEF Pub!UnpublishDataService
  <2>2. Pub!Mine(a) \in Pub!Service => after \in Pub!Service /\ after.code = Pub!Mine(a).code
    BY DEF Pub!Service
  <2> HIDE DEF after
  <2> QED  BY <2>1, <2>2, CommitOnTyped DEF RowOps
<1>5. CASE Pub!DeleteDataService(a)
  BY <1>5, CommitOnTyped DEF Pub!DeleteDataService, RowOps
<1>6. CASE Pub!PublishDataService(a)
  <2> DEFINE after == [Pub!Mine(a) EXCEPT !.status = "running", !.gated = q.links, !.raced = q.moved]
  <2>1. Pub!CommitOn(a, "commit", after)
    BY <1>6 DEF Pub!PublishDataService
  <2>2. Pub!Mine(a) \in Pub!Service => after \in Pub!Service /\ after.code = Pub!Mine(a).code
    BY <1>1, <1>2 DEF Pub!Service
  <2> HIDE DEF after
  <2> QED  BY <2>1, <2>2, CommitOnTyped DEF RowOps
<1> QED  BY <1>3, <1>4, <1>5, <1>6

\* The next code is one that is handed out.
LEMMA NextCodeIs ==
    ASSUME PubTyped PROVE Pub!NextCode \in Nat \ {0}
<1> DEFINE S == {0} \cup {service[s].code : s \in Pub!ServiceIds}
<1>1. S \subseteq 0..MaxCode
  BY PublishingAssumption DEF PubTyped, Pub!ServiceIds, Pub!Service
<1>2. S \subseteq Int /\ IsFiniteSet(S) /\ S # {}
  <2>1. IsFiniteSet(0..MaxCode) /\ 0..MaxCode \subseteq Int
    BY PublishingAssumption, FS_Interval
  <2> QED  BY <1>1, <2>1, FS_Subset
<1>3. Max(S) \in S
  BY <1>2, MaxExists DEF IsMax
<1>4. Pub!Max(S) = Max(S)
  BY DEF Pub!Max, Max
<1>5. Max(S) \in 0..MaxCode
  BY <1>1, <1>3
<1> QED  BY <1>4, <1>5, PublishingAssumption DEF Pub!NextCode

LEMMA AskTyped ==
    ASSUME PubInv, PubTyped, NEW a \in Admins,
           \/ Pub!AskCreate(a) \/ Pub!AskUpdate(a) \/ Pub!AskUnpublish(a) \/ Pub!AskDelete(a)
           \/ Pub!AskPublish(a)
    PROVE  PubTyped'
<1>1. CASE Pub!AskCreate(a)
  <2>1. PICK links \in SUBSET Datasets :
            /\ Pub!NextCode <= MaxCode
            /\ Pub!Ask(a, [op |-> "create", links |-> links, code |-> Pub!NextCode])
    BY <1>1 DEF Pub!AskCreate
  <2> DEFINE new == [op |-> "create", links |-> links, code |-> Pub!NextCode]
  <2>2. HeldIsTyped(new)
    BY <2>1, NextCodeIs, PublishingAssumption DEF HeldIsTyped, RowOps
  <2>3. editor' = [editor EXCEPT ![a] = new] /\ UNCHANGED <<service, rule>>
    BY <2>1 DEF Pub!Ask
  <2> HIDE DEF new
  <2> QED  BY <2>2, <2>3, HeldStep
<1>2. CASE \E op \in RowOps : \E st : Pub!AskOn(a, op, st)
  <2>1. PICK op \in RowOps : \E st : Pub!AskOn(a, op, st)
    BY <1>2
  <2>2. PICK s \in Pub!ServiceIds, links \in SUBSET Datasets :
             Pub!Ask(a, [op |-> op, id |-> s, links |-> links, moved |-> FALSE])
    <3>1. PICK st : Pub!AskOn(a, op, st)
      BY <2>1
    <3> QED  BY <3>1 DEF Pub!AskOn
  <2> DEFINE new == [op |-> op, id |-> s, links |-> links, moved |-> FALSE]
  <2>3. HeldIsTyped(new)
    BY DEF HeldIsTyped, RowOps
  <2>4. editor' = [editor EXCEPT ![a] = new] /\ UNCHANGED <<service, rule>>
    BY <2>2 DEF Pub!Ask
  <2> HIDE DEF new
  <2> QED  BY <2>3, <2>4, HeldStep
<1> QED  BY <1>1, <1>2 DEF Pub!AskUpdate, Pub!AskUnpublish, Pub!AskDelete, Pub!AskPublish, RowOps

LEMMA GoOnTyped ==
    ASSUME PubInv, PubTyped, runs \in 0..MaxRuns, NEW a \in Admins,
           Pub!ReadLinks(a) \/ Pub!QualityGate(a) \/ Pub!AskRun(a)
    PROVE  PubTyped'
<1> DEFINE q == editor[a]
<1>1. CASE Pub!ReadLinks(a)
  <2> DEFINE links == IF Pub!Mine(a) = Gone THEN {} ELSE Pub!Mine(a).links
             new == [q EXCEPT !.op = "verdict", !.links = links]
  <2>1. /\ q.op = "publish" /\ editor' = [editor EXCEPT ![a] = new] /\ UNCHANGED <<service, rule>>
        /\ OnRow(q)
    BY <1>1, OnIsRow DEF Pub!ReadLinks, Pub!On, PubInv, PublishShapes, RowOps
  <2>2. links \subseteq Datasets
    BY <2>1 DEF Pub!Mine, OnRow, PubTyped, Pub!Service
  <2>3. new.op = "verdict" /\ new.links = links
    BY <2>1 DEF OnRow
  <2> HIDE DEF new
  <2>4. HeldIsTyped(new)
    BY <2>2, <2>3 DEF HeldIsTyped
  <2> QED  BY <2>1, <2>4, HeldStep
<1>2. CASE Pub!QualityGate(a)
  <2>1. q.op = "verdict" /\ UNCHANGED <<service, rule>> /\ OnRow(q)
    BY <1>2, OnIsRow DEF Pub!QualityGate, Pub!On, RowOps
  <2> DEFINE new == [q EXCEPT !.op = "commit"]
  <2>2. new.op = "commit" /\ new.links = q.links /\ q.links \subseteq Datasets
    BY <2>1 DEF OnRow, PubTyped, HeldIsTyped, RowOps
  <2>3. CASE Pub!EndOf(a)
    <3>1. HeldIsTyped(Pub!Idle)
      BY DEF HeldIsTyped, Pub!Idle, RowOps
    <3> QED  BY <2>1, <2>3, <3>1, HeldStep DEF Pub!EndOf
  <2>4. CASE editor' = [editor EXCEPT ![a].op = "commit"]
    <3>1. editor' = [editor EXCEPT ![a] = new]
      BY <2>4 DEF PubInv, PublishShapes
    <3> HIDE DEF new
    <3>2. HeldIsTyped(new)
      BY <2>2 DEF HeldIsTyped
    <3> QED  BY <2>1, <3>1, <3>2, HeldStep
  <2> QED  BY <1>2, <2>3, <2>4 DEF Pub!QualityGate
<1>3. CASE Pub!AskRun(a)
  <2> DEFINE new == [op |-> "run", due |-> Pub!Due, config |-> [r \in Pub!Due |-> rule[r].config],
                     severity |-> [r \in Pub!Due |-> rule[r].severity], at |-> runs + 1]
  <2>1. editor' = [editor EXCEPT ![a] = new] /\ UNCHANGED <<service, rule>> /\ runs < MaxRuns
    BY <1>3 DEF Pub!AskRun, Pub!Ask
  <2>2. new.op = "run" /\ new.at \in 0..MaxRuns
    BY <2>1, PublishingAssumption
  <2> HIDE DEF new
  <2>3. HeldIsTyped(new)
    BY <2>2 DEF HeldIsTyped, RowOps
  <2> QED  BY <2>1, <2>3, HeldStep
<1> QED  BY <1>1, <1>2, <1>3

LEMMA CreateTyped == ASSUME PubInv, PubTyped, NEW a \in Admins, Pub!CreateDataService(a) PROVE PubTyped'
<1> DEFINE q == editor[a]
           draft == [status |-> "draft", code |-> q.code, links |-> q.links,
                     gated |-> {}, raced |-> FALSE]
<1>1. /\ q.op = "create" /\ rule' = rule /\ editor' = [editor EXCEPT ![a] = Pub!Idle]
      /\ q.code \in 1..MaxCode /\ q.links \subseteq Datasets
  BY DEF Pub!CreateDataService, Pub!EndOf, Pub!On, PubTyped, HeldIsTyped
<1>2. HeldIsTyped(Pub!Idle)
  BY DEF HeldIsTyped, Pub!Idle, RowOps
<1>3. CASE UNCHANGED service
  BY <1>1, <1>2, <1>3, HeldStep
<1>4. CASE /\ \A s \in Pub!ServiceIds : service[s].code # q.code
           /\ \E s \in Pub!NewServices : service' = [service EXCEPT ![s] = draft]
  <2>1. PICK s \in Pub!NewServices : service' = [service EXCEPT ![s] = draft]
    BY <1>4
  <2>2. s \in Services /\ draft \in Pub!Service /\ draft.code = q.code
    BY <1>1 DEF Pub!NewServices, Pub!Service
  <2>3. \A b \in Admins : editor'[b] = Pub!Idle \/ editor'[b] = editor[b]
    BY <1>1 DEF PubInv, PublishShapes
  <2>4. \A b \in Admins : HeldIsTyped(editor'[b])
    BY <1>2, <2>3 DEF PubTyped
  <2> HIDE DEF draft
  <2> QED  BY <1>1, <1>4, <2>1, <2>2, <2>4, ServiceStep
<1> QED  BY <1>3, <1>4 DEF Pub!CreateDataService

LEMMA RulesTyped ==
    ASSUME PubInv, PubTyped, UNCHANGED service,
           UNCHANGED editor \/ \E a \in Admins : editor' = [editor EXCEPT ![a] = Pub!Idle],
           \A r \in Rules : rule'[r] \in Pub!Rule \cup {Gone}
    PROVE  PubTyped'
<1>1. HeldIsTyped(Pub!Idle)
  BY DEF HeldIsTyped, Pub!Idle, RowOps
<1>2. \A b \in Admins : editor'[b] = Pub!Idle \/ editor'[b] = editor[b]
  BY DEF PubInv, PublishShapes
<1>3. \A b \in Admins : HeldIsTyped(editor'[b])
  BY <1>1, <1>2 DEF PubTyped
<1>4. Pub!ServiceIds' = Pub!ServiceIds
  BY DEF Pub!ServiceIds
<1> QED  BY <1>3, <1>4 DEF PubTyped, HeldIsTyped

LEMMA RuleTyped ==
    ASSUME PubInv, PubTyped,
           Pub!CreateQualityRule \/ Pub!SetQualityRuleEnabled \/ Pub!DeleteQualityRule
    PROVE  PubTyped'
<1>1. CASE Pub!CreateQualityRule
  <2>1. PICK r \in Pub!NewRules, d \in Datasets, sev \in {"warning", "critical"} :
            /\ rule' = [rule EXCEPT ![r] = [ds |-> d, severity |-> sev, enabled |-> TRUE,
                   config |-> "empty", latest |-> "none", at |-> 0]]
            /\ UNCHANGED <<service, editor>>
    BY <1>1 DEF Pub!CreateQualityRule
  <2>2. [ds |-> d, severity |-> sev, enabled |-> TRUE, config |-> "empty", latest |-> "none", at |-> 0]
        \in Pub!Rule
    BY PublishingAssumption DEF Pub!Rule
  <2>3. \A t \in Rules : rule'[t] \in Pub!Rule \cup {Gone}
    BY <2>1, <2>2 DEF PubTyped, PubInv, PublishShapes
  <2> QED  BY <2>1, <2>3, RulesTyped
<1>2. CASE Pub!SetQualityRuleEnabled
  <2>1. PICK r \in Pub!RuleIds :
            rule' = [rule EXCEPT ![r].enabled = ~@] /\ UNCHANGED <<service, editor>>
    BY <1>2 DEF Pub!SetQualityRuleEnabled
  <2>2. rule[r] \in Pub!Rule
    BY DEF PubTyped, Pub!RuleIds
  <2>3. [rule[r] EXCEPT !.enabled = ~@] \in Pub!Rule
    BY <2>2 DEF Pub!Rule
  <2>4. \A t \in Rules : rule'[t] \in Pub!Rule \cup {Gone}
    BY <2>1, <2>3 DEF PubTyped, PubInv, PublishShapes
  <2> QED  BY <2>1, <2>4, RulesTyped
<1>3. CASE Pub!DeleteQualityRule
  BY <1>3, RulesTyped DEF Pub!DeleteQualityRule, PubTyped, PubInv, PublishShapes
<1> QED  BY <1>1, <1>2, <1>3

LEMMA RunTyped == ASSUME PubInv, PubTyped, NEW a \in Admins, Pub!RunWorkspaceChecks(a) PROVE PubTyped'
<1> DEFINE q == editor[a]
<1>1. /\ UNCHANGED service /\ editor' = [editor EXCEPT ![a] = Pub!Idle]
      /\ q.op = "run" /\ q.at \in 0..MaxRuns
  BY DEF Pub!RunWorkspaceChecks, Pub!EndOf, Pub!On, PubTyped, HeldIsTyped
<1>2. CASE UNCHANGED rule
  BY <1>1, <1>2, RulesTyped DEF PubTyped
<1>3. ASSUME NEW out, rule' = Pub!WithResults(q, out) PROVE PubTyped'
  <2> DEFINE ran == {r \in q.due : out[r] # "error"}
             new(r) == [rule[r] EXCEPT !.latest = Pub!StatusOf(out[r], q.severity[r]), !.at = q.at]
  <2>1. CASE ~(ran \subseteq Pub!RuleIds)
    BY <1>1, <1>3, <2>1, RulesTyped DEF Pub!WithResults, PubTyped
  <2>2. CASE ran \subseteq Pub!RuleIds
    <3>1. ASSUME NEW r \in Rules PROVE rule'[r] \in Pub!Rule \cup {Gone}
      <4>1. rule'[r] = rule[r] \/ (r \in Pub!RuleIds /\ rule'[r] = new(r))
        BY <1>3, <2>2 DEF Pub!WithResults
      <4>2. Pub!StatusOf(out[r], q.severity[r]) \in {"none", "pass", "warn", "fail"}
        BY DEF Pub!StatusOf
      <4>3. r \in Pub!RuleIds => rule[r] \in Pub!Rule
        BY DEF PubTyped, Pub!RuleIds
      <4>4. r \in Pub!RuleIds => new(r) \in Pub!Rule
        BY <1>1, <4>2, <4>3 DEF Pub!Rule
      <4> QED  BY <4>1, <4>4 DEF PubTyped
    <3> QED  BY <1>1, <3>1, RulesTyped
  <2> QED  BY <2>1, <2>2
<1> QED  BY <1>2, <1>3 DEF Pub!RunWorkspaceChecks

LEMMA RunsAreBounded ==
    ASSUME runs \in 0..MaxRuns, [Pub!PublishNext]_Pub!publishVars PROVE runs' \in 0..MaxRuns
<1>1. runs' = runs \/ (runs < MaxRuns /\ runs' = runs + 1)
  BY DEF Pub!PublishNext, Pub!publishVars, Pub!AskRun, Pub!RunWorkspaceChecks, Pub!CreateQualityRule,
         Pub!SetQualityRuleEnabled, Pub!DeleteQualityRule
<1> QED  BY <1>1, PublishingAssumption

\* The types of services, rules and their actions; a code has one service.
THEOREM PublishTypes == WorkspaceSpec => [](part = "publishing" => Pub!PublishTypeOK)
<1> DEFINE I == part = "publishing" => PubInv /\ StandingInv
           J == part = "publishing" => PubTyped /\ runs \in 0..MaxRuns
<1>1. WorkspaceInit => J
  <2> SUFFICES ASSUME Pub!PublishInit PROVE PubTyped /\ runs \in 0..MaxRuns
    BY DEF WorkspaceInit, PublishingBegins
  <2>1. /\ \A a \in Admins : editor[a] = Pub!Idle
        /\ \A s, t \in Pub!ServiceIds : service[s].code = service[t].code => s = t
        /\ runs \in 0..MaxRuns
    BY PublishingAssumption DEF Pub!PublishInit
  <2>2. ASSUME NEW s \in Services PROVE service[s] \in Pub!Service \cup {Gone}
    <3>1. service[s] \in {Gone} \cup [status: {"running", "review", "paused"}, code: 1..MaxCode,
                                      links: {{}}, gated: {{}}, raced: {FALSE}]
      BY DEF Pub!PublishInit
    <3> QED  BY <3>1 DEF Pub!Service
  <2>3. ASSUME NEW r \in Rules PROVE rule[r] \in Pub!Rule \cup {Gone}
    <3>1. rule[r] \in {Gone} \cup Pub!Seeded \cup Pub!Loaded /\ 0 \in 0..MaxRuns
      BY PublishingAssumption DEF Pub!PublishInit
    <3> QED  BY <3>1 DEF Pub!Seeded, Pub!Loaded, Pub!Rule
  <2> QED  BY <2>1, <2>2, <2>3 DEF PubTyped, HeldIsTyped, Pub!Idle, RowOps
<1>2. I /\ J /\ [WorkspaceNext]_workspaceVars => J'
  <2> SUFFICES ASSUME PubInv, PubTyped, runs \in 0..MaxRuns, [Pub!PublishNext]_Pub!publishVars
               PROVE  PubTyped'
    BY PubFrame, RunsAreBounded
  <2>1. CASE UNCHANGED Pub!publishVars
    BY <2>1, RulesTyped DEF Pub!publishVars, PubTyped
  <2>2. ASSUME NEW a \in Admins, Pub!ServiceStep(a) PROVE PubTyped'
    BY <2>2, AskTyped, GoOnTyped, CreateTyped, RowCommitTyped DEF Pub!ServiceStep
  <2> QED  BY <2>1, <2>2, GoOnTyped, RuleTyped, RunTyped DEF Pub!PublishNext
<1>3. I /\ J => (part = "publishing" => Pub!PublishTypeOK)
  <2>1. PubInv /\ PubTyped => Pub!PublishTypeOK
    <3> SUFFICES ASSUME PubInv, PubTyped PROVE Pub!PublishTypeOK
      OBVIOUS
    <3>1. service \in [Services -> Pub!Service \cup {Gone}] /\ rule \in [Rules -> Pub!Rule \cup {Gone}]
      BY DEF PubInv, PublishShapes, PubTyped
    <3> QED  BY <3>1 DEF PubTyped, Pub!PublishTypeOK
  <2> QED  BY <2>1
<1> QED  BY <1>1, <1>2, <1>3, PublishingInductive, PTL DEF WorkspaceSpec

-----------------------------------------------------------------------------
Decisions == {"approved", "rejected", "cancelled"}
Application == [status: {"pending"} \cup Decisions, decidedBy: Admins \cup {Gone}]
Deciding == [pc: {"read", "write"}, id: Requests, to: Decisions]

\* The shapes; what a page lists or an action holds has been submitted; and only
\* administrators decide.
ApprovalsShapes ==
    /\ application \in [Requests -> Application \cup {Gone}]
    /\ trail \in [Requests -> Seq(Decisions)]
    /\ tab \in [App!Members -> SUBSET Requests]
    /\ action \in [App!Members -> Deciding \cup {App!Waiting}]
    /\ overtaken \subseteq Requests
HeldIsSubmitted == \A m \in App!Members :
    /\ tab[m] \subseteq App!Submitted
    /\ action[m] # App!Waiting => action[m].id \in App!Submitted
ByAdmins == \A m \in App!Members : action[m] # App!Waiting => action[m].to \in App!Buttons(m)

\* The status follows the audit trail, which begins with the submission.
TrailTells == \A r \in Requests :
    IF application[r] = Gone THEN trail[r] = <<>>
    ELSE application[r].status = IF trail[r] = <<>> THEN "pending" ELSE trail[r][Len(trail[r])]

\* Of a request that was never overtaken: one outcome at most, nobody has decided it while it
\* is pending or if it was withdrawn, and an action that is about to write found it pending.
UndecidedUntilWritten == \A r \in Requests : application[r] # Gone /\ r \notin overtaken =>
    /\ Len(trail[r]) <= 1
    /\ application[r].status \in {"pending", "cancelled"} => application[r].decidedBy = Gone
    /\ \A m \in App!Members : action[m].pc = "write" /\ action[m].id = r => trail[r] = <<>>

AppInv == ApprovalsShapes /\ HeldIsSubmitted /\ ByAdmins /\ TrailTells /\ UndecidedUntilWritten

-----------------------------------------------------------------------------
LEMMA ApprovalsBeginInv == App!ApprovalsInit => AppInv
  BY DEF App!ApprovalsInit, AppInv, ApprovalsShapes, HeldIsSubmitted, ByAdmins, TrailTells,
         UndecidedUntilWritten,
         App!Submitted, App!Waiting, App!Members

LEMMA ApprovalsStutter == AppInv /\ UNCHANGED App!approvalVars => AppInv'
  BY DEF AppInv, ApprovalsShapes, HeldIsSubmitted, ByAdmins, TrailTells, UndecidedUntilWritten,
         App!Submitted, App!Buttons, App!Members, App!approvalVars

\* A new request is pending and has no trail.
LEMMA SubmitRequestStep == ASSUME AppInv, App!Submit PROVE AppInv'
<1> DEFINE new == [status |-> "pending", decidedBy |-> Gone]
<1>1. PICK r \in Requests \ App!Submitted :
        application' = [application EXCEPT ![r] = new] /\ UNCHANGED <<trail, tab, action, overtaken>>
  BY DEF App!Submit
<1>2. new \in Application /\ new # Gone
  BY GoneIsNoRequest DEF Application, Decisions
<1>3. application[r] = Gone /\ r \in Requests
  BY <1>1 DEF App!Submitted
<1> HIDE DEF new
<1>4. ApprovalsShapes'
  BY <1>1, <1>2 DEF AppInv, ApprovalsShapes, App!Members
<1>5. HeldIsSubmitted'
  BY <1>1, <1>2 DEF AppInv, ApprovalsShapes, HeldIsSubmitted, App!Submitted, App!Members
<1>6. ByAdmins'
  BY <1>1 DEF AppInv, ByAdmins, App!Buttons, App!Members
<1>7. TrailTells'
  BY <1>1, <1>2, <1>3 DEF AppInv, ApprovalsShapes, TrailTells, new
<1>8. UndecidedUntilWritten'
  BY <1>1, <1>2, <1>3 DEF AppInv, ApprovalsShapes, TrailTells, UndecidedUntilWritten, new
<1> QED  BY <1>4, <1>5, <1>6, <1>7, <1>8 DEF AppInv

\* Pages and actions that have not read yet leave the requests alone.
LEMMA OpenRequestStep == ASSUME AppInv, NEW m \in App!Members, App!Open(m) PROVE AppInv'
<1>1. ApprovalsShapes' /\ HeldIsSubmitted'
  BY DEF App!Open, AppInv, ApprovalsShapes, HeldIsSubmitted, App!Pending, App!Submitted, App!Members
<1>2. ByAdmins' /\ TrailTells' /\ UndecidedUntilWritten'
  BY DEF App!Open, AppInv, ByAdmins, TrailTells, UndecidedUntilWritten, App!Buttons, App!Members
<1> QED  BY <1>1, <1>2 DEF AppInv

LEMMA PressRequestStep == ASSUME AppInv, NEW m \in App!Members, App!Press(m) PROVE AppInv'
<1>1. PICK r \in tab[m], to \in App!Buttons(m) :
        action' = [action EXCEPT ![m] = [pc |-> "read", id |-> r, to |-> to]]
  BY DEF App!Press
<1>2. r \in Requests /\ r \in App!Submitted /\ to \in Decisions
  BY <1>1 DEF AppInv, ApprovalsShapes, HeldIsSubmitted, App!Buttons, Decisions, App!Submitted
<1>3. ApprovalsShapes' /\ HeldIsSubmitted'
  BY <1>1, <1>2 DEF App!Press, AppInv, ApprovalsShapes, HeldIsSubmitted, App!Submitted, Deciding,
                    App!Members
<1>4. ByAdmins'
  BY <1>1, <1>2 DEF App!Press, AppInv, ApprovalsShapes, ByAdmins, App!Buttons, App!Members
<1>5. TrailTells' /\ UndecidedUntilWritten'
  BY <1>1, <1>2 DEF App!Press, AppInv, ApprovalsShapes, TrailTells, UndecidedUntilWritten,
                    App!Members
<1> QED  BY <1>3, <1>4, <1>5 DEF AppInv

\* An action goes on to write only when it has read "pending", and then the trail is empty.
LEMMA ReadRequestStep == ASSUME AppInv, NEW m \in App!Members, App!ReadRequest(m) PROVE AppInv'
<1> DEFINE id == action[m].id
           on == [action[m] EXCEPT !.pc = "write"]
<1>1. /\ action[m] \in Deciding /\ action[m] # App!Waiting
      /\ UNCHANGED <<application, trail, tab, overtaken>>
      /\ id \in Requests /\ application[id] # Gone
      /\ on \in Deciding /\ on.id = id /\ on.to = action[m].to
  <2>1. action[m].pc = "read" /\ UNCHANGED <<application, trail, tab, overtaken>>
    BY DEF App!ReadRequest
  <2>2. action[m] # App!Waiting
    BY <2>1 DEF App!Waiting
  <2>3. action[m] \in Deciding /\ id \in App!Submitted
    BY <2>2 DEF AppInv, ApprovalsShapes, HeldIsSubmitted
  <2>4. on \in Deciding /\ on.id = id /\ on.to = action[m].to
    BY <2>3 DEF Deciding
  <2> QED  BY <2>1, <2>2, <2>3, <2>4 DEF App!Submitted
<1>2. action' = [action EXCEPT ![m] = IF application[id].status = "pending" THEN on ELSE App!Waiting]
  BY DEF App!ReadRequest
<1> HIDE DEF on
<1>3. ApprovalsShapes' /\ HeldIsSubmitted'
  BY <1>1, <1>2 DEF AppInv, ApprovalsShapes, HeldIsSubmitted, App!Submitted, App!Members
<1>4. ByAdmins'
  BY <1>1, <1>2 DEF AppInv, ApprovalsShapes, ByAdmins, App!Buttons, App!Members
<1>5. TrailTells'
  BY <1>1 DEF AppInv, TrailTells
<1>6. application[id].status = "pending" /\ id \notin overtaken => trail[id] = <<>>
  <2>1. CASE trail[id] # <<>> /\ id \notin overtaken
    <3>1. trail[id] \in Seq(Decisions) /\ Len(trail[id]) # 0
      BY <1>1, <2>1 DEF AppInv, ApprovalsShapes
    <3>2. trail[id][Len(trail[id])] \in Decisions
      BY <3>1
    <3> QED  BY <1>1, <2>1, <3>2 DEF AppInv, TrailTells, Decisions
  <2> QED  BY <2>1
<1>7. UndecidedUntilWritten'
  BY <1>1, <1>2, <1>6 DEF AppInv, ApprovalsShapes, UndecidedUntilWritten, App!Waiting, App!Members
<1> QED  BY <1>3, <1>4, <1>5, <1>7 DEF AppInv

\* The update overtakes whoever else is about to write the same request.
LEMMA WriteRequestStep == ASSUME AppInv, NEW m \in App!Members, App!WriteRequest(m) PROVE AppInv'
<1> DEFINE r == action[m].id
           to == action[m].to
           new == [application[r] EXCEPT !.status = to,
                       !.decidedBy = IF to = "cancelled" THEN @ ELSE m]
<1>1. /\ r \in Requests /\ application[r] \in Application /\ application[r] # Gone
      /\ to \in Decisions /\ to \in App!Buttons(m) /\ action[m].pc = "write"
      /\ action' = [action EXCEPT ![m] = App!Waiting]
  BY DEF App!WriteRequest, AppInv, ApprovalsShapes, HeldIsSubmitted, ByAdmins, App!Submitted,
         App!Waiting, Deciding, App!Members
<1>2. /\ application' = [application EXCEPT ![r] = new]
      /\ trail' = [trail EXCEPT ![r] = Append(@, to)]
      /\ overtaken' = IF \E o \in App!Members \ {m} : action[o].pc = "write" /\ action[o].id = r
                      THEN overtaken \cup {r} ELSE overtaken
      /\ tab' = [tab EXCEPT ![m] = {q \in App!Submitted : application'[q].status = "pending"}]
  BY <1>1 DEF App!WriteRequest, AppInv, ApprovalsShapes, Application
<1>3. /\ new \in Application /\ new # Gone /\ new.status = to
      /\ to = "cancelled" => new.decidedBy = application[r].decidedBy
  BY <1>1, GoneIsNoRequest DEF Application, App!Buttons, Decisions
<1>4. /\ trail'[r] \in Seq(Decisions) /\ trail'[r] # <<>>
      /\ trail'[r][Len(trail'[r])] = to /\ Len(trail'[r]) = Len(trail[r]) + 1
  <2>1. trail[r] \in Seq(Decisions) /\ trail'[r] = Append(trail[r], to) /\ to \in Decisions
    BY <1>1, <1>2 DEF AppInv, ApprovalsShapes
  <2> HIDE DEF r, to
  <2> QED  BY <2>1
<1> HIDE DEF new, to, r
<1>5. ApprovalsShapes'
  BY <1>1, <1>2, <1>3, <1>4 DEF AppInv, ApprovalsShapes, App!Submitted, App!Members
<1>6. HeldIsSubmitted'
  BY <1>1, <1>2, <1>3 DEF AppInv, ApprovalsShapes, HeldIsSubmitted, App!Submitted, App!Members
<1>7. ByAdmins'
  BY <1>1 DEF AppInv, ApprovalsShapes, ByAdmins, App!Buttons, App!Members
<1>8. TrailTells'
  BY <1>1, <1>2, <1>3, <1>4 DEF AppInv, ApprovalsShapes, TrailTells
<1>9. UndecidedUntilWritten'
  <2> SUFFICES ASSUME NEW q \in Requests, application'[q] # Gone, q \notin overtaken'
               PROVE  /\ Len(trail'[q]) <= 1
                      /\ application'[q].status \in {"pending", "cancelled"} =>
                             application'[q].decidedBy = Gone
                      /\ \A o \in App!Members : action'[o].pc = "write" /\ action'[o].id = q =>
                             trail'[q] = <<>>
    BY DEF UndecidedUntilWritten
  <2>1. q \notin overtaken
    BY <1>2
  <2>2. CASE q = r
    <3>1. trail[r] = <<>> /\ Len(trail[r]) = 0 /\ application[r].status = "pending"
          /\ application[r].decidedBy = Gone
      BY <1>1, <2>1, <2>2 DEF AppInv, TrailTells, UndecidedUntilWritten, r
    <3>2. \A o \in App!Members : ~(action'[o].pc = "write" /\ action'[o].id = q)
      BY <1>1, <1>2, <2>1, <2>2 DEF AppInv, ApprovalsShapes, App!Waiting
    <3>3. application'[q] = new
      BY <1>1, <1>2, <2>2 DEF AppInv, ApprovalsShapes
    <3>4. Len(trail'[q]) = 1
      BY <1>4, <2>2, <3>1, SMT
    <3>5. application'[q].status \in {"pending", "cancelled"} => application'[q].decidedBy = Gone
      BY <1>1, <1>3, <3>1, <3>3 DEF Decisions
    <3> QED  BY <3>2, <3>4, <3>5, SMT
  <2>3. CASE q # r
    <3>1. application'[q] = application[q] /\ trail'[q] = trail[q]
      BY <1>1, <1>2, <2>3 DEF AppInv, ApprovalsShapes
    <3>2. \A o \in App!Members : action'[o].pc = "write" => o # m /\ action'[o] = action[o]
      BY <1>1 DEF AppInv, ApprovalsShapes, App!Waiting
    <3> QED  BY <2>1, <3>1, <3>2 DEF AppInv, UndecidedUntilWritten
  <2> QED  BY <2>2, <2>3
<1> QED  BY <1>5, <1>6, <1>7, <1>8, <1>9 DEF AppInv

-----------------------------------------------------------------------------
\* In the approvals part, a step of the workspace is one of that part.
LEMMA AppFrame ==
    ASSUME [WorkspaceNext]_workspaceVars, part' = "approvals"
    PROVE  part = "approvals" /\ [App!ApprovalsNext]_App!approvalVars
<1> USE DEF Around1, Around2, Around3, Around4
<1>1. CASE ApprovalsRun
  BY <1>1 DEF ApprovalsRun
<1>2. CASE UNCHANGED workspaceVars
  BY <1>2 DEF workspaceVars, approvalsVars, App!approvalVars
<1>3. ASSUME \/ CatalogRuns \/ PublishingRuns \/ GatewayRuns \/ SourcesRun \/ AdmissionRuns
             \/ ReadsRun \/ AccessRuns \/ ScreensRun \/ FirstEntryRuns
      PROVE  FALSE
  BY <1>3 DEF CatalogRuns, PublishingRuns, GatewayRuns, SourcesRun, AdmissionRuns,
              ReadsRun, AccessRuns, ScreensRun, FirstEntryRuns
<1> QED  BY <1>1, <1>2, <1>3 DEF WorkspaceNext

\* The invariant of the approvals, for any number of requests and administrators: who submits,
\* opens, presses, reads and writes, in whatever order (approvals/actions.ts).
THEOREM ApprovalsInductive == WorkspaceSpec => [](part = "approvals" => AppInv)
<1>1. WorkspaceInit => (part = "approvals" => AppInv)
  BY ApprovalsBeginInv DEF WorkspaceInit, ApprovalsBegin
<1>2. (part = "approvals" => AppInv) /\ [WorkspaceNext]_workspaceVars
      => (part = "approvals" => AppInv)'
  <2> SUFFICES ASSUME AppInv, [App!ApprovalsNext]_App!approvalVars PROVE AppInv'
    BY AppFrame
  <2> QED  BY ApprovalsStutter, SubmitRequestStep, OpenRequestStep, PressRequestStep, ReadRequestStep, WriteRequestStep DEF App!ApprovalsNext
<1> QED  BY <1>1, <1>2, PTL DEF WorkspaceSpec

\* Types of the request rows.
THEOREM ApprovalsTypes == WorkspaceSpec => [](part = "approvals" => App!ApprovalsTypeOK)
<1>1. AppInv => App!ApprovalsTypeOK
  BY DEF AppInv, ApprovalsShapes, Application, Decisions, App!ApprovalsTypeOK
<1> QED  BY <1>1, ApprovalsInductive, PTL

\* An access request is decided once unless two actions had both read it as pending, and
\* always carries the outcome that was audited last (approvals/actions.ts:23).
THEOREM DecidedOnceTheorem == WorkspaceSpec => []DecidedOnceUnlessRaced
<1>1. (part = "approvals" => AppInv) => DecidedOnceUnlessRaced
  BY DEF AppInv, ApprovalsShapes, TrailTells, UndecidedUntilWritten, DecidedOnceUnlessRaced,
         App!DecidedOnceUnlessRaced, App!Submitted
<1> QED  BY <1>1, ApprovalsInductive, PTL

-----------------------------------------------------------------------------
(* The menus and the gates: a badge tells what the gate will show. *)

Odd == {"secClassRules", "secLabeling", "secDiscovery", "metaMap", "metaImpact"}

\* How the entry of a menu agrees with the gate of its section.
Agrees(i) ==
    /\ i[2] \in Acc!GatedSections => \/ Acc!Feature(i[1]) = Acc!Feature(i[2]) \/ i[1] \in Odd
                                     \/ /\ Acc!Feature(i[1]) = "data_products"
                                        /\ Acc!Feature(i[2]) = "publish_api"
    /\ i[2] \notin Acc!GatedSections =>
           \/ i[1] \in Odd
           \/ Acc!Feature(i[1]) \in {Gone, "catalog", "edit_metadata"} \cup Acc!FUTURE_FEATURE_KEYS
    /\ i[2] \in Acc!ADMIN_SCREENS => i[1] \in Acc!AdminOnly

LEMMA EntriesAgree == \A i \in Acc!Items : Agrees(i)
<1> SUFFICES ASSUME NEW i \in Acc!Items PROVE Agrees(i)
  OBVIOUS
<1> USE DEF Agrees, Odd, Acc!Feature, Acc!GatedSections, Acc!ADMIN_SCREENS, Acc!AdminOnly, Acc!At,
            Acc!FUTURE_FEATURE_KEYS
<1>1. PICK b \in Acc!Boards : i \in Acc!Menu(b)
  BY DEF Acc!Items
<1>2. ASSUME b \in {"assets", "services", "design", "standards"} PROVE Agrees(i)
  <2>1. CASE b = "assets"
    <3>1. i \in Acc!AssetMenus.assets
      BY <1>1, <2>1 DEF Acc!Menu, Acc!AssetMenus
    <3> QED  BY <3>1, SMTT(30) DEF Acc!AssetMenus
  <2>2. CASE b = "services"
    <3>1. i \in Acc!AssetMenus.services
      BY <1>1, <2>2 DEF Acc!Menu, Acc!AssetMenus
    <3> QED  BY <3>1, SMTT(30) DEF Acc!AssetMenus
  <2>3. CASE b = "design"
    <3>1. i \in Acc!AssetMenus.design
      BY <1>1, <2>3 DEF Acc!Menu, Acc!AssetMenus
    <3> QED  BY <3>1, SMTT(30) DEF Acc!AssetMenus
  <2>4. CASE b = "standards"
    <3>1. i \in Acc!AssetMenus.standards
      BY <1>1, <2>4 DEF Acc!Menu, Acc!AssetMenus
    <3> QED  BY <3>1, SMTT(30) DEF Acc!AssetMenus
  <2> QED  BY <1>2, <2>1, <2>2, <2>3, <2>4
<1>3. ASSUME b \in {"integration", "storage", "engineering", "quality", "security", "masterdata"}
      PROVE  Agrees(i)
  <2>1. CASE b = "integration"
    <3>1. i \in Acc!GovernMenus.integration
      BY <1>1, <2>1 DEF Acc!Menu, Acc!AssetMenus, Acc!GovernMenus
    <3> QED  BY <3>1, SMTT(30) DEF Acc!GovernMenus
  <2>2. CASE b = "storage"
    <3>1. i \in Acc!GovernMenus.storage
      BY <1>1, <2>2 DEF Acc!Menu, Acc!AssetMenus, Acc!GovernMenus
    <3> QED  BY <3>1, SMTT(30) DEF Acc!GovernMenus
  <2>3. CASE b = "engineering"
    <3>1. i \in Acc!GovernMenus.engineering
      BY <1>1, <2>3 DEF Acc!Menu, Acc!AssetMenus, Acc!GovernMenus
    <3> QED  BY <3>1, SMTT(30) DEF Acc!GovernMenus
  <2>4. CASE b = "quality"
    <3>1. i \in Acc!GovernMenus.quality
      BY <1>1, <2>4 DEF Acc!Menu, Acc!AssetMenus, Acc!GovernMenus
    <3> QED  BY <3>1, SMTT(30) DEF Acc!GovernMenus
  <2>5. CASE b = "security"
    <3>1. i \in Acc!GovernMenus.security
      BY <1>1, <2>5 DEF Acc!Menu, Acc!AssetMenus, Acc!GovernMenus
    <3> QED  BY <3>1, SMTT(30) DEF Acc!GovernMenus
  <2>6. CASE b = "masterdata"
    <3>1. i \in Acc!GovernMenus.masterdata
      BY <1>1, <2>6 DEF Acc!Menu, Acc!AssetMenus, Acc!GovernMenus
    <3> QED  BY <3>1, SMTT(30) DEF Acc!GovernMenus
  <2> QED  BY <1>3, <2>1, <2>2, <2>3, <2>4, <2>5, <2>6
<1>4. ASSUME b \in {"metadata", "operations", "admin"} PROVE Agrees(i)
  <2>1. CASE b = "metadata"
    <3>1. i \in Acc!OperateMenus.metadata
      BY <1>1, <2>1 DEF Acc!Menu, Acc!AssetMenus, Acc!GovernMenus, Acc!OperateMenus
    <3>2. \/ i \in Acc!At("metadata", {"metaMap", "metaImpact", "metaTags", "metaHarvest", "metaChanges",
                                       "metaQuality"})
          \/ i \in Acc!At("lineage", {"lineage"}) \/ i \in Acc!At("glossary", {"glossary"})
      BY ONLY <3>1 DEF Acc!OperateMenus
    <3>3. CASE i \in Acc!At("metadata", {"metaMap", "metaImpact", "metaTags", "metaHarvest", "metaChanges",
                                        "metaQuality"})
      BY <3>3, SMTT(30)
    <3>4. CASE i \in Acc!At("lineage", {"lineage"}) \/ i \in Acc!At("glossary", {"glossary"})
      BY <3>4, SMTT(30)
    <3> QED  BY <3>2, <3>3, <3>4
  <2>2. CASE b = "operations"
    <3>1. i \in Acc!OperateMenus.operations
      BY <1>1, <2>2 DEF Acc!Menu, Acc!AssetMenus, Acc!GovernMenus, Acc!OperateMenus
    <3>2. \/ i \in Acc!At("operations", {"operations", "opsHeat", "opsServiceStats", "opsCost", "opsReports",
                                         "opsCapacity", "opsDisposal", "opsMonitoring", "opsLogs"})
          \/ i \in Acc!At("governance", {"govIssues", "govRectification", "govScorecard"})
      BY ONLY <3>1 DEF Acc!OperateMenus
    <3>3. CASE i \in Acc!At("operations", {"operations", "opsHeat", "opsServiceStats", "opsCost",
                                          "opsReports", "opsCapacity", "opsDisposal", "opsMonitoring",
                                          "opsLogs"})
      BY <3>3, SMTT(30)
    <3>4. CASE i \in Acc!At("governance", {"govIssues", "govRectification", "govScorecard"})
      BY <3>4, SMTT(30)
    <3> QED  BY <3>2, <3>3, <3>4
  <2>3. CASE b = "admin"
    <3>1. i \in Acc!OperateMenus.admin
      BY <1>1, <2>3 DEF Acc!Menu, Acc!AssetMenus, Acc!GovernMenus, Acc!OperateMenus
    <3>2. \/ i \in Acc!At("approvals", {"approvals", "adminFlows"}) \/ i \in Acc!At("apikeys", {"apikeys"})
          \/ i \in Acc!At("audit", {"audit"})
          \/ i \in Acc!At("admin", {"adminDict", "adminNotif", "adminPlatform"})
      BY ONLY <3>1 DEF Acc!OperateMenus
    <3> QED  BY <3>2, SMTT(30)
  <2> QED  BY <1>4, <2>1, <2>2, <2>3
<1>5. b \in {"assets", "services", "design", "standards"}
         \cup {"integration", "storage", "engineering", "quality", "security", "masterdata"}
         \cup {"metadata", "operations", "admin"}
  BY DEF Acc!Boards, Acc!AssetMenus, Acc!GovernMenus, Acc!OperateMenus
<1> QED  BY <1>2, <1>3, <1>4, <1>5

\* The features that decide whether an entry of an open section can have a badge.
LEMMA TierFeatures ==
    /\ \A t \in Acc!Tiers : {"catalog", "edit_metadata"} \subseteq Acc!CAPABILITY_MATRIX[t]
    /\ \A t \in Acc!Tiers : \A f \in Acc!FUTURE_FEATURE_KEYS : f \notin Acc!CAPABILITY_MATRIX[t]
    /\ \A t \in Acc!Tiers : "data_products" \in Acc!CAPABILITY_MATRIX[t]
                              <=> "publish_api" \in Acc!CAPABILITY_MATRIX[t]
<1>1. Acc!Tiers = {"free", "starter", "pro", "business", "enterprise"}
  BY DEF Acc!Tiers, Acc!TIER_ORDER
<1>2. \A t \in Acc!Tiers : Acc!CAPABILITY_MATRIX[t]
                              = UNION {Acc!Adds[u] : u \in {v \in Acc!Tiers : Acc!tierMeets(t, v)}}
  BY DEF Acc!CAPABILITY_MATRIX
<1>3. \A t \in Acc!Tiers : Acc!tierMeets(t, "free")
  <2>1. \A t \in Acc!Tiers : Acc!tierRank(t) \in 1..5
    BY <1>1 DEF Acc!tierRank, Acc!TIER_ORDER
  <2>2. Acc!tierRank("free") = 1
    BY DEF Acc!tierRank, Acc!TIER_ORDER
  <2> QED  BY <2>1, <2>2 DEF Acc!tierMeets
<1>4. Acc!Adds["free"] = {"catalog", "edit_metadata", "sources_basic"}
  BY DEF Acc!Adds
<1>5. \A u \in Acc!Tiers : /\ Acc!Adds[u] \cap Acc!FUTURE_FEATURE_KEYS = {}
                           /\ "data_products" \in Acc!Adds[u] <=> "publish_api" \in Acc!Adds[u]
  BY <1>1 DEF Acc!Adds, Acc!FUTURE_FEATURE_KEYS
<1> QED  BY <1>1, <1>2, <1>3, <1>4, <1>5

LEMMA TiersAreNoPanels == {"content", "soon", "denied", "notice"} \cap Acc!Tiers = {}
  BY DEF Acc!Tiers, Acc!TIER_ORDER

\* The tier that a panel names is a tier when some tier has the feature, and none otherwise.
LEMMA LeastTier ==
    ASSUME NEW h
    PROVE  /\ (\E t \in Acc!Tiers : h \in Acc!CAPABILITY_MATRIX[t]) => Acc!minTierFor(h) \in Acc!Tiers
           /\ ~(\E t \in Acc!Tiers : h \in Acc!CAPABILITY_MATRIX[t]) => Acc!minTierFor(h) = Gone
<1> DEFINE ts == {t \in Acc!Tiers : h \in Acc!CAPABILITY_MATRIX[t]}
<1>1. Acc!Tiers = {"free", "starter", "pro", "business", "enterprise"}
  BY DEF Acc!Tiers, Acc!TIER_ORDER
<1>2. /\ Acc!tierRank("free") = 1 /\ Acc!tierRank("starter") = 2 /\ Acc!tierRank("pro") = 3
      /\ Acc!tierRank("business") = 4 /\ Acc!tierRank("enterprise") = 5
  BY DEF Acc!tierRank, Acc!TIER_ORDER
<1>3. ASSUME ts # {} PROVE \E t \in ts : \A u \in ts : Acc!tierMeets(u, t)
  <2>1. CASE "free" \in ts
    BY <1>1, <1>2, <2>1 DEF Acc!tierMeets
  <2>2. CASE "free" \notin ts /\ "starter" \in ts
    BY <1>1, <1>2, <2>2 DEF Acc!tierMeets
  <2>3. CASE "free" \notin ts /\ "starter" \notin ts /\ "pro" \in ts
    BY <1>1, <1>2, <2>3 DEF Acc!tierMeets
  <2>4. CASE ts \cap {"free", "starter", "pro"} = {} /\ "business" \in ts
    BY <1>1, <1>2, <2>4 DEF Acc!tierMeets
  <2>5. CASE ts \cap {"free", "starter", "pro", "business"} = {}
    BY <1>1, <1>2, <1>3, <2>5 DEF Acc!tierMeets
  <2> QED  BY <2>1, <2>2, <2>3, <2>4, <2>5
<1>4. Acc!minTierFor(h) = IF ts = {} THEN Gone ELSE CHOOSE t \in ts : \A u \in ts : Acc!tierMeets(u, t)
  BY DEF Acc!minTierFor
<1>5. ts # {} => Acc!minTierFor(h) \in ts
  BY <1>3, <1>4
<1> QED  BY <1>4, <1>5

\* The gated sections ask for a feature that some tier has or that is yet to come.
LEMMA GatedFeatures ==
    ASSUME NEW s \in Acc!GatedSections
    PROVE  Acc!Feature(s) \in Acc!FUTURE_FEATURE_KEYS
           \/ \E t \in Acc!Tiers : Acc!Feature(s) \in Acc!CAPABILITY_MATRIX[t]
<1>1. Acc!Tiers = {"free", "starter", "pro", "business", "enterprise"}
  BY DEF Acc!Tiers, Acc!TIER_ORDER
<1>2. \A t \in Acc!Tiers : Acc!tierMeets(t, t)
  BY <1>1 DEF Acc!tierMeets, Acc!tierRank, Acc!TIER_ORDER
<1>3. \A t \in Acc!Tiers : \A h \in Acc!Adds[t] : h \in Acc!CAPABILITY_MATRIX[t]
  BY <1>2 DEF Acc!CAPABILITY_MATRIX
<1>4. Acc!Feature(s) \in Acc!FUTURE_FEATURE_KEYS
                             \cup Acc!Adds["free"] \cup Acc!Adds["starter"] \cup Acc!Adds["pro"]
  BY DEF Acc!GatedSections, Acc!Feature, Acc!FUTURE_FEATURE_KEYS, Acc!Adds
<1> QED  BY <1>1, <1>3, <1>4

\* What an entry announces is what its section shows, by plan and role of the same moment.
LEMMA BadgeIsGate ==
    ASSUME NEW i \in Acc!Items, subscription \in Subscriptions, Acc!hasProductAccess(subscription),
           browser.sub = subscription, i[1] \in Acc!AdminOnly => Acc!isWorkspaceAdmin(roles)
    PROVE  /\ Acc!ScreenGate(i[2]) # "denied"
           /\ /\ i[1] \notin Odd
              /\ subscription.tier # Gone \/ i[2] \in Acc!GatedSections
              => (IF Acc!ScreenGate(i[2]) \in Acc!Tiers THEN Acc!ScreenGate(i[2]) ELSE Gone) = Acc!Badge(i[1])
<1> DEFINE shows == Acc!ScreenGate(i[2])
           f == Acc!Feature(i[2])
           g == Acc!Feature(i[1])
           Can(h) == subscription.tier # Gone /\ h \in Acc!CAPABILITY_MATRIX[subscription.tier]
<1>1. Agrees(i) /\ (subscription.tier = Gone \/ subscription.tier \in Acc!Tiers)
  BY EntriesAgree, SubscriptionsAssumption
<1>2. \A h : Acc!canUseFeature(subscription, h) <=> Can(h)
  BY DEF Acc!canUseFeature
<1>3. shows = IF i[2] \notin Acc!GatedSections \/ Can(f) THEN "content"
              ELSE IF f \in Acc!FUTURE_FEATURE_KEYS THEN "soon" ELSE Acc!minTierFor(f)
  <2>1. ~(i[2] \in Acc!ADMIN_SCREENS /\ ~Acc!isWorkspaceAdmin(roles))
    BY <1>1 DEF Agrees
  <2> QED  BY <1>2, <2>1 DEF Acc!ScreenGate, Acc!Panel
<1>4. Acc!Badge(i[1]) = IF g = Gone \/ Can(g) THEN Gone ELSE Acc!minTierFor(g)
  BY <1>2 DEF Acc!Badge
<1>5. \A h \in Acc!FUTURE_FEATURE_KEYS : Acc!minTierFor(h) = Gone
  BY TierFeatures, LeastTier
<1> HIDE DEF shows, f, g, Can
<1>6. CASE i[2] \notin Acc!GatedSections
  <2>1. shows = "content"
    BY <1>3, <1>6
  <2>2. i[1] \notin Odd /\ subscription.tier # Gone => Acc!Badge(i[1]) = Gone
    BY <1>1, <1>4, <1>5, <1>6, TierFeatures DEF Agrees, g, Can
  <2> QED  BY <1>6, <2>1, <2>2, TiersAreNoPanels DEF shows
<1>7. CASE i[2] \in Acc!GatedSections
  <2>1. f \in Acc!FUTURE_FEATURE_KEYS \/ (Acc!minTierFor(f) \in Acc!Tiers /\ f # Gone)
    <3>1. \A t \in Acc!Tiers : Gone \notin Acc!CAPABILITY_MATRIX[t]
      BY SubscriptionsAssumption DEF Acc!CAPABILITY_MATRIX
    <3> QED  BY <1>7, <3>1, GatedFeatures, LeastTier DEF f
  <2>2. shows # "denied"
    BY <1>3, <2>1, TiersAreNoPanels
  <2>3. CASE g = f
    <3>1. CASE Can(f)
      BY <1>3, <1>4, <2>2, <2>3, <3>1, TiersAreNoPanels DEF shows
    <3>2. CASE ~Can(f) /\ f \in Acc!FUTURE_FEATURE_KEYS
      BY <1>3, <1>4, <1>5, <1>7, <2>2, <2>3, <3>2, TiersAreNoPanels DEF shows
    <3>3. CASE ~Can(f) /\ f \notin Acc!FUTURE_FEATURE_KEYS
      BY <1>3, <1>4, <1>7, <2>1, <2>2, <2>3, <3>3 DEF shows
    <3> QED  BY <3>1, <3>2, <3>3
  <2>4. CASE g = "data_products" /\ f = "publish_api"
    <3>1. Can(f) <=> Can(g)
      BY <1>1, <2>4, TierFeatures DEF Can
    <3>2. Acc!minTierFor(f) = Acc!minTierFor(g)
      <4>1. {t \in Acc!Tiers : "data_products" \in Acc!CAPABILITY_MATRIX[t]}
              = {t \in Acc!Tiers : "publish_api" \in Acc!CAPABILITY_MATRIX[t]}
        BY TierFeatures
      <4>2. PICK S : S = {t \in Acc!Tiers : "data_products" \in Acc!CAPABILITY_MATRIX[t]}
        OBVIOUS
      <4>3. Acc!minTierFor("data_products") = IF S = {} THEN Gone
                                                ELSE CHOOSE t \in S : \A u \in S : Acc!tierMeets(u, t)
        BY <4>2 DEF Acc!minTierFor
      <4>4. S = {t \in Acc!Tiers : "publish_api" \in Acc!CAPABILITY_MATRIX[t]}
        BY <4>1, <4>2
      <4>5. Acc!minTierFor("publish_api") = IF S = {} THEN Gone
                                              ELSE CHOOSE t \in S : \A u \in S : Acc!tierMeets(u, t)
        BY <4>4 DEF Acc!minTierFor
      <4> QED  BY <2>4, <4>3, <4>5
    <3>3. f \notin Acc!FUTURE_FEATURE_KEYS
      BY <2>4 DEF Acc!FUTURE_FEATURE_KEYS
    <3>4. CASE Can(f)
      BY <1>3, <1>4, <2>2, <3>1, <3>4, TiersAreNoPanels DEF shows
    <3>5. CASE ~Can(f)
      <4>1. g # Gone
        <5>1. "data_products" \in Acc!Adds["pro"] /\ "pro" \in Acc!Tiers
          BY DEF Acc!Adds, Acc!Tiers, Acc!TIER_ORDER
        <5> QED  BY <2>4, <5>1, SubscriptionsAssumption
      <4> QED  BY <1>3, <1>4, <1>7, <2>1, <2>2, <3>1, <3>2, <3>3, <3>5, <4>1 DEF shows
    <3> QED  BY <3>4, <3>5
  <2>5. CASE i[1] \in Odd
    BY <2>2, <2>5 DEF shows
  <2> QED  BY <1>1, <1>7, <2>3, <2>4, <2>5 DEF Agrees, f, g
<1> QED  BY <1>6, <1>7

\* What the browser and the section hold is what held at the page load, until plan or roles
\* move; and nobody is led by the menu to a screen that is for administrators only.
BadgeInv ==
    /\ subscription \in Subscriptions /\ item \in Acc!Items
    /\ browser = [phase |-> browser.phase, sub |-> browser.sub, admin |-> browser.admin]
    /\ ~stale => \/ shown = "notice"
                 \/ /\ shown = Acc!ScreenGate(item[2]) /\ browser.admin = Acc!isWorkspaceAdmin(roles)
                    /\ browser.phase = "ready" => browser.sub = subscription
    /\ linked => (item[1] \in Acc!AdminOnly => browser.admin)

LEMMA BadgeHolds == BadgeInv => Acc!BadgeTellsGate
<1> SUFFICES ASSUME BadgeInv, Acc!Inside, linked, ~stale
             PROVE  /\ shown # "denied"
                    /\ /\ item[1] \notin Odd
                       /\ browser.sub.tier # Gone \/ item[2] \in Acc!GatedSections
                       => (IF shown \in Acc!Tiers THEN shown ELSE Gone) = Acc!Badge(item[1])
  BY DEF Acc!BadgeTellsGate, Odd
<1>1. /\ subscription \in Subscriptions /\ item \in Acc!Items /\ shown = Acc!ScreenGate(item[2])
      /\ browser.sub = subscription /\ Acc!hasProductAccess(subscription)
      /\ item[1] \in Acc!AdminOnly => Acc!isWorkspaceAdmin(roles)
  BY DEF BadgeInv, Acc!Inside
<1> QED  BY <1>1, BadgeIsGate

LEMMA BadgeBegins == Acc!AccessInit => BadgeInv
<1> SUFFICES ASSUME Acc!AccessInit PROVE BadgeInv
  OBVIOUS
<1>1. <<"dashboard", "dashboard">> \in Acc!Items
  <2>1. "assets" \in Acc!Boards /\ <<"dashboard", "dashboard">> \in Acc!Menu("assets")
    BY DEF Acc!Boards, Acc!Menu, Acc!AssetMenus, Acc!At
  <2> QED  BY <2>1 DEF Acc!Items
<1>2. Acc!ScreenGate("dashboard") = "content"
  BY DEF Acc!ScreenGate, Acc!ADMIN_SCREENS, Acc!GatedSections
<1>3. item = <<"dashboard", "dashboard">> /\ shown = "content" /\ ~linked /\ subscription \in Subscriptions
  BY DEF Acc!AccessInit
<1>4. PICK m \in BOOLEAN : m = Acc!isWorkspaceAdmin(roles)
  BY DEF Acc!isWorkspaceAdmin
<1>5. browser = [phase |-> "loading", sub |-> [tier |-> Gone, status |-> Gone], admin |-> m]
  BY <1>4, Zenon DEF Acc!AccessInit
<1> QED  BY <1>1, <1>2, <1>3, <1>4, <1>5 DEF BadgeInv

\* The gate asks for plan and roles only.
LEMMA GateStands ==
    ASSUME UNCHANGED <<subscription, roles>>
    PROVE  \A s : Acc!ScreenGate(s)' = Acc!ScreenGate(s)
  BY DEF Acc!ScreenGate, Acc!canUseFeature, Acc!hasProductAccess

LEMMA LoadStep == ASSUME BadgeInv, Acc!Enter PROVE BadgeInv'
<1>1. PICK i \in Acc!Items : Acc!Load(i) /\ UNCHANGED <<subscription, roles, wiped>>
  BY DEF Acc!Enter
<1>2. /\ item' = i /\ ~linked' /\ ~stale' /\ subscription' \in Subscriptions
      /\ shown' = IF wiped THEN "notice" ELSE Acc!ScreenGate(i[2])
  BY <1>1 DEF Acc!Load, BadgeInv
<1>3. /\ browser' = [phase |-> browser'.phase, sub |-> browser'.sub, admin |-> browser'.admin]
      /\ ~wiped => browser'.phase = "loading" /\ browser'.admin = Acc!isWorkspaceAdmin(roles)
  <2>1. PICK m \in BOOLEAN : m = (~wiped /\ Acc!isWorkspaceAdmin(roles))
    OBVIOUS
  <2>2. PICK p : p = IF wiped THEN "ready" ELSE "loading"
    OBVIOUS
  <2>3. browser' = [phase |-> p, sub |-> [tier |-> Gone, status |-> Gone], admin |-> m]
    BY <1>1, <2>1, <2>2, Zenon DEF Acc!Load
  <2>4. ~wiped => m = Acc!isWorkspaceAdmin(roles) /\ p = "loading"
    BY <2>1, <2>2, Zenon DEF Acc!isWorkspaceAdmin
  <2> QED  BY <2>3, <2>4
<1> QED  BY <1>1, <1>2, <1>3, GateStands DEF BadgeInv

LEMMA FetchStep == ASSUME BadgeInv, Acc!FetchEntitlement PROVE BadgeInv'
<1>1. UNCHANGED <<subscription, roles, wiped, item, shown, linked, stale>>
  BY DEF Acc!FetchEntitlement
<1>2. /\ browser' = [phase |-> browser'.phase, sub |-> browser'.sub, admin |-> browser.admin]
      /\ browser'.phase = "ready" => browser'.sub = subscription
  <2>1. CASE browser' = [browser EXCEPT !.phase = "error"]
    BY <2>1 DEF BadgeInv
  <2>2. CASE browser' = [browser EXCEPT !.phase = "ready", !.sub = subscription]
    <3>1. PICK b : b = [browser EXCEPT !.phase = "ready"]
      OBVIOUS
    <3>2. b = [phase |-> "ready", sub |-> browser.sub, admin |-> browser.admin]
      BY <3>1 DEF BadgeInv
    <3>3. browser' = [b EXCEPT !.sub = subscription]
      BY <2>2, <3>1, Zenon
    <3> QED  BY <3>2, <3>3
  <2> QED  BY <2>1, <2>2 DEF Acc!FetchEntitlement
<1> QED  BY <1>1, <1>2, GateStands DEF BadgeInv

LEMMA NavigateStep ==
    ASSUME BadgeInv, Acc!Inside, NEW i \in Acc!Items, Acc!Navigate(i), i[1] \in Acc!AdminOnly => browser.admin
    PROVE  BadgeInv'
<1>1. /\ item' = i /\ UNCHANGED <<subscription, roles, wiped, browser, stale>>
      /\ shown' = IF i[2] = item[2] THEN shown ELSE Acc!ScreenGate(i[2])
  BY DEF Acc!Navigate
<1>2. shown # "notice"
  BY DEF Acc!Inside
<1> QED  BY <1>1, <1>2, GateStands DEF BadgeInv

LEMMA MenuStep == ASSUME BadgeInv, Acc!Select \/ Acc!OpenBoard PROVE BadgeInv'
<1>1. CASE Acc!Select
  <2>1. PICK b \in Acc!Boards : item \in Acc!Menu(b)
    BY DEF BadgeInv, Acc!Items
  <2>2. Acc!activeBoard \in Acc!Boards
    BY <2>1 DEF Acc!activeBoard
  <2>3. PICK i \in Acc!Menu(Acc!activeBoard) : Acc!Inside /\ Acc!Visible(i) /\ Acc!Navigate(i)
    BY <1>1 DEF Acc!Select
  <2>4. i \in Acc!Items
    BY <2>2, <2>3 DEF Acc!Items
  <2> QED  BY <2>3, <2>4, NavigateStep DEF Acc!Visible
<1>2. CASE Acc!OpenBoard
  <2>1. PICK b \in Acc!Boards : \E i \in Acc!Menu(b) : Acc!Inside /\ i[1] = Acc!Home(b) /\ Acc!Navigate(i)
    BY <1>2 DEF Acc!OpenBoard
  <2>2. PICK i \in Acc!Menu(b) : Acc!Inside /\ i[1] = Acc!Home(b) /\ Acc!Navigate(i)
    BY <2>1
  <2>3. i \in Acc!Items
    BY <2>1, <2>2 DEF Acc!Items
  <2>4. Acc!Home(b) \notin Acc!AdminOnly
    BY DEF Acc!Home, Acc!AdminOnly, Acc!Boards, Acc!AssetMenus, Acc!GovernMenus, Acc!OperateMenus
  <2> QED  BY <2>2, <2>3, <2>4, NavigateStep
<1> QED  BY <1>1, <1>2

LEMMA AccessMovesStep ==
    ASSUME BadgeInv, Acc!SubscriptionMoves \/ Acc!RolesMove \/ Acc!WorkspaceWiped \/ UNCHANGED Acc!accessVars
    PROVE  BadgeInv'
<1>1. CASE Acc!SubscriptionMoves
  BY <1>1 DEF Acc!SubscriptionMoves, BadgeInv
<1>2. CASE Acc!RolesMove
  BY <1>2 DEF Acc!RolesMove, BadgeInv
<1>3. CASE Acc!WorkspaceWiped
  BY <1>3, GateStands DEF Acc!WorkspaceWiped, BadgeInv
<1>4. CASE UNCHANGED Acc!accessVars
  BY <1>4, GateStands DEF Acc!accessVars, BadgeInv
<1> QED  BY <1>1, <1>2, <1>3, <1>4

\* In the part of the gates, a step of the workspace is one of that part.
LEMMA AccessFrame ==
    ASSUME [WorkspaceNext]_workspaceVars, part' = "access"
    PROVE  part = "access" /\ [Acc!AccessNext]_Acc!accessVars
<1> USE DEF Around1, Around2, Around3, Around4
<1>1. CASE AccessRuns
  BY <1>1 DEF AccessRuns
<1>2. CASE UNCHANGED workspaceVars
  BY <1>2 DEF workspaceVars, accessVars, Acc!accessVars
<1>3. ASSUME \/ CatalogRuns \/ PublishingRuns \/ SourcesRun \/ AdmissionRuns \/ GatewayRuns
             \/ ReadsRun \/ ScreensRun \/ ApprovalsRun \/ FirstEntryRuns
      PROVE  FALSE
  BY <1>3 DEF CatalogRuns, PublishingRuns, SourcesRun, AdmissionRuns, GatewayRuns,
              ReadsRun, ScreensRun, ApprovalsRun, FirstEntryRuns
<1> QED  BY <1>1, <1>2, <1>3 DEF WorkspaceNext

\* The invariant of the gates: what the browser and the section hold was true at the page load
\* and is so until plan or roles move (entitlement/gate.tsx, entitlement/screen-gate.tsx).
THEOREM BadgeInductive == WorkspaceSpec => [](part = "access" => BadgeInv)
<1>1. WorkspaceInit => (part = "access" => BadgeInv)
  BY BadgeBegins DEF WorkspaceInit, AccessBegins
<1>2. (part = "access" => BadgeInv) /\ [WorkspaceNext]_workspaceVars => (part = "access" => BadgeInv)'
  <2> SUFFICES ASSUME BadgeInv, [Acc!AccessNext]_Acc!accessVars PROVE BadgeInv'
    BY AccessFrame
  <2> QED  BY LoadStep, FetchStep, MenuStep, AccessMovesStep DEF Acc!AccessNext
<1> QED  BY <1>1, <1>2, PTL DEF WorkspaceSpec

\* The menu announces what a screen will show, for every plan and every set of roles
\* (entitlement/screen-features.ts:6, ui/sidebar.tsx).
THEOREM BadgeTheorem == WorkspaceSpec => []BadgeTellsGate
<1>1. WorkspaceSpec => [](part = "access" => BadgeInv)
  BY BadgeInductive
<1>2. BadgeInv => Acc!BadgeTellsGate
  BY BadgeHolds
<1> QED  BY <1>1, <1>2, PTL DEF BadgeTellsGate

\* What the browser and the section hold.
ShellTyped ==
    /\ browser.phase \in {"loading", "ready", "error"} /\ browser.admin \in BOOLEAN
    /\ shown \in Acc!Tiers \cup {"content", "denied", "soon", "notice"}

\* A gate shows the content, a denial, or a panel, which names a tier or says "soon".
LEMMA GateShows == \A s : Acc!ScreenGate(s) \in Acc!Tiers \cup {"content", "denied", "soon"}
<1> SUFFICES ASSUME NEW s PROVE Acc!ScreenGate(s) \in Acc!Tiers \cup {"content", "denied", "soon"}
  OBVIOUS
<1>1. CASE s \in Acc!GatedSections
  <2>1. PICK f : f = Acc!Feature(s)
    OBVIOUS
  <2>2. f \in Acc!FUTURE_FEATURE_KEYS \/ \E t \in Acc!Tiers : f \in Acc!CAPABILITY_MATRIX[t]
    BY <1>1, <2>1, GatedFeatures
  <2>3. Acc!Panel(f) \in Acc!Tiers \cup {"soon"}
    BY <2>2, LeastTier DEF Acc!Panel
  <2> QED  BY <2>1, <2>3 DEF Acc!ScreenGate
<1>2. CASE s \notin Acc!GatedSections
  BY <1>2 DEF Acc!ScreenGate
<1> QED  BY <1>1, <1>2

LEMMA ShellBegins == Acc!AccessInit => ShellTyped
<1> SUFFICES ASSUME Acc!AccessInit PROVE ShellTyped
  OBVIOUS
<1>1. PICK m \in BOOLEAN : m = Acc!isWorkspaceAdmin(roles)
  BY DEF Acc!isWorkspaceAdmin
<1>2. browser = [phase |-> "loading", sub |-> [tier |-> Gone, status |-> Gone], admin |-> m]
  BY <1>1, Zenon DEF Acc!AccessInit
<1>3. shown = "content"
  BY DEF Acc!AccessInit
<1> QED  BY <1>2, <1>3 DEF ShellTyped

LEMMA ShellEnter == ASSUME Acc!Enter PROVE ShellTyped'
<1>1. PICK i \in Acc!Items : Acc!Load(i)
  BY DEF Acc!Enter
<1>2. PICK m \in BOOLEAN : m = (~wiped /\ Acc!isWorkspaceAdmin(roles))
  OBVIOUS
<1>3. PICK p \in {"ready", "loading"} : p = IF wiped THEN "ready" ELSE "loading"
  OBVIOUS
<1>4. browser' = [phase |-> p, sub |-> [tier |-> Gone, status |-> Gone], admin |-> m]
  BY <1>1, <1>2, <1>3, Zenon DEF Acc!Load
<1>5. shown' \in Acc!Tiers \cup {"content", "denied", "soon", "notice"}
  BY <1>1, GateShows DEF Acc!Load
<1> QED  BY <1>4, <1>5 DEF ShellTyped, Acc!Tiers

LEMMA ShellFetch == ASSUME BadgeInv, ShellTyped, Acc!FetchEntitlement PROVE ShellTyped'
<1>1. UNCHANGED shown
  BY DEF Acc!FetchEntitlement
<1>2. browser'.phase \in {"ready", "error"} /\ browser'.admin = browser.admin
  <2>1. CASE browser' = [browser EXCEPT !.phase = "error"]
    BY <2>1 DEF BadgeInv
  <2>2. CASE browser' = [browser EXCEPT !.phase = "ready", !.sub = subscription]
    <3>1. PICK b : b = [browser EXCEPT !.phase = "ready"]
      OBVIOUS
    <3>2. b = [phase |-> "ready", sub |-> browser.sub, admin |-> browser.admin]
      BY <3>1 DEF BadgeInv
    <3>3. browser' = [b EXCEPT !.sub = subscription]
      BY <2>2, <3>1, Zenon
    <3> QED  BY <3>2, <3>3
  <2> QED  BY <2>1, <2>2 DEF Acc!FetchEntitlement
<1> QED  BY <1>1, <1>2 DEF ShellTyped, Acc!Tiers

LEMMA ShellStep ==
    ASSUME BadgeInv, ShellTyped, [Acc!AccessNext]_Acc!accessVars
    PROVE  ShellTyped'
<1>1. CASE Acc!Select \/ Acc!OpenBoard
  <2>1. PICK i : Acc!Navigate(i)
    BY <1>1 DEF Acc!Select, Acc!OpenBoard
  <2>2. UNCHANGED browser /\ shown' = IF i[2] = item[2] THEN shown ELSE Acc!ScreenGate(i[2])
    BY <2>1 DEF Acc!Navigate
  <2> QED  BY <2>2, GateShows DEF ShellTyped, Acc!Tiers
<1>2. CASE \/ Acc!SubscriptionMoves \/ Acc!RolesMove \/ Acc!WorkspaceWiped
           \/ UNCHANGED Acc!accessVars
  <2>1. UNCHANGED <<browser, shown>>
    BY <1>2 DEF Acc!SubscriptionMoves, Acc!RolesMove, Acc!WorkspaceWiped, Acc!accessVars
  <2> QED  BY <2>1 DEF ShellTyped, Acc!Tiers
<1> QED  BY <1>1, <1>2, ShellEnter, ShellFetch DEF Acc!AccessNext

\* The types of the shell: the gates show nothing else than what the panels are for.
THEOREM AccessTypes == WorkspaceSpec => [](part = "access" => Acc!AccessTypeOK)
<1> DEFINE I == part = "access" => BadgeInv
           J == part = "access" => ShellTyped
<1>1. WorkspaceInit => J
  BY ShellBegins DEF WorkspaceInit, AccessBegins
<1>2. I /\ J /\ [WorkspaceNext]_workspaceVars => J'
  <2> SUFFICES ASSUME BadgeInv, ShellTyped, [Acc!AccessNext]_Acc!accessVars PROVE ShellTyped'
    BY AccessFrame
  <2> QED  BY ShellStep
<1>3. I /\ J => (part = "access" => Acc!AccessTypeOK)
  BY DEF BadgeInv, ShellTyped, Acc!AccessTypeOK
<1> QED  BY <1>1, <1>2, <1>3, BadgeInductive, PTL DEF WorkspaceSpec

-----------------------------------------------------------------------------
(* The pages and the server actions: what a page offers is accepted.       *)

\* The plan that a page was rendered with lets its section open; role, plan and row are those of
\* the page until something has moved; and a click that runs was offered by the page.
OfferInv ==
    /\ page \in Scr!Pages /\ plan \in PageSubscriptions
    /\ view = [row |-> view.row, admin |-> view.admin, plan |-> view.plan]
    /\ view.plan \in PageSubscriptions /\ Scr!hasProductAccess(view.plan)
    /\ Scr!Section[page] \in Scr!GatedSections =>
           Scr!canUseFeature(view.plan, Scr!Feature(Scr!Section[page]))
    /\ Scr!Section[page] \in Scr!ADMIN_SCREENS => view.admin
    /\ ~moved => plan = view.plan /\ admin = view.admin
    /\ ~moved /\ ~unseen => row = view.row
    /\ result = "running" => click \in Scr!Page[page] /\ Scr!Offers(page, view, click)
    /\ Scr!OfferedIsAccepted

\* The checks of an action are those of its group.
LEMMA ActionsAre ==
    /\ \A n \in DOMAIN Scr!CatalogActions : Scr!ActionOf(n) = Scr!CatalogActions[n]
    /\ \A n \in DOMAIN Scr!StandardActions : Scr!ActionOf(n) = Scr!StandardActions[n]
    /\ \A n \in DOMAIN Scr!RequestActions : Scr!ActionOf(n) = Scr!RequestActions[n]
    /\ \A n \in DOMAIN Scr!RegisterActions : Scr!ActionOf(n) = Scr!RegisterActions[n]
    /\ \A n \in DOMAIN Scr!SyncActions : Scr!ActionOf(n) = Scr!SyncActions[n]
    /\ \A n \in DOMAIN Scr!UnbindActions : Scr!ActionOf(n) = Scr!UnbindActions[n]
    /\ \A n \in DOMAIN Scr!RuleActions : Scr!ActionOf(n) = Scr!RuleActions[n]
    /\ \A n \in DOMAIN Scr!RunActions : Scr!ActionOf(n) = Scr!RunActions[n]
    /\ \A n \in DOMAIN Scr!PolicyActions : Scr!ActionOf(n) = Scr!PolicyActions[n]
    /\ \A n \in DOMAIN Scr!ServiceActions : Scr!ActionOf(n) = Scr!ServiceActions[n]
    /\ \A n \in DOMAIN Scr!PublishActions : Scr!ActionOf(n) = Scr!PublishActions[n]
    /\ \A n \in DOMAIN Scr!KeyActions : Scr!ActionOf(n) = Scr!KeyActions[n]
    /\ \A n \in DOMAIN Scr!TermActions : Scr!ActionOf(n) = Scr!TermActions[n]
    /\ \A n \in DOMAIN Scr!TagActions : Scr!ActionOf(n) = Scr!TagActions[n]
    /\ \A n \in DOMAIN Scr!LinkActions : Scr!ActionOf(n) = Scr!LinkActions[n]
<1>1. /\ DOMAIN Scr!CatalogActions = {"setGoldenRecord", "attachTag", "setDatasetClassification"}
      /\ DOMAIN Scr!StandardActions = {"attachStandard"}
      /\ DOMAIN Scr!RequestActions = {"submitAccessRequest"}
      /\ DOMAIN Scr!RegisterActions = {"registerDataSource", "registerPremium"}
      /\ DOMAIN Scr!SyncActions = {"syncDataSource", "syncPremium"}
      /\ DOMAIN Scr!UnbindActions = {"unbindDataSource"}
      /\ DOMAIN Scr!RuleActions = {"createQualityRule", "setQualityRuleEnabled", "deleteQualityRule"}
      /\ DOMAIN Scr!RunActions = {"runWorkspaceChecks"}
  BY DEF Scr!CatalogActions, Scr!StandardActions, Scr!RequestActions, Scr!RegisterActions,
         Scr!SyncActions, Scr!UnbindActions, Scr!RuleActions, Scr!RunActions
<1>2. /\ DOMAIN Scr!PolicyActions = {"setMaxExternalLevel", "createMaskingRule", "deleteMaskingRule"}
      /\ DOMAIN Scr!ServiceActions = {"createDataService", "updateDataService", "unpublishDataService",
                                      "deleteDataService"}
      /\ DOMAIN Scr!PublishActions = {"publishDataService"}
      /\ DOMAIN Scr!KeyActions = {"createApiKey", "revokeApiKey"}
      /\ DOMAIN Scr!TermActions = {"createGlossaryTerm"}
      /\ DOMAIN Scr!TagActions = {"createTag", "deleteTag"}
      /\ DOMAIN Scr!LinkActions = {"addLineageEdge"}
  BY DEF Scr!PolicyActions, Scr!ServiceActions, Scr!PublishActions, Scr!KeyActions, Scr!TermActions,
         Scr!TagActions, Scr!LinkActions
<1> QED  BY <1>1, <1>2, SMTT(30) DEF Scr!ActionOf

\* What a plan with one feature has besides.
LEMMA PlanFeatures ==
    \A t \in Scr!Tiers :
       /\ "edit_metadata" \in Scr!CAPABILITY_MATRIX[t]
       /\ "policies" \in Scr!CAPABILITY_MATRIX[t] => "classification" \in Scr!CAPABILITY_MATRIX[t]
<1>1. Scr!Tiers = {"free", "starter", "pro", "business", "enterprise"}
  BY DEF Scr!Tiers, Scr!TIER_ORDER
<1>2. \A t \in Scr!Tiers : Scr!CAPABILITY_MATRIX[t]
                              = UNION {Scr!Adds[u] : u \in {v \in Scr!Tiers : Scr!tierMeets(t, v)}}
  BY DEF Scr!CAPABILITY_MATRIX
<1>3. /\ Scr!tierRank("free") = 1 /\ Scr!tierRank("starter") = 2 /\ Scr!tierRank("pro") = 3
      /\ Scr!tierRank("business") = 4 /\ Scr!tierRank("enterprise") = 5
  BY DEF Scr!tierRank, Scr!TIER_ORDER
<1>4. \A t \in Scr!Tiers : /\ Scr!tierMeets(t, "free")
                           /\ Scr!tierMeets(t, "pro") => Scr!tierMeets(t, "starter")
  BY <1>1, <1>3 DEF Scr!tierMeets
<1>5. /\ "edit_metadata" \in Scr!Adds["free"] /\ "classification" \in Scr!Adds["starter"]
      /\ \A u \in Scr!Tiers : "policies" \in Scr!Adds[u] => u = "pro"
  BY <1>1 DEF Scr!Adds
<1> QED  BY <1>1, <1>2, <1>4, <1>5

\* At a moment at which nothing has moved, what the page offers is accepted but for the dead ends.
LEMMA OfferIsGood ==
    ASSUME OfferInv, result = "running", ~moved, ~unseen, ~Scr!DeadEnd
    PROVE  Scr!Accepts(click.name)
<1> DEFINE Can(h) == Scr!canUseFeature(plan, h)
           check == Scr!ActionOf(click.name)
           Good == /\ check.admin => admin
                   /\ check.feature = Fresh \/ Can(check.feature)
                   /\ row \in check.takes
<1>1. /\ page \in Scr!Pages /\ click \in Scr!Page[page] /\ row \in click.shown
      /\ click.admin => admin
      /\ click.name = "registerPremium" => Can("sources_premium")
      /\ Scr!Section[page] \in Scr!GatedSections => Can(Scr!Feature(Scr!Section[page]))
      /\ Scr!Section[page] \in Scr!ADMIN_SCREENS => admin
  BY SubscriptionsAssumption DEF OfferInv, Scr!Offers
<1>2. Can("edit_metadata") /\ (Can("policies") => Can("classification"))
  <2>1. plan.tier \in Scr!Tiers
    BY <1>1, SubscriptionsAssumption DEF OfferInv, Scr!DeadEnd, Scr!canUseFeature
  <2>2. Scr!hasProductAccess(plan) /\ plan.tier # Fresh
    BY <1>1 DEF OfferInv, Scr!DeadEnd, Scr!canUseFeature
  <2> QED  BY <2>1, <2>2, PlanFeatures DEF Scr!canUseFeature
<1>3. /\ page = "asset" => click.name \in {"submitAccessRequest", "attachTag"} \/ Can(check.feature)
      /\ page = "asset" /\ click.name = "submitAccessRequest" => row # "platform"
      /\ page = "sources" /\ click.name = "syncPremium" => Can(check.feature)
      /\ page = "sources" /\ click.name = "syncDataSource" => row \notin {"unsupported", "no_config"}
      /\ page = "quality" /\ click.name = "runWorkspaceChecks" => row = "enabled"
  BY DEF Scr!DeadEnd, Scr!LacksFeature
<1> HIDE DEF Can, check
<1> USE DEF Scr!Section, Scr!Pages, Scr!Page, Scr!Feature, Scr!GatedSections, Scr!ADMIN_SCREENS, Scr!Control,
            Scr!OpenControl, Scr!Action
<1>4. ASSUME page = "asset" PROVE Good
  BY <1>1, <1>2, <1>3, <1>4, ActionsAre
     DEF check, Scr!AssetPage, Scr!SidePanel, Scr!RequestForm, Scr!AssetRows, Scr!CatalogActions,
         Scr!StandardActions, Scr!RequestActions
<1>5. ASSUME page = "labeling" PROVE Good
  BY <1>1, <1>2, <1>5, ActionsAre DEF check, Scr!LabelingPage, Scr!CatalogActions
<1>6. ASSUME page = "masterdata" PROVE Good
  BY <1>1, <1>6, ActionsAre DEF check, Scr!MasterdataPage, Scr!CatalogActions
<1>7. ASSUME page = "register" PROVE Good
  BY <1>1, <1>7, ActionsAre DEF check, Scr!RegisterPage, Scr!RegisterActions
<1>8. ASSUME page = "sources" PROVE Good
  BY <1>1, <1>3, <1>8, ActionsAre
     DEF check, Scr!SourcesPage, Scr!SourceKinds, Scr!SyncActions, Scr!UnbindActions
<1>9. ASSUME page = "quality" PROVE Good
  BY <1>1, <1>3, <1>9, ActionsAre DEF check, Scr!QualityPage, Scr!RuleRows, Scr!RuleActions, Scr!RunActions
<1>10. ASSUME page = "security" PROVE Good
  BY <1>1, <1>10, ActionsAre DEF check, Scr!SecurityPage, Scr!PolicyActions
<1>11. ASSUME page = "service" PROVE Good
  BY <1>1, <1>11, ActionsAre DEF check, Scr!ServicePage, Scr!ServiceRows, Scr!PublishActions
<1>12. ASSUME page = "publish" PROVE Good
  BY <1>1, <1>12, ActionsAre
     DEF check, Scr!PublishPage, Scr!ServiceRows, Scr!ServiceActions, Scr!PublishActions
<1>13. ASSUME page = "apikeys" PROVE Good
  BY <1>1, <1>13, ActionsAre DEF check, Scr!ApikeysPage, Scr!KeyRows, Scr!KeyActions
<1>14. ASSUME page = "glossary" PROVE Good
  BY <1>1, <1>14, ActionsAre DEF check, Scr!GlossaryPage, Scr!TermActions
<1>15. ASSUME page = "tags" PROVE Good
  BY <1>1, <1>2, <1>15, ActionsAre DEF check, Scr!TagsPage, Scr!TagActions
<1>16. ASSUME page = "lineage" PROVE Good
  BY <1>1, <1>16, ActionsAre DEF check, Scr!LineagePage, Scr!LinkActions
<1>17. page \in {"asset", "labeling", "masterdata", "register", "sources", "quality", "security", "service",
                 "publish", "apikeys", "glossary", "tags", "lineage"}
  BY <1>1
<1>18. Good
  BY <1>4, <1>5, <1>6, <1>7, <1>8, <1>9, <1>10, <1>11, <1>12, <1>13, <1>14, <1>15, <1>16, <1>17
<1> QED  BY <1>18 DEF Scr!Accepts, Can, check

LEMMA OfferBegins == Scr!ScreensInit => OfferInv
<1> SUFFICES ASSUME Scr!ScreensInit PROVE OfferInv
  OBVIOUS
<1>1. /\ page \in Scr!Pages /\ plan \in PageSubscriptions /\ Scr!hasProductAccess(plan) /\ Scr!Opens(page)
      /\ view = [row |-> row, admin |-> admin, plan |-> plan] /\ result = "none"
  BY DEF Scr!ScreensInit
<1> QED  BY <1>1 DEF OfferInv, Scr!Opens, Scr!OfferedIsAccepted

\* Only the plan, the row, the page and the click decide of a dead end.
LEMMA DeadEndStands ==
    ASSUME UNCHANGED <<plan, row, page, click>>
    PROVE  Scr!DeadEnd' = Scr!DeadEnd
  BY DEF Scr!DeadEnd, Scr!LacksFeature, Scr!canUseFeature, Scr!hasProductAccess

LEMMA ClickStep == ASSUME OfferInv, Scr!Click PROVE OfferInv'
<1>1. PICK c \in Scr!Page[page] :
         /\ Scr!Offers(page, view, c) /\ click' = c /\ result' = "running"
         /\ UNCHANGED <<plan, admin, page, row, view, moved, unseen>>
  BY DEF Scr!Click
<1> QED  BY <1>1 DEF OfferInv, Scr!OfferedIsAccepted, Scr!Offers, Scr!canUseFeature

LEMMA AcceptStep == ASSUME OfferInv, Scr!Accept PROVE OfferInv'
<1>1. /\ result = "running" /\ Scr!Accepts(click.name) /\ result' = "ok"
      /\ UNCHANGED <<plan, admin, page, click>>
  BY DEF Scr!Accept
<1>2. CASE view' = [row |-> row', admin |-> admin, plan |-> view.plan] /\ moved' = (view.plan # plan)
  <2>1. Scr!Section[page] \in Scr!ADMIN_SCREENS => admin
    <3> SUFFICES ASSUME Scr!Section[page] \in Scr!ADMIN_SCREENS PROVE admin
      OBVIOUS
    <3>1. page = "apikeys"
      BY DEF OfferInv, Scr!Section, Scr!ADMIN_SCREENS, Scr!Pages, Scr!Page
    <3>2. Scr!ActionOf(click.name).admin
      BY <1>1, <3>1, ActionsAre
         DEF OfferInv, Scr!Page, Scr!ApikeysPage, Scr!OpenControl, Scr!KeyActions, Scr!Action
    <3> QED  BY <1>1, <3>2 DEF Scr!Accepts
  <2>2. ~moved' => view.plan = plan
    BY <1>2
  <2>3. /\ view'.row = row' /\ view'.admin = admin /\ view'.plan = view.plan
        /\ view' = [row |-> view'.row, admin |-> view'.admin, plan |-> view'.plan]
    BY <1>2
  <2> QED  BY <1>1, <2>1, <2>2, <2>3 DEF OfferInv, Scr!OfferedIsAccepted
<1>3. CASE unseen' = TRUE /\ UNCHANGED <<view, moved>>
  BY <1>1, <1>3 DEF OfferInv, Scr!OfferedIsAccepted
<1>4. CASE row' = row /\ UNCHANGED <<view, moved, unseen>>
  BY <1>1, <1>4 DEF OfferInv, Scr!OfferedIsAccepted
<1> QED  BY <1>2, <1>3, <1>4 DEF Scr!Accept

LEMMA AnswerStep == ASSUME OfferInv, Scr!Block \/ Scr!Refuse PROVE OfferInv'
<1>1. /\ result = "running" /\ UNCHANGED <<plan, admin, page, row, view, click, moved, unseen>>
      /\ result' = "blocked" \/ (result' = "refused" /\ ~Scr!Accepts(click.name))
  BY DEF Scr!Block, Scr!Refuse
<1>2. result' = "refused" => moved \/ unseen \/ Scr!DeadEnd
  BY <1>1, OfferIsGood
<1> QED  BY <1>1, <1>2, DeadEndStands DEF OfferInv, Scr!OfferedIsAccepted

LEMMA ScreensMoveStep ==
    ASSUME OfferInv, Scr!RowMoves \/ Scr!PlanMoves \/ Scr!RoleMoves \/ UNCHANGED Scr!screenVars
    PROVE  OfferInv'
<1>1. CASE Scr!RowMoves \/ Scr!PlanMoves \/ Scr!RoleMoves
  <2>1. moved' = TRUE /\ plan' \in PageSubscriptions /\ UNCHANGED <<page, view, click, result, unseen>>
    BY <1>1 DEF OfferInv, Scr!RowMoves, Scr!PlanMoves, Scr!RoleMoves
  <2> QED  BY <2>1 DEF OfferInv, Scr!OfferedIsAccepted, Scr!Offers, Scr!canUseFeature
<1>2. CASE UNCHANGED Scr!screenVars
  BY <1>2, DeadEndStands DEF OfferInv, Scr!OfferedIsAccepted, Scr!Offers, Scr!canUseFeature, Scr!screenVars
<1> QED  BY <1>1, <1>2

\* In the part of the pages, a step of the workspace is one of that part.
LEMMA ScreensFrame ==
    ASSUME [WorkspaceNext]_workspaceVars, part' = "screens"
    PROVE  part = "screens" /\ [Scr!ScreensNext]_Scr!screenVars
<1> USE DEF Around1, Around2, Around3, Around4
<1>1. CASE ScreensRun
  BY <1>1 DEF ScreensRun
<1>2. CASE UNCHANGED workspaceVars
  BY <1>2 DEF workspaceVars, screensVars, Scr!screenVars
<1>3. ASSUME \/ CatalogRuns \/ PublishingRuns \/ SourcesRun \/ AdmissionRuns \/ GatewayRuns
             \/ ReadsRun \/ AccessRuns \/ ApprovalsRun \/ FirstEntryRuns
      PROVE  FALSE
  BY <1>3 DEF CatalogRuns, PublishingRuns, SourcesRun, AdmissionRuns, GatewayRuns,
              ReadsRun, AccessRuns, ApprovalsRun, FirstEntryRuns
<1> QED  BY <1>1, <1>2, <1>3 DEF WorkspaceNext

\* The invariant of the pages: what a page offers is by the plan, role and row of its rendering,
\* and those stand until something has moved (the pages' role and plan flags, features.tsx).
THEOREM OfferInductive == WorkspaceSpec => [](part = "screens" => OfferInv)
<1>1. WorkspaceInit => (part = "screens" => OfferInv)
  BY OfferBegins DEF WorkspaceInit, ScreensBegin
<1>2. (part = "screens" => OfferInv) /\ [WorkspaceNext]_workspaceVars => (part = "screens" => OfferInv)'
  <2> SUFFICES ASSUME OfferInv, [Scr!ScreensNext]_Scr!screenVars PROVE OfferInv'
    BY ScreensFrame
  <2> QED  BY ClickStep, AcceptStep, AnswerStep, ScreensMoveStep DEF Scr!ScreensNext
<1> QED  BY <1>1, <1>2, PTL DEF WorkspaceSpec

\* A click is refused only where something has moved or at a dead end, whatever plans the
\* resolver may answer (the server actions and the pages that call them).
THEOREM OfferTheorem == WorkspaceSpec => []OfferedIsAccepted
<1>1. WorkspaceSpec => [](part = "screens" => OfferInv)
  BY OfferInductive
<1>2. OfferInv => Scr!OfferedIsAccepted
  BY DEF OfferInv
<1> QED  BY <1>1, <1>2, PTL DEF OfferedIsAccepted

\* The rows of a page are of whole kinds, and an action keeps a row within its kind.
LEMMA KindsAreApart == \A K, L \in Scr!RowKinds : K \cap L # {} => K = L
<1> DEFINE Letter(x) == IF x \in Scr!Row THEN 1 ELSE IF x \in Scr!AssetRows THEN 2
                        ELSE IF x \in Scr!Caps THEN 3 ELSE IF x \in Scr!AssetMarks THEN 4
                        ELSE IF x \in Scr!SourceKinds THEN 5 ELSE IF x \in Scr!RuleRows THEN 6
                        ELSE IF x \in Scr!ServiceRows THEN 7 ELSE 8
<1>1. /\ \A x \in Scr!Row : Letter(x) = 1
      /\ \A x \in Scr!AssetRows : Letter(x) = 2
      /\ \A x \in Scr!Caps : Letter(x) = 3
  BY DEF Scr!Row, Scr!AssetRows, Scr!Caps
<1>3. \A x \in Scr!AssetMarks : Letter(x) = 4
  BY DEF Scr!Row, Scr!AssetRows, Scr!Caps, Scr!AssetMarks
<1>2. /\ \A x \in Scr!SourceKinds : Letter(x) = 5
      /\ \A x \in Scr!RuleRows : Letter(x) = 6
      /\ \A x \in Scr!ServiceRows : Letter(x) = 7
      /\ \A x \in Scr!KeyRows : Letter(x) = 8
  BY DEF Scr!Row, Scr!AssetRows, Scr!Caps, Scr!AssetMarks, Scr!SourceKinds, Scr!RuleRows,
         Scr!ServiceRows, Scr!KeyRows
<1> HIDE DEF Letter
<1> QED  BY <1>1, <1>2, <1>3 DEF Scr!RowKinds

LEMMA ShownAreRows ==
    ASSUME NEW p \in Scr!Pages, NEW c \in Scr!Page[p] PROVE c.shown \subseteq (UNION Scr!RowKinds) \cup {Gone}
<1> DEFINE AllRows == Scr!Row \cup Scr!AssetRows \cup Scr!Caps \cup Scr!AssetMarks \cup Scr!SourceKinds
                   \cup Scr!RuleRows \cup Scr!ServiceRows \cup Scr!KeyRows \cup {Gone}
<1>1. AllRows \subseteq (UNION Scr!RowKinds) \cup {Gone}
  BY DEF Scr!RowKinds
<1> USE DEF Scr!Pages, Scr!Page, Scr!Control, Scr!OpenControl
<1>2. ASSUME p = "asset" PROVE c.shown \subseteq AllRows
  BY <1>2 DEF Scr!AssetPage, Scr!SidePanel, Scr!RequestForm, Scr!AssetRows
<1>3. ASSUME p \in {"labeling", "masterdata", "register"} PROVE c.shown \subseteq AllRows
  BY <1>3 DEF Scr!LabelingPage, Scr!MasterdataPage, Scr!RegisterPage, Scr!AssetMarks, Scr!Caps
<1>4. ASSUME p = "sources" PROVE c.shown \subseteq AllRows
  BY <1>4 DEF Scr!SourcesPage, Scr!SourceKinds
<1>5. ASSUME p = "quality" PROVE c.shown \subseteq AllRows
  BY <1>5 DEF Scr!QualityPage
<1>6. ASSUME p = "security" PROVE c.shown \subseteq AllRows
  BY <1>6 DEF Scr!SecurityPage, Scr!AnyRow, Scr!Row
<1>7. ASSUME p \in {"service", "publish"} PROVE c.shown \subseteq AllRows
  BY <1>7 DEF Scr!ServicePage, Scr!PublishPage, Scr!ServiceRows
<1>8. ASSUME p = "apikeys" PROVE c.shown \subseteq AllRows
  BY <1>8 DEF Scr!ApikeysPage, Scr!KeyRows
<1>9. ASSUME p \in {"glossary", "tags", "lineage"} PROVE c.shown \subseteq AllRows
  BY <1>9 DEF Scr!GlossaryPage, Scr!TagsPage, Scr!LineagePage, Scr!AnyRow, Scr!Row
<1> QED  BY <1>1, <1>2, <1>3, <1>4, <1>5, <1>6, <1>7, <1>8, <1>9

LEMMA KindsAreWhole ==
    ASSUME NEW p \in Scr!Pages
    PROVE  /\ Scr!Statuses(p) \subseteq (UNION Scr!RowKinds) \cup {Gone}
           /\ \A K \in Scr!RowKinds : K \cap Scr!Statuses(p) # {} => K \subseteq Scr!Statuses(p)
<1> DEFINE rows == UNION {c.shown : c \in Scr!Page[p]}
<1>1. rows \subseteq (UNION Scr!RowKinds) \cup {Gone}
  BY ShownAreRows
<1>2. Scr!Statuses(p) = rows \cup UNION {kind \in Scr!RowKinds : kind \cap rows # {}}
  BY DEF Scr!Statuses
<1> HIDE DEF rows
<1>3. ASSUME NEW K \in Scr!RowKinds, NEW x \in K, x \in Scr!Statuses(p) PROVE K \subseteq Scr!Statuses(p)
  <2>1. CASE x \in rows
    BY <1>2, <1>3, <2>1
  <2>2. CASE x \notin rows
    <3>1. PICK L \in Scr!RowKinds : x \in L /\ L \cap rows # {}
      BY <1>2, <1>3, <2>2
    <3>2. L = K
      BY <1>3, <3>1, KindsAreApart
    <3> QED  BY <1>2, <3>1, <3>2
  <2> QED  BY <2>1, <2>2
<1> QED  BY <1>1, <1>2, <1>3

\* What an action makes of a row that it takes, and what the actions of others make of any.
SameKind(x, y) == y = x \/ y = Gone \/ \E K \in Scr!RowKinds : x \in K /\ y \in K

LEMMA AfterIsSameKind ==
    ASSUME NEW name, NEW x, x \in Scr!ActionOf(name).takes
    PROVE  SameKind(x, Scr!After(name, x))
<1>1. Scr!RuleRows \in Scr!RowKinds /\ Scr!ServiceRows \in Scr!RowKinds /\ Scr!KeyRows \in Scr!RowKinds
      /\ Scr!AssetMarks \in Scr!RowKinds
  BY DEF Scr!RowKinds
<1>2. CASE name \in {"publishDataService", "unpublishDataService"}
  <2>1. x \in Scr!ServiceRows
    BY <1>2, ActionsAre DEF Scr!ServiceActions, Scr!PublishActions, Scr!Action
  <2>2. Scr!After(name, x) \in Scr!ServiceRows
    BY <1>2 DEF Scr!After, Scr!ServiceRows
  <2> QED  BY <1>1, <2>1, <2>2 DEF SameKind
<1>3. CASE name = "setQualityRuleEnabled"
  <2>1. x \in Scr!RuleRows
    BY <1>3, ActionsAre DEF Scr!RuleActions, Scr!Action
  <2>2. Scr!After(name, x) \in Scr!RuleRows
    BY <1>3 DEF Scr!After, Scr!RuleRows
  <2> QED  BY <1>1, <2>1, <2>2 DEF SameKind
<1>4. CASE name = "revokeApiKey"
  <2>1. x \in Scr!KeyRows
    BY <1>4, ActionsAre DEF Scr!KeyActions, Scr!Action
  <2>2. Scr!After(name, x) \in Scr!KeyRows
    BY <1>4 DEF Scr!After, Scr!KeyRows
  <2> QED  BY <1>1, <2>1, <2>2 DEF SameKind
<1>5. CASE name = "setGoldenRecord"
  <2>1. x \in {"own", "golden", "plain"}
    BY <1>5, ActionsAre DEF Scr!CatalogActions, Scr!Action
  <2>2. Scr!After(name, x) = IF x = "own" THEN x ELSE "plain"
    BY <1>5 DEF Scr!After
  <2> QED  BY <1>1, <2>1, <2>2 DEF SameKind, Scr!AssetMarks
<1>6. CASE name \notin {"publishDataService", "unpublishDataService", "setQualityRuleEnabled", "revokeApiKey",
                        "setGoldenRecord"}
  BY <1>6 DEF Scr!After, SameKind
<1> QED  BY <1>2, <1>3, <1>4, <1>5, <1>6

LEMMA BecomesIsSameKind ==
    ASSUME NEW x \in (UNION Scr!RowKinds) \cup {Gone}, NEW y \in Scr!Becomes(x)
    PROVE  SameKind(x, y)
<1>1. {Scr!RuleRows, Scr!ServiceRows, Scr!KeyRows, Scr!AssetMarks, Scr!Caps} \subseteq Scr!RowKinds
  BY DEF Scr!RowKinds
<1>2. x # Gone
  <2> SUFFICES ASSUME x = Gone PROVE Scr!Becomes(x) = {}
    OBVIOUS
  <2>1. x \notin Scr!ServiceRows \cup Scr!KeyRows \cup Scr!RuleRows \cup Scr!AssetMarks \cup Scr!Caps
                 \cup Scr!SourceKinds
    BY GoneIsNoRow DEF Scr!RowKinds
  <2> QED  BY <2>1 DEF Scr!Becomes, Scr!ServiceRows, Scr!KeyRows, Scr!RuleRows, Scr!AssetMarks, Scr!Caps
<1>3. CASE x \in Scr!ServiceRows
  <2>1. y = Gone \/ y \in Scr!ServiceRows
    BY <1>3 DEF Scr!Becomes, Scr!ServiceRows
  <2> QED  BY <1>1, <1>3, <2>1 DEF SameKind
<1>4. CASE x \in Scr!RuleRows
  <2>1. y = Gone \/ y \in Scr!RuleRows
    BY <1>4 DEF Scr!Becomes, Scr!RuleRows
  <2> QED  BY <1>1, <1>4, <2>1 DEF SameKind
<1>5. CASE x \in Scr!KeyRows
  <2>1. y \in Scr!KeyRows
    BY <1>5 DEF Scr!Becomes, Scr!KeyRows, Scr!SourceKinds
  <2> QED  BY <1>1, <1>5, <2>1 DEF SameKind
<1>6. CASE x \in Scr!AssetMarks
  <2>1. y \in Scr!AssetMarks
    BY <1>6 DEF Scr!Becomes, Scr!AssetMarks, Scr!SourceKinds
  <2> QED  BY <1>1, <1>6, <2>1 DEF SameKind
<1>7. CASE x \in Scr!Caps
  <2>1. y \in Scr!Caps
    BY <1>7 DEF Scr!Becomes, Scr!Caps, Scr!SourceKinds
  <2> QED  BY <1>1, <1>7, <2>1 DEF SameKind
<1>8. CASE x \in Scr!SourceKinds
  <2>1. y = Gone
    BY <1>8 DEF Scr!Becomes, Scr!SourceKinds
  <2> QED  BY <2>1 DEF SameKind
<1>9. CASE x \in Scr!Row \cup Scr!AssetRows
  <2>1. Scr!Becomes(x) = {}
    BY <1>9 DEF Scr!Becomes, Scr!Row, Scr!AssetRows, Scr!SourceKinds
  <2> QED  BY <2>1
<1> QED  BY <1>2, <1>3, <1>4, <1>5, <1>6, <1>7, <1>8, <1>9 DEF Scr!RowKinds

PageTyped ==
    /\ {row, view.row} \subseteq Scr!Statuses(page) \cup {Gone}
    /\ click = Scr!NoClick \/ click \in Scr!Page[page]
    /\ result \in {"none", "running", "ok", "blocked", "refused"}

LEMMA PageStep == ASSUME OfferInv, PageTyped, [Scr!ScreensNext]_Scr!screenVars PROVE PageTyped'
<1>1. Scr!Statuses(page) \subseteq (UNION Scr!RowKinds) \cup {Gone}
  BY KindsAreWhole DEF OfferInv
<1>2. ASSUME NEW y, SameKind(row, y) PROVE y \in Scr!Statuses(page) \cup {Gone}
  <2>1. CASE y # row /\ y # Gone
    <3>1. PICK K \in Scr!RowKinds : row \in K /\ y \in K
      BY <1>2, <2>1 DEF SameKind
    <3>2. row # Gone
      BY <3>1, GoneIsNoRow
    <3>3. K \subseteq Scr!Statuses(page)
      BY <3>1, <3>2, KindsAreWhole DEF PageTyped, OfferInv
    <3> QED  BY <3>1, <3>3
  <2> QED  BY <2>1 DEF PageTyped
<1>3. CASE Scr!Click
  <2>1. PICK c \in Scr!Page[page] :
           click' = c /\ result' = "running" /\ UNCHANGED <<page, row, view>>
    BY <1>3 DEF Scr!Click
  <2> QED  BY <2>1 DEF PageTyped, Scr!Statuses
<1>4. CASE Scr!Accept
  <2>1. /\ Scr!Accepts(click.name) /\ row' = Scr!After(click.name, row) /\ result' = "ok"
        /\ UNCHANGED <<page, click>>
        /\ view' = [row |-> row', admin |-> admin, plan |-> view.plan] \/ UNCHANGED view
    BY <1>4 DEF Scr!Accept
  <2>2. SameKind(row, row')
    BY <2>1, AfterIsSameKind DEF Scr!Accepts
  <2>3. row' \in Scr!Statuses(page) \cup {Gone}
    BY <1>2, <2>2
  <2>4. view'.row = row' \/ view'.row = view.row
    BY <2>1
  <2> QED  BY <2>1, <2>3, <2>4 DEF PageTyped, Scr!Statuses
<1>5. CASE Scr!Block \/ Scr!Refuse
  BY <1>5 DEF Scr!Block, Scr!Refuse, PageTyped, Scr!Statuses
<1>6. CASE Scr!RowMoves
  <2>1. PICK new \in Scr!Becomes(row) : row' = new /\ UNCHANGED <<page, view, click, result>>
    BY <1>6 DEF Scr!RowMoves
  <2>2. SameKind(row, new)
    <3>1. row \in (UNION Scr!RowKinds) \cup {Gone}
      BY <1>1 DEF PageTyped
    <3> QED  BY <3>1, BecomesIsSameKind
  <2>3. new \in Scr!Statuses(page) \cup {Gone}
    BY <1>2, <2>2
  <2> QED  BY <2>1, <2>3 DEF PageTyped, Scr!Statuses
<1>7. CASE Scr!PlanMoves \/ Scr!RoleMoves \/ UNCHANGED Scr!screenVars
  BY <1>7 DEF Scr!PlanMoves, Scr!RoleMoves, Scr!screenVars, PageTyped, Scr!Statuses
<1> QED  BY <1>3, <1>4, <1>5, <1>6, <1>7 DEF Scr!ScreensNext

\* The types of a page: its row is one for which it has controls, of one of their kinds, or gone.
THEOREM ScreensTypes == WorkspaceSpec => [](part = "screens" => Scr!ScreensTypeOK)
<1> DEFINE I == part = "screens" => OfferInv
           J == part = "screens" => PageTyped
<1>1. WorkspaceInit => J
  BY DEF WorkspaceInit, ScreensBegin, Scr!ScreensInit, PageTyped
<1>2. I /\ J /\ [WorkspaceNext]_workspaceVars => J'
  <2> SUFFICES ASSUME OfferInv, PageTyped, [Scr!ScreensNext]_Scr!screenVars PROVE PageTyped'
    BY ScreensFrame
  <2> QED  BY PageStep
<1>3. I /\ J => (part = "screens" => Scr!ScreensTypeOK)
  BY DEF OfferInv, PageTyped, Scr!ScreensTypeOK
<1> QED  BY <1>1, <1>2, <1>3, OfferInductive, PTL DEF WorkspaceSpec
=============================================================================
