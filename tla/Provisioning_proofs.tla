------------------------- MODULE Provisioning_proofs -------------------------
(***************************************************************************)
(* Proofs about Provisioning, for every number of workspaces, deliveries,  *)
(* webhook requests and sweeps, every payload and every bound.             *)
(*                                                                         *)
(* One inductive invariant, IInv, carries all of them: its conjuncts rest  *)
(* on each other, so its step is proved action by action.                  *)
(***************************************************************************)
EXTENDS Provisioning, TLAPS

USE DEF Event, EventTypes, Statuses, Anchor, Idle, Handling, DueEntry, NoSeq, NotWiped

-----------------------------------------------------------------------------
(* Type correctness. *)

\* The initial state has the right types.
LEMMA TypeInit == Init => TypeOK
BY BoundsAssumption DEF Init, TypeOK

\* The anchor an event leaves behind is an anchor.
LEMMA RefAfterType ==
    ASSUME TypeOK, NEW e \in Event
    PROVE  RefAfter(e) \in Anchor
<1>1. ref[e.ws] \in Anchor /\ clock \in Nat
  BY DEF TypeOK
<1>2. Wiped(ref[e.ws]) \in Anchor
  BY <1>1 DEF Wiped
<1>. QED
  BY <1>1, <1>2 DEF RefAfter

\* Every action keeps the types.
LEMMA TypeStep == TypeOK /\ [Next]_vars => TypeOK'
<1>. SUFFICES ASSUME TypeOK, [Next]_vars
              PROVE  TypeOK'
  OBVIOUS
<1>. USE EventsAssumption, BoundsAssumption
<1>1. ASSUME NEW h \in Handlers, NEW d \in Deliveries, Receive(h, d)
      PROVE  TypeOK'
  <2>1. left[d] \in Nat /\ left[d] > 0 /\ left[d] - 1 \in Nat
    BY <1>1 DEF TypeOK, Receive
  <2>2. left' \in [Deliveries -> Nat]
    BY <1>1, <2>1 DEF TypeOK, Receive
  <2>3. [pc |-> "check_seq", d |-> d, seen |-> NoSeq] \in Handling
    OBVIOUS
  <2>4. handler' \in [Handlers -> Handling \cup {Idle}]
    BY <1>1, <2>3 DEF TypeOK, Receive
  <2>. QED
    BY <1>1, <2>2, <2>4 DEF TypeOK, Receive, anchors, books
<1>2. ASSUME NEW h \in Handlers, CheckSeq(h)
      PROVE  TypeOK'
  <2>. DEFINE d == handler[h].d
              e == EventOf[d]
  <2>1. d \in Deliveries /\ e.ws \in Workspaces
    BY <1>2 DEF TypeOK, CheckSeq
  <2>2. left' \in [Deliveries -> Nat]
    BY <1>2, <2>1 DEF TypeOK, CheckSeq, Answer
  <2>3. [pc |-> "apply", d |-> d, seen |-> lastSeq[e.ws]] \in Handling
    BY <2>1 DEF TypeOK
  <2>4. handler' \in [Handlers -> Handling \cup {Idle}]
    BY <1>2, <2>3 DEF TypeOK, CheckSeq
  <2>. QED
    BY <1>2, <2>2, <2>4 DEF TypeOK, CheckSeq, anchors, books
<1>3. ASSUME NEW h \in Handlers, Commit(h)
      PROVE  TypeOK'
  <2>. DEFINE d == handler[h].d
              e == EventOf[d]
  <2>1. handler[h] \in Handling /\ d \in Deliveries /\ e \in Event
    BY <1>3 DEF TypeOK, Commit
  <2>2. ref' \in [Workspaces -> Anchor]
    BY <1>3, <2>1, RefAfterType DEF TypeOK, Commit
  <2>3. wipeAudits' \in [Deliveries -> Nat]
    BY <1>3, <2>1 DEF TypeOK, Commit
  <2>4. handler' \in [Handlers -> Handling \cup {Idle}]
    BY <1>3, <2>1 DEF TypeOK, Commit
  <2>5. ledger' \subseteq Deliveries
    BY <1>3, <2>1 DEF TypeOK, Commit, LedgerRows
  <2>6. lastSeq' \in [Workspaces -> Nat \cup {NoSeq}]
    BY <1>3, <2>1 DEF TypeOK, Commit
  <2>7. raced' \subseteq Workspaces
    BY <1>3, <2>1 DEF TypeOK, Commit
  <2>. QED
    BY <1>3, <2>2, <2>3, <2>4, <2>5, <2>6, <2>7 DEF TypeOK, Commit
<1>4. ASSUME NEW h \in Handlers, Reject(h)
      PROVE  TypeOK'
  BY <1>4 DEF TypeOK, Reject, anchors, books
<1>5. ASSUME NEW h \in Handlers, Respond(h)
      PROVE  TypeOK'
  <2>1. handler[h].d \in Deliveries
    BY <1>5 DEF TypeOK, Respond
  <2>. QED
    BY <1>5, <2>1 DEF TypeOK, Respond, Answer, EvictedBy, anchors, books
<1>6. ASSUME NEW s \in Sweepers, SweepSelect(s)
      PROVE  TypeOK'
  <2>1. \A w \in Workspaces : Due(w) => ref[w].wipedAt \in Nat
    BY DEF TypeOK, Due
  <2>2. sweeping' \in [Sweepers -> SUBSET DueEntry]
    BY <1>6, <2>1 DEF TypeOK, SweepSelect
  <2>. QED
    BY <1>6, <2>2 DEF TypeOK, SweepSelect, anchors, books
<1>7. ASSUME NEW s \in Sweepers, SweepDelete(s)
      PROVE  TypeOK'
  <2>1. PICK m \in sweeping[s] :
             /\ rows' = [rows EXCEPT ![m.ws] = @ \ SweptKinds]
             /\ ref' = [ref EXCEPT ![m.ws].status = "hard_deleted"]
             /\ sweeping' = [sweeping EXCEPT ![s] = @ \ {m}]
             /\ raced' = IF ref[m.ws].wipedAt = m.wipedAt THEN raced ELSE raced \cup {m.ws}
             /\ UNCHANGED <<books, evicted, handler, left, clock, crashes>>
    BY <1>7 DEF SweepDelete
  <2>2. m.ws \in Workspaces
    BY DEF TypeOK
  <2>. QED
    BY <2>1, <2>2 DEF TypeOK, books
<1>8. ASSUME NEW w \in Workspaces, EnterWorkspace(w)
      PROVE  TypeOK'
  BY <1>8 DEF TypeOK, EnterWorkspace, books
<1>9. ASSUME NEW w \in Workspaces, NEW kind \in RowKinds, WriteRow(w, kind)
      PROVE  TypeOK'
  BY <1>9 DEF TypeOK, WriteRow, books
<1>10. CASE Tick
  BY <1>10 DEF TypeOK, Tick, anchors, books
<1>11. CASE Crash
  BY <1>11 DEF TypeOK, Crash, anchors, books
<1>12. CASE UNCHANGED vars
  BY <1>12 DEF TypeOK, vars
<1>. QED
  BY <1>1, <1>2, <1>3, <1>4, <1>5, <1>6, <1>7, <1>8, <1>9, <1>10, <1>11, <1>12
  DEF Next, HandlerStep, SweepStep

\* Every state has the right types.
THEOREM TypeCorrect == Spec => []TypeOK
<1>1. Init => TypeOK
  BY TypeInit
<1>2. TypeOK /\ [Next]_vars => TypeOK'
  BY TypeStep
<1>. QED
  BY <1>1, <1>2, PTL DEF Spec

-----------------------------------------------------------------------------
(* What the three actions that touch the anchor or the books do. *)

\* The transaction of the handler, with its guard, spelt out.
LEMMA CommitFacts ==
    ASSUME TypeOK, NEW h \in Handlers, Commit(h)
    PROVE  LET d == handler[h].d
               e == EventOf[d]
           IN  /\ d \in Deliveries /\ e \in Event /\ d \notin ledger
               /\ handler[h].pc = "apply" /\ handler[h].seen \in Nat \cup {NoSeq}
               /\ ref' = [ref EXCEPT ![e.ws] = RefAfter(e)]
               /\ wipeAudits' = IF e.type = "tenant.deprovisioned"
                                THEN [wipeAudits EXCEPT ![d] = @ + 1]
                                ELSE wipeAudits
               /\ ledger' = ledger \cup {d}
               /\ lastSeq' = [lastSeq EXCEPT ![e.ws] = e.seq]
               /\ raced' = IF handler[h].seen = lastSeq[e.ws] THEN raced ELSE raced \cup {e.ws}
               /\ handler' = [handler EXCEPT ![h].pc = "respond"]
               /\ UNCHANGED <<rows, evicted, sweeping, left, clock, crashes>>
<1>1. handler[h].pc = "apply" /\ handler[h] # Idle
  BY DEF Commit
<1>2. handler[h] \in Handling
  BY <1>1 DEF TypeOK
<1>3. handler[h].d \in Deliveries /\ EventOf[handler[h].d] \in Event
  BY <1>2, EventsAssumption
<1>. QED
  BY <1>1, <1>2, <1>3 DEF Commit, KeyTaken, LedgerRows

\* One transaction of the sweep clears one workspace of its list.
LEMMA SweepFacts ==
    ASSUME TypeOK, NEW s \in Sweepers, SweepDelete(s)
    PROVE  \E m \in sweeping[s] :
               /\ m \in DueEntry
               /\ rows' = [rows EXCEPT ![m.ws] = @ \ SweptKinds]
               /\ ref' = [ref EXCEPT ![m.ws].status = "hard_deleted"]
               /\ sweeping' = [sweeping EXCEPT ![s] = @ \ {m}]
               /\ raced' = IF ref[m.ws].wipedAt = m.wipedAt THEN raced ELSE raced \cup {m.ws}
               /\ UNCHANGED <<ledger, lastSeq, wipeAudits, handler, clock>>
<1>1. sweeping[s] \subseteq DueEntry
  BY DEF TypeOK
<1>. QED
  BY <1>1 DEF SweepDelete, books

\* Every other step leaves the anchor, the books and the history alone.
LEMMA Frame ==
    ASSUME [Next]_vars
    PROVE  \/ \E h \in Handlers : Commit(h)
           \/ \E s \in Sweepers : SweepDelete(s)
           \/ \E w \in Workspaces : EnterWorkspace(w)
           \/ UNCHANGED <<ref, ledger, lastSeq, wipeAudits, raced>>
<1>1. ASSUME NEW h \in Handlers, HandlerStep(h)
      PROVE  Commit(h) \/ UNCHANGED <<ref, ledger, lastSeq, wipeAudits, raced>>
  BY <1>1 DEF HandlerStep, CheckSeq, Reject, Respond, anchors, books
<1>2. ASSUME NEW s \in Sweepers, SweepStep(s)
      PROVE  SweepDelete(s) \/ UNCHANGED <<ref, ledger, lastSeq, wipeAudits, raced>>
  BY <1>2 DEF SweepStep, SweepSelect, anchors, books
<1>3. ASSUME NEW h \in Handlers, NEW d \in Deliveries, Receive(h, d)
      PROVE  UNCHANGED <<ref, ledger, lastSeq, wipeAudits, raced>>
  BY <1>3 DEF Receive, anchors, books
<1>4. ASSUME NEW w \in Workspaces, NEW kind \in RowKinds, WriteRow(w, kind)
      PROVE  UNCHANGED <<ref, ledger, lastSeq, wipeAudits, raced>>
  BY <1>4 DEF WriteRow, books
<1>5. Tick \/ Crash \/ UNCHANGED vars
          => UNCHANGED <<ref, ledger, lastSeq, wipeAudits, raced>>
  BY DEF Tick, Crash, vars, anchors, books
<1>. QED
  BY <1>1, <1>2, <1>3, <1>4, <1>5 DEF Next

-----------------------------------------------------------------------------
(* The ledger, the watermark and the audit trail. *)

\* Every step keeps what is said of the books.
LEMMA BooksStep ==
    IInv /\ [Next]_vars
        => WatermarkNamesLedgerEvent' /\ WipeAuditPerDelivery' /\ WatermarkIsNewest'
<1>. SUFFICES ASSUME IInv, [Next]_vars
              PROVE  WatermarkNamesLedgerEvent' /\ WipeAuditPerDelivery' /\ WatermarkIsNewest'
  OBVIOUS
<1>. USE EventsAssumption DEF IInv
<1>1. ASSUME NEW h \in Handlers, Commit(h)
      PROVE  WatermarkNamesLedgerEvent' /\ WipeAuditPerDelivery' /\ WatermarkIsNewest'
  <2>. DEFINE d == handler[h].d
              e == EventOf[d]
              w == e.ws
  <2>1. /\ d \in Deliveries /\ e \in Event /\ w \in Workspaces /\ d \notin ledger
        /\ ledger' = ledger \cup {d}
        /\ lastSeq' = [lastSeq EXCEPT ![w] = e.seq]
    BY <1>1, CommitFacts
  <2>2. lastSeq \in [Workspaces -> Nat \cup {NoSeq}] /\ ledger \subseteq Deliveries
    BY DEF TypeOK
  <2>3. lastSeq'[w] = e.seq /\ e.seq # NoSeq
        /\ \A v \in Workspaces \ {w} : lastSeq'[v] = lastSeq[v]
    BY <2>1, <2>2
  <2>4. WatermarkNamesLedgerEvent'
    BY <2>1, <2>2, <2>3 DEF WatermarkNamesLedgerEvent
  <2>5. WipeAuditPerDelivery'
    <3>1. wipeAudits \in [Deliveries -> Nat]
      BY DEF TypeOK
    <3>2. wipeAudits' = IF e.type = "tenant.deprovisioned"
                        THEN [wipeAudits EXCEPT ![d] = @ + 1]
                        ELSE wipeAudits
      BY <1>1, CommitFacts
    <3>3. wipeAudits[d] = 0
      BY <2>1 DEF WipeAuditPerDelivery
    <3>. QED
      BY <2>1, <3>1, <3>2, <3>3 DEF WipeAuditPerDelivery
  <2>6. WatermarkIsNewest'
    <3>1. SUFFICES ASSUME NEW v \in Workspaces \ raced', NEW c \in ledger', EventOf[c].ws = v
                   PROVE  EventOf[c].seq <= lastSeq'[v]
      BY DEF WatermarkIsNewest
    <3>2. raced' = IF handler[h].seen = lastSeq[w] THEN raced ELSE raced \cup {w}
      BY <1>1, CommitFacts
    <3>3. v \in Workspaces \ raced /\ c \in Deliveries
      BY <2>1, <2>2, <3>2
    <3>4. CASE v # w
      BY <2>1, <2>3, <3>1, <3>3, <3>4 DEF WatermarkIsNewest
    <3>5. CASE v = w /\ c = d
      <4>1. e.seq \in Nat
        BY <2>1
      <4>. QED
        BY <2>3, <3>5, <4>1
    <3>6. CASE v = w /\ c # d
      <4>1. c \in ledger /\ EventOf[c].seq <= lastSeq[w]
        BY <2>1, <3>1, <3>3, <3>6 DEF WatermarkIsNewest
      <4>2. handler[h].seen = lastSeq[w] /\ handler[h].seen < e.seq
        BY <1>1, <3>2, <3>6, CommitFacts DEF ApplyIsNewer
      <4>3. EventOf[c].seq \in Nat /\ e.seq \in Nat /\ lastSeq[w] \in Int
        BY <2>1, <2>2, <3>3
      <4>. QED
        BY <2>3, <3>6, <4>1, <4>2, <4>3
    <3>. QED
      BY <3>4, <3>5, <3>6
  <2>. QED
    BY <2>4, <2>5, <2>6
<1>2. ASSUME UNCHANGED <<ledger, lastSeq, wipeAudits>>, raced \subseteq raced'
      PROVE  WatermarkNamesLedgerEvent' /\ WipeAuditPerDelivery' /\ WatermarkIsNewest'
  BY <1>2 DEF WatermarkNamesLedgerEvent, WipeAuditPerDelivery, WatermarkIsNewest
<1>3. ASSUME NEW s \in Sweepers, SweepDelete(s)
      PROVE  UNCHANGED <<ledger, lastSeq, wipeAudits>> /\ raced \subseteq raced'
  BY <1>3, SweepFacts
<1>4. ASSUME NEW w \in Workspaces, EnterWorkspace(w)
      PROVE  UNCHANGED <<ledger, lastSeq, wipeAudits>> /\ raced \subseteq raced'
  BY <1>4 DEF EnterWorkspace, books
<1>. QED
  BY <1>1, <1>2, <1>3, <1>4, Frame

-----------------------------------------------------------------------------
(* The requests and the sweeps under way. *)

\* A request passes the watermark check only with a newer event, and keeps what it
\* has read until it commits.
LEMMA ApplyStep == IInv /\ [Next]_vars => ApplyIsNewer'
<1>. SUFFICES ASSUME TypeOK, ApplyIsNewer, [Next]_vars,
                     NEW g \in Handlers, handler'[g].pc = "apply"
              PROVE  handler'[g].seen < EventOf[handler'[g].d].seq
  BY DEF IInv, ApplyIsNewer
<1>. USE EventsAssumption
<1>1. handler \in [Handlers -> Handling \cup {Idle}]
  BY DEF TypeOK
<1>2. CASE handler'[g] = handler[g]
  BY <1>2 DEF ApplyIsNewer
<1>3. ASSUME NEW h \in Handlers, NEW d \in Deliveries, Receive(h, d)
      PROVE  handler'[g] = handler[g]
  BY <1>1, <1>3 DEF Receive
<1>4. ASSUME NEW h \in Handlers, CheckSeq(h), handler'[g] # handler[g]
      PROVE  handler'[g].seen < EventOf[handler'[g].d].seq
  <2>. DEFINE d == handler[h].d
              e == EventOf[d]
  <2>1. h = g /\ ~Stale(e) /\ handler'[g] = [pc |-> "apply", d |-> d, seen |-> lastSeq[e.ws]]
    BY <1>1, <1>4 DEF CheckSeq
  <2>2. d \in Deliveries
    BY <1>1, <1>4 DEF CheckSeq
  <2>3. e.seq \in Nat /\ e.ws \in Workspaces
    BY <2>2
  <2>4. lastSeq[e.ws] \in Nat \cup {NoSeq}
    BY <2>3 DEF TypeOK
  <2>. QED
    BY <2>1, <2>3, <2>4 DEF Stale
<1>5. ASSUME NEW h \in Handlers, Commit(h) \/ Reject(h) \/ Respond(h)
      PROVE  handler'[g] = handler[g]
  BY <1>1, <1>5 DEF Commit, Reject, Respond
<1>6. ASSUME NEW s \in Sweepers, SweepStep(s)
      PROVE  handler' = handler
  BY <1>6 DEF SweepStep, SweepSelect, SweepDelete
<1>7. ASSUME NEW w \in Workspaces,
             EnterWorkspace(w) \/ \E kind \in RowKinds : WriteRow(w, kind)
      PROVE  handler' = handler
  BY <1>7 DEF EnterWorkspace, WriteRow
<1>8. Tick \/ UNCHANGED vars => handler' = handler
  BY DEF Tick, vars
<1>9. ~Crash
  BY DEF Crash
<1>. QED
  BY <1>2, <1>3, <1>4, <1>5, <1>6, <1>7, <1>8, <1>9 DEF Next, HandlerStep

\* A sweep lists only workspaces past their retention, and time only moves on.
LEMMA SweptStep == IInv /\ [Next]_vars => SweptWasDue'
<1>. SUFFICES ASSUME TypeOK, SweptWasDue, [Next]_vars,
                     NEW t \in Sweepers, NEW m \in sweeping'[t]
              PROVE  m.wipedAt < clock' - Retention
  BY DEF IInv, SweptWasDue
<1>1. sweeping \in [Sweepers -> SUBSET DueEntry] /\ clock \in Nat /\ Retention \in Nat
  BY BoundsAssumption DEF TypeOK
<1>2. CASE clock' = clock /\ m \in sweeping[t]
  BY <1>2 DEF SweptWasDue
<1>3. ASSUME NEW s \in Sweepers, SweepSelect(s), m \notin sweeping[t]
      PROVE  m.wipedAt < clock' - Retention
  <2>1. \E w \in Workspaces : Due(w) /\ m = [ws |-> w, wipedAt |-> ref[w].wipedAt]
    BY <1>1, <1>3 DEF SweepSelect
  <2>. QED
    BY <1>3, <2>1 DEF SweepSelect, Due
<1>4. ASSUME NEW s \in Sweepers, SweepSelect(s) \/ SweepDelete(s)
      PROVE  clock' = clock /\ (SweepDelete(s) => m \in sweeping[t])
  BY <1>1, <1>4 DEF SweepSelect, SweepDelete
<1>5. ASSUME NEW h \in Handlers, HandlerStep(h) \/ \E d \in Deliveries : Receive(h, d)
      PROVE  clock' = clock /\ sweeping' = sweeping
  BY <1>5 DEF HandlerStep, Receive, CheckSeq, Commit, Reject, Respond
<1>6. ASSUME NEW w \in Workspaces,
             EnterWorkspace(w) \/ \E kind \in RowKinds : WriteRow(w, kind)
      PROVE  clock' = clock /\ sweeping' = sweeping
  BY <1>6 DEF EnterWorkspace, WriteRow
<1>7. UNCHANGED vars => clock' = clock /\ sweeping' = sweeping
  BY DEF vars
<1>8. ~Tick /\ ~Crash
  BY DEF Tick, Crash
<1>. QED
  BY <1>2, <1>3, <1>4, <1>5, <1>6, <1>7, <1>8 DEF Next, SweepStep

-----------------------------------------------------------------------------
(* The anchor. *)

\* The conjuncts of IInv about the anchor.
AnchorInv ==
    /\ MarkMatchesStatus
    /\ LatestEventDecides
    /\ HardDeletedIsMarked
    /\ ProvisionedIsPresent

\* The soft delete of a provisioned anchor sets the mark, and any other anchor stays.
LEMMA WipedMark ==
    ASSUME TypeOK, NEW a \in Anchor
    PROVE  /\ a.status = "provisioned"
                  => Wiped(a).status = "deprovisioned" /\ Wiped(a).wipedAt \in Nat
           /\ a.status # "provisioned" => Wiped(a) = a
BY DEF Wiped, TypeOK

\* The transaction of the handler.
LEMMA AnchorCommit ==
    ASSUME IInv, NEW h \in Handlers, Commit(h)
    PROVE  AnchorInv'
<1>. USE EventsAssumption DEF IInv
<1>. DEFINE d == handler[h].d
            e == EventOf[d]
            w == e.ws
<1>1. /\ d \in Deliveries /\ e \in Event /\ w \in Workspaces /\ d \notin ledger
      /\ ledger' = ledger \cup {d}
      /\ ref' = [ref EXCEPT ![w] = RefAfter(e)]
      /\ raced' = IF handler[h].seen = lastSeq[w] THEN raced ELSE raced \cup {w}
  BY CommitFacts
<1>2. ref \in [Workspaces -> Anchor] /\ ledger \subseteq Deliveries
  BY DEF TypeOK
<1>3. ref'[w] = RefAfter(e) /\ \A v \in Workspaces \ {w} : ref'[v] = ref[v]
  BY <1>1, <1>2
<1>4. e.type = "tenant.provisioned" \/ e.type = "tenant.deprovisioned" \/ RefAfter(e) = ref[w]
  BY DEF RefAfter
<1>. QED
  <2>1. MarkMatchesStatus'
    <3>1. /\ RefAfter(e).status \in {"absent", "provisioned"} => RefAfter(e).wipedAt = NotWiped
          /\ RefAfter(e).status = "deprovisioned" => RefAfter(e).wipedAt # NotWiped
      BY <1>1, <1>2, <1>4, WipedMark DEF RefAfter, MarkMatchesStatus
    <3>. QED
      BY <1>3, <3>1 DEF MarkMatchesStatus
  <2>2. HardDeletedIsMarked'
    <3>1. w \notin raced /\ RefAfter(e).status = "hard_deleted" => RefAfter(e).wipedAt # NotWiped
      BY <1>1, <1>2, <1>4, WipedMark DEF RefAfter, HardDeletedIsMarked
    <3>. QED
      BY <1>1, <1>3, <3>1 DEF HardDeletedIsMarked
  <2>3. ProvisionedIsPresent'
    <3>1. /\ ref[w].status # "absent" => RefAfter(e).status # "absent"
          /\ e.type = "tenant.provisioned" => RefAfter(e).status # "absent"
      BY <1>1, <1>2, <1>4, WipedMark DEF RefAfter
    <3>. QED
      BY <1>1, <1>2, <1>3, <3>1 DEF ProvisionedIsPresent
  <2>4. LatestEventDecides'
    <3>1. SUFFICES ASSUME NEW v \in Workspaces \ raced', NEW c \in ledger', NewestLifecycle(v, c)'
                   PROVE  IF EventOf[c].type = "tenant.provisioned"
                          THEN ref'[v] = [status |-> "provisioned", wipedAt |-> NotWiped]
                          ELSE ProvisionedBefore(v, c)' => ref'[v].wipedAt # NotWiped
      BY DEF LatestEventDecides
    <3>2. v \notin raced /\ c \in Deliveries
      BY <1>1, <1>2
    <3>3. CASE v # w
      <4>1. c \in ledger /\ NewestLifecycle(v, c)
        BY <1>1, <3>1, <3>3 DEF NewestLifecycle
      <4>2. ProvisionedBefore(v, c)' => ProvisionedBefore(v, c)
        BY <1>1, <3>3 DEF ProvisionedBefore
      <4>. QED
        BY <1>3, <3>2, <3>3, <4>1, <4>2 DEF LatestEventDecides
    <3>4. ASSUME v = w
          PROVE  \A b \in ledger : EventOf[b].ws = w => EventOf[b].seq < e.seq
      <4>1. handler[h].seen = lastSeq[w] /\ handler[h].seen < e.seq /\ w \notin raced
        BY <1>1, <3>2, <3>4, CommitFacts DEF ApplyIsNewer
      <4>2. lastSeq[w] \in Nat \cup {NoSeq} /\ e.seq \in Nat
        BY <1>1 DEF TypeOK
      <4>3. \A b \in ledger : EventOf[b].ws = w => EventOf[b].seq <= lastSeq[w]
        BY <1>1, <4>1 DEF WatermarkIsNewest
      <4>4. \A b \in ledger : EventOf[b].seq \in Nat
        BY <1>2
      <4>. QED
        BY <4>1, <4>2, <4>3, <4>4
    <3>5. CASE v = w /\ e.type \in LifecycleTypes
      <4>1. c = d
        <5>1. d \in ledger' /\ EventOf[c].seq \in Nat /\ e.seq \in Nat
          BY <1>1, <3>2
        <5>2. e.seq <= EventOf[c].seq /\ EventOf[c].ws = w
          BY <3>1, <3>5, <5>1 DEF NewestLifecycle
        <5>. QED
          BY <1>1, <3>4, <3>5, <5>1, <5>2
      <4>2. CASE e.type = "tenant.provisioned"
        BY <1>3, <3>5, <4>1, <4>2 DEF RefAfter
      <4>3. CASE e.type = "tenant.deprovisioned"
        <5>1. RefAfter(e) = Wiped(ref[w]) /\ e.type # "tenant.provisioned"
          BY <4>3 DEF RefAfter
        <5>2. ASSUME ProvisionedBefore(v, c)'
              PROVE  Wiped(ref[w]).wipedAt # NotWiped
          <6>1. PICK b \in ledger' : /\ EventOf[b].ws = v
                                      /\ EventOf[b].type = "tenant.provisioned"
            BY <5>2 DEF ProvisionedBefore
          <6>2. b \in ledger
            BY <1>1, <5>1, <6>1
          <6>3. ref[w] \in Anchor /\ ref[w].status # "absent"
            BY <1>1, <1>2, <3>5, <6>1, <6>2 DEF ProvisionedIsPresent
          <6>4. ref[w].status # "provisioned" => ref[w].wipedAt # NotWiped
            BY <1>1, <3>2, <3>5, <6>3 DEF MarkMatchesStatus, HardDeletedIsMarked
          <6>. QED
            BY <6>3, <6>4, WipedMark
        <5>. QED
          BY <1>3, <3>5, <4>1, <5>1, <5>2
      <4>. QED
        BY <3>5, <4>2, <4>3 DEF LifecycleTypes
    <3>6. CASE v = w /\ e.type \notin LifecycleTypes
      <4>1. RefAfter(e) = ref[w]
        BY <3>6 DEF RefAfter, LifecycleTypes
      <4>2. c # d /\ c \in ledger /\ NewestLifecycle(v, c)
        BY <1>1, <3>1, <3>6 DEF NewestLifecycle
      <4>3. ProvisionedBefore(v, c)' => ProvisionedBefore(v, c)
        BY <1>1, <3>6 DEF ProvisionedBefore, LifecycleTypes
      <4>. QED
        BY <1>3, <3>2, <3>6, <4>1, <4>2, <4>3 DEF LatestEventDecides
    <3>. QED
      BY <3>3, <3>5, <3>6
  <2>. QED
    BY <2>1, <2>2, <2>3, <2>4 DEF AnchorInv

\* The transaction of the sweep.
LEMMA AnchorSweep ==
    ASSUME IInv, NEW s \in Sweepers, SweepDelete(s)
    PROVE  AnchorInv'
<1>. USE EventsAssumption DEF IInv
<1>1. PICK m \in sweeping[s] :
           /\ m \in DueEntry
           /\ ref' = [ref EXCEPT ![m.ws].status = "hard_deleted"]
           /\ raced' = IF ref[m.ws].wipedAt = m.wipedAt THEN raced ELSE raced \cup {m.ws}
           /\ UNCHANGED ledger
  BY SweepFacts
<1>2. ref \in [Workspaces -> Anchor] /\ m.ws \in Workspaces /\ m.wipedAt \in Nat
      /\ ledger \subseteq Deliveries
  BY <1>1 DEF TypeOK
<1>3. /\ ref'[m.ws].status = "hard_deleted" /\ ref'[m.ws].wipedAt = ref[m.ws].wipedAt
      /\ \A v \in Workspaces \ {m.ws} : ref'[v] = ref[v]
  BY <1>1, <1>2
<1>4. m.ws \notin raced' => ref[m.ws].wipedAt # NotWiped
  BY <1>1, <1>2
<1>5. MarkMatchesStatus'
  BY <1>3 DEF MarkMatchesStatus
<1>6. HardDeletedIsMarked'
  BY <1>1, <1>3, <1>4 DEF HardDeletedIsMarked
<1>7. ProvisionedIsPresent'
  BY <1>1, <1>2, <1>3 DEF ProvisionedIsPresent
<1>8. LatestEventDecides'
  <2>1. SUFFICES ASSUME NEW v \in Workspaces \ raced', NEW c \in ledger, NewestLifecycle(v, c)
                 PROVE  IF EventOf[c].type = "tenant.provisioned"
                        THEN ref'[v] = [status |-> "provisioned", wipedAt |-> NotWiped]
                        ELSE ProvisionedBefore(v, c) => ref'[v].wipedAt # NotWiped
    BY <1>1 DEF LatestEventDecides, NewestLifecycle, ProvisionedBefore
  <2>2. IF EventOf[c].type = "tenant.provisioned"
        THEN ref[v] = [status |-> "provisioned", wipedAt |-> NotWiped]
        ELSE ProvisionedBefore(v, c) => ref[v].wipedAt # NotWiped
    BY <1>1, <2>1 DEF LatestEventDecides
  <2>. QED
    BY <1>3, <1>4, <2>2
<1>. QED
  BY <1>5, <1>6, <1>7, <1>8 DEF AnchorInv

\* First entry.
LEMMA AnchorEnter ==
    ASSUME IInv, NEW w \in Workspaces, EnterWorkspace(w)
    PROVE  AnchorInv'
<1>. USE EventsAssumption DEF IInv
<1>1. /\ ref[w].status = "absent"
      /\ ref' = [ref EXCEPT ![w].status = "provisioned"]
      /\ UNCHANGED <<ledger, raced>>
  BY DEF EnterWorkspace, books
<1>2. ref \in [Workspaces -> Anchor] /\ ledger \subseteq Deliveries
  BY DEF TypeOK
<1>3. /\ ref'[w].status = "provisioned" /\ ref'[w].wipedAt = ref[w].wipedAt
      /\ ref[w].wipedAt = NotWiped
      /\ \A v \in Workspaces \ {w} : ref'[v] = ref[v]
  BY <1>1, <1>2 DEF MarkMatchesStatus
<1>4. MarkMatchesStatus'
  BY <1>3 DEF MarkMatchesStatus
<1>5. HardDeletedIsMarked'
  BY <1>1, <1>3 DEF HardDeletedIsMarked
<1>6. ProvisionedIsPresent'
  BY <1>1, <1>2, <1>3 DEF ProvisionedIsPresent
<1>7. LatestEventDecides'
  <2>1. SUFFICES ASSUME NEW v \in Workspaces \ raced, NEW c \in ledger, NewestLifecycle(v, c)
                 PROVE  IF EventOf[c].type = "tenant.provisioned"
                        THEN ref'[v] = [status |-> "provisioned", wipedAt |-> NotWiped]
                        ELSE ProvisionedBefore(v, c) => ref'[v].wipedAt # NotWiped
    BY <1>1 DEF LatestEventDecides, NewestLifecycle, ProvisionedBefore
  <2>2. IF EventOf[c].type = "tenant.provisioned"
        THEN ref[v] = [status |-> "provisioned", wipedAt |-> NotWiped]
        ELSE ProvisionedBefore(v, c) => ref[v].wipedAt # NotWiped
    BY <2>1 DEF LatestEventDecides
  <2>. QED
    BY <1>1, <1>3, <2>2
<1>. QED
  BY <1>4, <1>5, <1>6, <1>7 DEF AnchorInv

\* Every step keeps what is said of the anchor.
LEMMA AnchorStep == IInv /\ [Next]_vars => AnchorInv'
<1>. SUFFICES ASSUME IInv, [Next]_vars
              PROVE  AnchorInv'
  OBVIOUS
<1>1. ASSUME UNCHANGED <<ref, ledger, lastSeq, wipeAudits, raced>>
      PROVE  AnchorInv'
  BY <1>1 DEF IInv, AnchorInv, MarkMatchesStatus, LatestEventDecides, NewestLifecycle,
              ProvisionedBefore, HardDeletedIsMarked, ProvisionedIsPresent
<1>. QED
  BY <1>1, Frame, AnchorCommit, AnchorSweep, AnchorEnter

-----------------------------------------------------------------------------
(* The theorems. *)

\* IInv holds at the start.
LEMMA IInvInit == Init => IInv
<1>. SUFFICES ASSUME Init
              PROVE  IInv
  OBVIOUS
<1>1. TypeOK
  BY TypeInit
<1>2. /\ WatermarkNamesLedgerEvent /\ WipeAuditPerDelivery /\ MarkMatchesStatus
      /\ WatermarkIsNewest /\ LatestEventDecides /\ ApplyIsNewer /\ SweptWasDue
      /\ HardDeletedIsMarked /\ ProvisionedIsPresent
  BY DEF Init, WatermarkNamesLedgerEvent, WipeAuditPerDelivery, MarkMatchesStatus,
         WatermarkIsNewest, LatestEventDecides, ApplyIsNewer, SweptWasDue,
         HardDeletedIsMarked, ProvisionedIsPresent
<1>. QED
  BY <1>1, <1>2 DEF IInv

\* IInv is kept by every step.
LEMMA IInvStep == IInv /\ [Next]_vars => IInv'
<1>. SUFFICES ASSUME IInv, [Next]_vars
              PROVE  IInv'
  OBVIOUS
<1>1. TypeOK'
  BY TypeStep DEF IInv
<1>2. WatermarkNamesLedgerEvent' /\ WipeAuditPerDelivery' /\ WatermarkIsNewest'
  BY BooksStep
<1>3. ApplyIsNewer' /\ SweptWasDue'
  BY ApplyStep, SweptStep
<1>4. MarkMatchesStatus' /\ LatestEventDecides' /\ HardDeletedIsMarked' /\ ProvisionedIsPresent'
  BY AnchorStep DEF AnchorInv
<1>. QED
  BY <1>1, <1>2, <1>3, <1>4 DEF IInv

\* The inductive invariant holds in every state.
THEOREM Inductive == Spec => []IInv
<1>. QED
  BY IInvInit, IInvStep, PTL DEF Spec

\* A workspace has a watermark exactly when one of its deliveries is recorded, and
\* the watermark is the seq of a recorded one: handler.ts writes both or neither.
THEOREM WatermarkTheorem == Spec => []WatermarkNamesLedgerEvent
<1>1. IInv => WatermarkNamesLedgerEvent
  BY DEF IInv
<1>. QED
  BY <1>1, Inductive, PTL

\* One workspace.wipe audit row per recorded tenant.deprovisioned, and no other.
THEOREM WipeAuditTheorem == Spec => []WipeAuditPerDelivery
<1>1. IInv => WipeAuditPerDelivery
  BY DEF IInv
<1>. QED
  BY <1>1, Inductive, PTL

\* status and wipedAt of an anchor never contradict each other.
THEOREM MarkTheorem == Spec => []MarkMatchesStatus
<1>1. IInv => MarkMatchesStatus
  BY DEF IInv
<1>. QED
  BY <1>1, Inductive, PTL

\* No recorded event is newer than the watermark of an unraced workspace.
THEOREM NewestTheorem == Spec => []WatermarkIsNewest
<1>1. IInv => WatermarkIsNewest
  BY DEF IInv
<1>. QED
  BY <1>1, Inductive, PTL

\* The anchor of an unraced workspace says what its newest recorded lifecycle event
\* says, in whatever order the deliveries came, were repeated, or were cut short.
THEOREM LatestEventTheorem == Spec => []LatestEventDecides
<1>1. IInv => LatestEventDecides
  BY DEF IInv
<1>. QED
  BY <1>1, Inductive, PTL

\* The sweep erases business rows only of workspaces whose mark is older than the
\* retention when it does, unless the mark changed under it.
THEOREM EraseTheorem == Spec => EraseOnlyExpired
<1>. DEFINE P == \A w \in Workspaces : Erased(w) =>
                    \/ w \in raced'
                    \/ ref[w].wipedAt # NotWiped /\ ref[w].wipedAt < clock - Retention
<1>1. IInv /\ [Next]_vars => [P]_vars
  <2>. SUFFICES ASSUME IInv, [Next]_vars, NEW w \in Workspaces, Erased(w)
                PROVE  \/ w \in raced'
                       \/ ref[w].wipedAt # NotWiped /\ ref[w].wipedAt < clock - Retention
    OBVIOUS
  <2>1. rows \in [Workspaces -> SUBSET RowKinds]
    BY DEF IInv, TypeOK
  <2>2. ASSUME NEW s \in Sweepers, SweepDelete(s)
        PROVE  \/ w \in raced'
               \/ ref[w].wipedAt # NotWiped /\ ref[w].wipedAt < clock - Retention
    <3>1. PICK m \in sweeping[s] :
               /\ m \in DueEntry
               /\ rows' = [rows EXCEPT ![m.ws] = @ \ SweptKinds]
               /\ raced' = IF ref[m.ws].wipedAt = m.wipedAt THEN raced ELSE raced \cup {m.ws}
      BY <2>2, SweepFacts DEF IInv
    <3>2. w = m.ws
      BY <2>1, <3>1 DEF Erased
    <3>3. m.wipedAt < clock - Retention /\ m.wipedAt \in Nat
      BY <3>1 DEF IInv, SweptWasDue
    <3>. QED
      BY <3>1, <3>2, <3>3
  <2>3. ASSUME NEW v \in Workspaces, EnterWorkspace(v) \/ \E k \in RowKinds : WriteRow(v, k)
        PROVE  FALSE
    BY <2>1, <2>3 DEF Erased, EnterWorkspace, WriteRow
  <2>4. ASSUME NEW h \in Handlers, HandlerStep(h) \/ \E d \in Deliveries : Receive(h, d)
        PROVE  FALSE
    BY <2>4 DEF Erased, HandlerStep, Receive, CheckSeq, Commit, Reject, Respond, anchors
  <2>5. ASSUME NEW s \in Sweepers, SweepSelect(s)
        PROVE  FALSE
    BY <2>5 DEF Erased, SweepSelect, anchors
  <2>6. ~Tick /\ ~Crash /\ ~UNCHANGED vars
    BY DEF Erased, Tick, Crash, anchors, vars
  <2>. QED
    BY <2>2, <2>3, <2>4, <2>5, <2>6 DEF Next, SweepStep
<1>. QED
  BY <1>1, Inductive, PTL DEF Spec, EraseOnlyExpired
=============================================================================
