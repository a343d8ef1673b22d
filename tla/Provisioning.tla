---------------------------- MODULE Provisioning ----------------------------
(***************************************************************************)
(* The life of a workspace anchor (WorkspaceRef, table app_instance):      *)
(* the C3 webhook handler that provisions, deprovisions and re-provisions  *)
(* it, the lazy creation on first entry, and the hard-delete sweep that    *)
(* clears its business rows once the wipe mark is older than the retention *)
(* window.                                                                 *)
(*                                                                         *)
(* The handler reads the ledger and the watermark outside the transaction  *)
(* that applies the event, so each read and the transaction are steps of   *)
(* their own; the sweep selects its workspaces once and then runs one      *)
(* transaction per workspace.  A transaction is one step: the rows it      *)
(* touches are locked in the same order by every writer.                   *)
(***************************************************************************)
EXTENDS Integers, FiniteSets

CONSTANTS
    Workspaces,   \* workspace ids
    Deliveries,   \* delivery ids the platform has to hand over
    EventOf,      \* EventOf[d]: the payload of delivery d
    RowKinds,     \* the kinds of rows a workspace can own
    Handlers,     \* webhook requests that may run at the same time
    Sweepers,     \* sweep jobs that may run at the same time
    Retention,    \* RETENTION_DAYS
    MaxAttempts,  \* attempts the platform makes of each delivery (8 in production)
    MaxClock,     \* bound: the last day of the model
    MaxCrashes    \* bound: process restarts

EventTypes == {"tenant.provisioned", "tenant.deprovisioned",
               "subscription_changed", "grant.invalidated"}

Event == [ws: Workspaces, seq: Nat, type: EventTypes, beta: BOOLEAN]

ASSUME EventsAssumption == EventOf \in [Deliveries -> Event]
ASSUME BoundsAssumption ==
    /\ "business" \in RowKinds
    /\ Retention \in Nat
    /\ MaxAttempts \in [Deliveries -> Nat]
    /\ MaxClock \in Nat /\ MaxCrashes \in Nat

VARIABLES
    ref,          \* WorkspaceRef per workspace
    rows,         \* the kinds of workspace rows that exist
    ledger,       \* webhook_delivery: the recorded delivery ids
    lastSeq,      \* provision_seq.lastSeq per workspace
    wipeAudits,   \* workspace.wipe audit rows written for each delivery
    evicted,      \* subscription changes whose cached entitlement is gone
    handler,      \* what each webhook request is doing
    sweeping,     \* what is left of each sweep's list
    left,         \* attempts the platform still makes of each delivery: 0 once one
                  \* was answered 2xx, or when it is dead-lettered
    clock,        \* days
    crashes,      \* restarts so far
    raced         \* history: workspaces hit by a check that was stale when used

anchors == <<ref, rows>>
books   == <<ledger, lastSeq, wipeAudits>>
vars    == <<ref, rows, ledger, lastSeq, wipeAudits, evicted, handler,
             sweeping, left, clock, crashes, raced>>

NotWiped == -1    \* wipedAt = null
NoSeq    == -1    \* no watermark row

Statuses == {"absent", "provisioned", "deprovisioned", "hard_deleted"}
Anchor   == [status: Statuses, wipedAt: Nat \cup {NotWiped}]

NoDelivery == "none"
Idle == [pc |-> "idle", d |-> NoDelivery, seen |-> NoSeq]
Handling == [pc: {"check_seq", "apply", "respond"}, d: Deliveries, seen: Nat \cup {NoSeq}]

\* An entry of a sweep's list: the columns its select asks for.
DueEntry == [ws: Workspaces, wipedAt: Nat]

TypeOK ==
    /\ ref \in [Workspaces -> Anchor]
    /\ rows \in [Workspaces -> SUBSET RowKinds]
    /\ ledger \subseteq Deliveries
    /\ lastSeq \in [Workspaces -> Nat \cup {NoSeq}]
    /\ wipeAudits \in [Deliveries -> Nat]
    /\ evicted \subseteq Deliveries
    /\ handler \in [Handlers -> Handling \cup {Idle}]
    /\ sweeping \in [Sweepers -> SUBSET DueEntry]
    /\ left \in [Deliveries -> Nat]
    /\ clock \in Nat
    /\ crashes \in Nat
    /\ raced \subseteq Workspaces

Init ==
    /\ ref = [w \in Workspaces |-> [status |-> "absent", wipedAt |-> NotWiped]]
    /\ rows = [w \in Workspaces |-> {}]
    /\ ledger = {}
    /\ lastSeq = [w \in Workspaces |-> NoSeq]
    /\ wipeAudits = [d \in Deliveries |-> 0]
    /\ evicted = {}
    /\ handler = [h \in Handlers |-> Idle]
    /\ sweeping = [s \in Sweepers |-> {}]
    /\ left = MaxAttempts
    /\ clock = 0
    /\ crashes = 0
    /\ raced = {}

-----------------------------------------------------------------------------
(* The webhook handler. *)

\* The 2xx answer to delivery d reaches the platform, or is lost on the way.
Answer(d) == \/ left' = [left EXCEPT ![d] = 0]
             \/ UNCHANGED left

\* A beta plan is built lazily, never through the webhook.
Ignored(e) == e.beta

\* The event is not newer than the watermark; without a row nothing is stale.
StaleUnchecked(e) == FALSE    \* mutant: the watermark is not consulted
Stale(e) == e.seq <= lastSeq[e.ws]

\* The platform posts d; the handler drops beta plans and looks d up in the ledger.
\* Such a post is answered at once: the platform then stops, or has one attempt less.
Receive(h, d) ==
    /\ handler[h] = Idle
    /\ left[d] > 0
    /\ \/ /\ Ignored(EventOf[d]) \/ d \in ledger
          /\ \E n \in {0, left[d] - 1} : left' = [left EXCEPT ![d] = n]
          /\ UNCHANGED handler
       \/ /\ ~Ignored(EventOf[d]) /\ d \notin ledger
          /\ left' = [left EXCEPT ![d] = @ - 1]
          /\ handler' = [handler EXCEPT ![h] =
                            [pc |-> "check_seq", d |-> d, seen |-> NoSeq]]
    /\ UNCHANGED <<anchors, books, evicted, sweeping, clock, crashes, raced>>

\* The watermark read: a stale event is answered, a newer one goes on.
CheckSeq(h) ==
    /\ handler[h].pc = "check_seq"
    /\ LET d == handler[h].d
           e == EventOf[d]
       IN  \/ /\ Stale(e)
              /\ Answer(d)
              /\ handler' = [handler EXCEPT ![h] = Idle]
           \/ /\ ~Stale(e)
              /\ handler' = [handler EXCEPT ![h] =
                                [pc |-> "apply", d |-> d, seen |-> lastSeq[e.ws]]]
              /\ UNCHANGED left
    /\ UNCHANGED <<anchors, books, evicted, sweeping, clock, crashes, raced>>

\* The soft delete: only a provisioned anchor is marked.
WipedMisspelt(a) == IF a.status = "provisioned"   \* mutant: a status of its own
                    THEN [status |-> "wiped", wipedAt |-> clock]
                    ELSE a
Wiped(a) == IF a.status = "provisioned"
            THEN [status |-> "deprovisioned", wipedAt |-> clock]
            ELSE a

RefAfterKeepingMark(e) ==     \* mutant: re-provisioning leaves wipedAt alone
    CASE e.type = "tenant.provisioned"   -> [ref[e.ws] EXCEPT !.status = "provisioned"]
      [] e.type = "tenant.deprovisioned" -> Wiped(ref[e.ws])
      [] OTHER                           -> ref[e.ws]

\* The anchor after event e: upsert on provisioned, a conditional update on
\* deprovisioned, untouched otherwise.
RefAfter(e) ==
    CASE e.type = "tenant.provisioned"   -> [status |-> "provisioned", wipedAt |-> NotWiped]
      [] e.type = "tenant.deprovisioned" -> Wiped(ref[e.ws])
      [] OTHER                           -> ref[e.ws]

\* webhook_delivery.id is the primary key: inserting a recorded id fails.
KeyTakenNever(d) == FALSE     \* mutant: the ledger insert is an upsert
KeyTaken(d) == d \in ledger

\* The ledger row of the delivery, written for every type of event.
LedgerRowsOfAnchorEvents(d) ==    \* mutant: only events that touch the anchor
    IF EventOf[d].type \in {"tenant.provisioned", "tenant.deprovisioned"} THEN {d} ELSE {}
LedgerRows(d) == {d}

\* The transaction commits: anchor, audit, ledger row and watermark together.
Commit(h) ==
    /\ handler[h].pc = "apply"
    /\ ~KeyTaken(handler[h].d)
    /\ LET d == handler[h].d
           e == EventOf[d]
       IN  /\ ref' = [ref EXCEPT ![e.ws] = RefAfter(e)]
           /\ wipeAudits' = IF e.type = "tenant.deprovisioned"
                            THEN [wipeAudits EXCEPT ![d] = @ + 1]
                            ELSE wipeAudits
           /\ ledger' = ledger \cup LedgerRows(d)
           /\ lastSeq' = [lastSeq EXCEPT ![e.ws] = e.seq]
           /\ raced' = IF handler[h].seen = lastSeq[e.ws] THEN raced ELSE raced \cup {e.ws}
    /\ handler' = [handler EXCEPT ![h].pc = "respond"]
    /\ UNCHANGED <<rows, evicted, sweeping, left, clock, crashes>>

\* The unique violation rolls the transaction back and the route answers 500.
Reject(h) ==
    /\ handler[h].pc = "apply"
    /\ KeyTaken(handler[h].d)
    /\ handler' = [handler EXCEPT ![h] = Idle]
    /\ UNCHANGED <<anchors, books, evicted, sweeping, left, clock, crashes, raced>>

\* After the commit: evict the cached entitlement, then answer 2xx.
EvictedByNothing(d) == {}     \* mutant: the handler forgets the eviction
EvictedBy(d) == IF EventOf[d].type = "subscription_changed" THEN {d} ELSE {}

Respond(h) ==
    /\ handler[h].pc = "respond"
    /\ evicted' = evicted \cup EvictedBy(handler[h].d)
    /\ Answer(handler[h].d)
    /\ handler' = [handler EXCEPT ![h] = Idle]
    /\ UNCHANGED <<anchors, books, sweeping, clock, crashes, raced>>

-----------------------------------------------------------------------------
(* The hard-delete sweep. *)

DueAtAnyAge(w) ==             \* mutant: the cutoff is left out of the query
    ref[w].wipedAt # NotWiped /\ ref[w].status # "hard_deleted"
DueWhileRetained(w) ==        \* mutant: the cutoff is compared the wrong way
    ref[w].wipedAt # NotWiped /\ ref[w].wipedAt > clock - Retention
    /\ ref[w].status # "hard_deleted"
Due(w) ==
    /\ ref[w].wipedAt # NotWiped
    /\ ref[w].wipedAt < clock - Retention
    /\ ref[w].status # "hard_deleted"

\* The query at the start of a sweep; with nothing due the sweep ends.
SweepSelect(s) ==
    /\ sweeping[s] = {}
    /\ \E w \in Workspaces : Due(w)
    /\ sweeping' = [sweeping EXCEPT ![s] =
                       {[ws |-> w, wipedAt |-> ref[w].wipedAt] : w \in {v \in Workspaces : Due(v)}}]
    /\ UNCHANGED <<anchors, books, evicted, handler, left, clock, crashes, raced>>

\* The tables the sweep's transaction clears; access requests are not among them.
SweptKinds == {"business"}

\* One workspace of the list: its rows go and the anchor is marked, without
\* another look at the wipe mark.
SweepDelete(s) ==
    \E m \in sweeping[s] :
        /\ rows' = [rows EXCEPT ![m.ws] = @ \ SweptKinds]
        /\ ref' = [ref EXCEPT ![m.ws].status = "hard_deleted"]
        /\ sweeping' = [sweeping EXCEPT ![s] = @ \ {m}]
        /\ raced' = IF ref[m.ws].wipedAt = m.wipedAt THEN raced ELSE raced \cup {m.ws}
        /\ UNCHANGED <<books, evicted, handler, left, clock, crashes>>

-----------------------------------------------------------------------------
(* The application around them. *)

\* First entry to a workspace nobody has seen: the anchor is recorded, and the
\* autofill may seed it.  The layout lets nobody in while the mark is set.
EnterWorkspace(w) ==
    /\ ref[w].status = "absent"
    /\ ref' = [ref EXCEPT ![w].status = "provisioned"]
    /\ \E seed \in {{}, {"business"}} : rows' = [rows EXCEPT ![w] = @ \cup seed]
    /\ UNCHANGED <<books, evicted, handler, sweeping, left,
                   clock, crashes, raced>>

\* A server action writes a row; none of them looks at the wipe mark.
WriteRow(w, kind) ==
    /\ ref[w].status # "absent"
    /\ kind \notin rows[w]
    /\ kind = "access_request" => "business" \in rows[w]
    /\ rows' = [rows EXCEPT ![w] = @ \cup {kind}]
    /\ UNCHANGED <<ref, books, evicted, handler, sweeping, left,
                   clock, crashes, raced>>

\* A day passes.  Requests and sweeps are short against a day.
Tick ==
    /\ clock < MaxClock
    /\ \A h \in Handlers : handler[h] = Idle
    /\ \A s \in Sweepers : sweeping[s] = {}
    /\ clock' = clock + 1
    /\ UNCHANGED <<anchors, books, evicted, handler, sweeping, left, crashes, raced>>

\* The process restarts: requests and sweeps in flight are gone, and with them
\* the entitlement cache of the process.
Crash ==
    /\ crashes < MaxCrashes
    /\ crashes' = crashes + 1
    /\ handler' = [h \in Handlers |-> Idle]
    /\ sweeping' = [s \in Sweepers |-> {}]
    /\ evicted' = evicted \cup {d \in ledger : EventOf[d].type = "subscription_changed"}
    /\ UNCHANGED <<anchors, books, left, clock, raced>>

-----------------------------------------------------------------------------
HandlerStep(h) == CheckSeq(h) \/ Commit(h) \/ Reject(h) \/ Respond(h)
SweepStep(s) == SweepSelect(s) \/ SweepDelete(s)

Next ==
    \/ \E h \in Handlers, d \in Deliveries : Receive(h, d)
    \/ \E h \in Handlers : HandlerStep(h)
    \/ \E s \in Sweepers : SweepStep(s)
    \/ \E w \in Workspaces : EnterWorkspace(w)
    \/ \E w \in Workspaces, kind \in RowKinds : WriteRow(w, kind)
    \/ Tick
    \/ Crash

Spec == Init /\ [][Next]_vars

\* A request that has begun runs to its end unless the process restarts, and the
\* job runner calls the sweep again and again.
Fairness ==
    /\ \A h \in Handlers : WF_vars(HandlerStep(h))
    /\ \A s \in Sweepers : WF_vars(SweepStep(s))

FairSpec == Spec /\ Fairness

-----------------------------------------------------------------------------
(* Properties. *)

\* The watermark and the ledger move together: a workspace has a watermark
\* exactly when one of its deliveries is recorded, and the watermark is the seq
\* of a recorded delivery.
WatermarkNamesLedgerEvent ==
    \A w \in Workspaces :
        IF lastSeq[w] = NoSeq
        THEN \A d \in ledger : EventOf[d].ws # w
        ELSE \E d \in ledger : EventOf[d].ws = w /\ EventOf[d].seq = lastSeq[w]

\* However often a delivery is repeated, and however many copies of it run at
\* the same time, a recorded tenant.deprovisioned leaves one workspace.wipe
\* audit row, and an unrecorded one none.
WipeAuditPerDelivery ==
    \A d \in Deliveries :
        wipeAudits[d] = IF d \in ledger /\ EventOf[d].type = "tenant.deprovisioned" THEN 1 ELSE 0

\* The two columns that say whether a workspace may be used agree: a
\* provisioned anchor carries no mark and a deprovisioned one does.
MarkMatchesStatus ==
    \A w \in Workspaces :
        /\ ref[w].status \in {"absent", "provisioned"} => ref[w].wipedAt = NotWiped
        /\ ref[w].status = "deprovisioned" => ref[w].wipedAt # NotWiped

\* No recorded event is newer than the watermark, unless some event of the
\* workspace was committed on a watermark that had moved since it was read.
WatermarkIsNewest ==
    \A w \in Workspaces \ raced :
        \A d \in ledger : EventOf[d].ws = w => EventOf[d].seq <= lastSeq[w]

LifecycleTypes == {"tenant.provisioned", "tenant.deprovisioned"}

\* d is the recorded lifecycle event of w with the highest seq.
NewestLifecycle(w, d) ==
    /\ d \in ledger
    /\ EventOf[d].ws = w
    /\ EventOf[d].type \in LifecycleTypes
    /\ \A e \in ledger : EventOf[e].ws = w /\ EventOf[e].type \in LifecycleTypes
                            => EventOf[e].seq <= EventOf[d].seq

ProvisionedBefore(w, d) ==
    \E e \in ledger : /\ EventOf[e].ws = w
                      /\ EventOf[e].type = "tenant.provisioned"
                      /\ EventOf[e].seq < EventOf[d].seq

\* The anchor says what the newest recorded lifecycle event says, whatever order
\* the deliveries came in: provisioned and unmarked, or marked once it had been
\* provisioned before.  Workspaces hit by a stale check are excepted.
LatestEventDecides ==
    \A w \in Workspaces \ raced : \A d \in ledger :
        NewestLifecycle(w, d) =>
            IF EventOf[d].type = "tenant.provisioned"
            THEN ref[w] = [status |-> "provisioned", wipedAt |-> NotWiped]
            ELSE ProvisionedBefore(w, d) => ref[w].wipedAt # NotWiped

Erased(w) == "business" \in rows[w] /\ "business" \notin rows'[w]

\* What the two properties above and the next one rest on: what a request that is
\* about to commit, a sweep that is under way and an unraced anchor know.
ApplyIsNewer ==
    \A h \in Handlers :
        handler[h].pc = "apply" => handler[h].seen < EventOf[handler[h].d].seq

SweptWasDue ==
    \A s \in Sweepers : \A m \in sweeping[s] : m.wipedAt < clock - Retention

HardDeletedIsMarked ==
    \A w \in Workspaces \ raced :
        ref[w].status = "hard_deleted" => ref[w].wipedAt # NotWiped

ProvisionedIsPresent ==
    \A d \in ledger :
        EventOf[d].type = "tenant.provisioned" => ref[EventOf[d].ws].status # "absent"

\* The inductive invariant.
IInv ==
    /\ TypeOK
    /\ WatermarkNamesLedgerEvent
    /\ WipeAuditPerDelivery
    /\ MarkMatchesStatus
    /\ WatermarkIsNewest
    /\ LatestEventDecides
    /\ ApplyIsNewer
    /\ SweptWasDue
    /\ HardDeletedIsMarked
    /\ ProvisionedIsPresent

\* Every erasure hits a workspace whose mark is older than the retention at that
\* instant, unless the mark changed after the sweep had listed the workspace.
EraseOnlyExpired ==
    [][\A w \in Workspaces : Erased(w) =>
          \/ w \in raced'
          \/ ref[w].wipedAt # NotWiped /\ ref[w].wipedAt < clock - Retention]_vars

\* The same without the exception: the sweep clears the rows of workspaces whose
\* wipe mark is older than the retention, and of no others.
EraseOnlyMarked ==
    [][\A w \in Workspaces : Erased(w) =>
          ref[w].wipedAt # NotWiped /\ ref[w].wipedAt < clock - Retention]_vars

\* A workspace past its retention is hard deleted in the end, unless it is
\* provisioned again, in spite of restarts in the middle of a sweep.
ExpiredIsErased ==
    \A w \in Workspaces :
        (ref[w].status = "deprovisioned" /\ ref[w].wipedAt < clock - Retention)
            ~> (ref[w].status # "deprovisioned")

\* Once a subscription change is recorded, the entitlement cached before it is
\* evicted, in spite of lost answers, repeats and restarts.
SubscriptionChangeEvicts ==
    \A d \in Deliveries :
        (d \in ledger /\ EventOf[d].type = "subscription_changed") ~> (d \in evicted)
=============================================================================
