----------------------------- MODULE FirstEntry -----------------------------
(***************************************************************************)
(* The first-entry seed of one workspace (lib/seed-fill.ts), called by the *)
(* layout on every entry ((app)/layout.tsx) and never blocking it: every   *)
(* statement and every answer may fail, and the process may die.           *)
(***************************************************************************)
EXTENDS Integers, FiniteSets, Sequences

CONSTANTS
    Entries,      \* entries under way
    MaxFaults,    \* bound: failed statements and crashes
    NoAnchor      \* no WorkspaceRef row

VARIABLES
    autofill, \* ARDA_SEED_AUTOFILL; it does not change
    anchor,   \* seedStatus of the WorkspaceRef row ("null" when it has none)
    own,      \* a dataset with a code of the template has been created by the workspace
    copies,   \* committed clones of the template
    entry,    \* what each entry is doing
    audited,  \* the seed rows of the audit trail
    faults    \* failed statements and crashes, by what they hit

entryVars == <<autofill, anchor, own, copies, entry, audited, faults>>

Holders == {e \in Entries : entry[e] \in {"clone", "mark", "audit", "release", "audit_failure"}}
Step(e, to) == entry' = [entry EXCEPT ![e] = to]
Unless(e, to, what) ==
    /\ Len(faults) < MaxFaults /\ faults' = Append(faults, what)
    /\ Step(e, to)
    /\ UNCHANGED <<autofill, anchor, own, copies, audited>>
Calm == UNCHANGED <<autofill, own, faults>>
Unheard(e, to, what) ==
    /\ Len(faults) < MaxFaults /\ faults' = Append(faults, what)
    /\ Step(e, to) /\ UNCHANGED <<autofill, own>>

FirstEntryInit ==
    /\ autofill \in BOOLEAN /\ anchor \in {NoAnchor, "null", "pending"} /\ own = FALSE /\ copies = 0
    /\ entry = [e \in Entries |-> "idle"] /\ audited = {} /\ faults = <<>>

\* findUnique; only a pending workspace is seeded.
FindAnchor(e) ==
    /\ entry[e] = "idle"
    /\ anchor \in {NoAnchor, "pending"}
    /\ Step(e, IF anchor = NoAnchor THEN "create" ELSE "lease")
    /\ UNCHANGED <<anchor, copies, audited>> /\ Calm

\* Without autofill the anchor is recorded and never seeded here.  If another entry or the
\* webhook was faster, the insert throws and the entry goes on without a seed.
CreateAnchor(e) ==
    /\ entry[e] = "create"
    /\ IF anchor # NoAnchor THEN Step(e, "idle") /\ UNCHANGED anchor
       ELSE IF autofill THEN Step(e, "lease") /\ anchor' = "pending"
       ELSE Step(e, "idle") /\ anchor' = "null"
    /\ UNCHANGED <<copies, audited>> /\ Calm

\* Exactly one caller flips pending to seeding.
LeaseTaken(e) ==              \* mutant: the update does not ask for pending
    /\ entry[e] = "lease"
    /\ Step(e, "clone") /\ anchor' = "seeding"
    /\ UNCHANGED <<copies, audited>> /\ Calm
Lease(e) ==
    /\ entry[e] = "lease"
    /\ IF anchor = "pending" THEN Step(e, "clone") /\ anchor' = "seeding"
       ELSE Step(e, "idle") /\ UNCHANGED anchor
    /\ UNCHANGED <<copies, audited>> /\ Calm

\* One transaction; a code that the workspace has used already makes it throw.
CloneManifest(e) ==
    /\ entry[e] = "clone"
    /\ IF own \/ copies > 0 THEN Step(e, "release") /\ UNCHANGED copies
       ELSE Step(e, "mark") /\ copies' = copies + 1
    /\ UNCHANGED <<anchor, audited>> /\ Calm
MarkDone(e) ==
    /\ entry[e] = "mark" /\ Step(e, "audit") /\ anchor' = "done"
    /\ UNCHANGED <<copies, audited>> /\ Calm
AuditFill(e) ==
    /\ entry[e] = "audit" /\ Step(e, "idle") /\ audited' = audited \cup {"seed.fill"}
    /\ UNCHANGED <<anchor, copies>> /\ Calm

\* The catch: the lease becomes "failed", and the failure is audited.
Release(e) ==
    /\ entry[e] = "release" /\ Step(e, "audit_failure") /\ anchor' = "failed"
    /\ UNCHANGED <<copies, audited>> /\ Calm
AuditFailure(e) ==
    /\ entry[e] = "audit_failure" /\ Step(e, "idle") /\ audited' = audited \cup {"seed.fail"}
    /\ UNCHANGED <<anchor, copies>> /\ Calm

\* A statement fails, and has written nothing.
Fault(e) ==
    \/ entry[e] \in {"create", "lease"} /\ Unless(e, "idle", "early")
    \/ entry[e] = "clone" /\ Unless(e, "release", "clone")
    \/ entry[e] \in {"mark", "audit"} /\ Unless(e, "release", "late")
    \/ entry[e] = "release" /\ Unless(e, "audit_failure", "release")
    \/ entry[e] = "audit_failure" /\ Unless(e, "idle", "unaudited")

\* A statement has committed, but its answer is lost: the entry takes it for failed.
AnswerLost(e) ==
    \/ /\ entry[e] = "create" /\ anchor = NoAnchor /\ Unheard(e, "idle", "early")
       /\ anchor' = (IF autofill THEN "pending" ELSE "null") /\ UNCHANGED <<copies, audited>>
    \/ /\ entry[e] = "lease" /\ anchor = "pending" /\ Unheard(e, "idle", "lease")
       /\ anchor' = "seeding" /\ UNCHANGED <<copies, audited>>
    \/ /\ entry[e] = "clone" /\ ~own /\ copies = 0 /\ Unheard(e, "release", "late")
       /\ copies' = 1 /\ UNCHANGED <<anchor, audited>>
    \/ /\ entry[e] = "mark" /\ Unheard(e, "release", "late")
       /\ anchor' = "done" /\ UNCHANGED <<copies, audited>>
    \/ /\ entry[e] = "audit" /\ Unheard(e, "release", "audit")
       /\ audited' = audited \cup {"seed.fill"} /\ UNCHANGED <<anchor, copies>>
    \/ /\ entry[e] = "release" /\ Unheard(e, "audit_failure", "unaudited")
       /\ anchor' = "failed" /\ UNCHANGED <<copies, audited>>
    \/ /\ entry[e] = "audit_failure" /\ Unheard(e, "idle", "unaudited")
       /\ audited' = audited \cup {"seed.fail"} /\ UNCHANGED <<anchor, copies>>

\* The process dies with all its entries.
Crash ==
    /\ \E e \in Entries : entry[e] # "idle"
    /\ Len(faults) < MaxFaults
    /\ faults' = Append(faults, IF Holders = {} THEN "early" ELSE "crash")
    /\ entry' = [e \in Entries |-> "idle"]
    /\ UNCHANGED <<autofill, anchor, own, copies, audited>>

\* The webhook's first event, and a dataset created over the write API or by a sync.
WebhookAnchors ==
    /\ anchor = NoAnchor /\ anchor' = "null"
    /\ UNCHANGED <<entry, copies, audited>> /\ Calm
OwnDataset ==
    /\ ~own /\ copies = 0 /\ own' = TRUE
    /\ UNCHANGED <<autofill, anchor, copies, entry, audited, faults>>

FirstEntryNext ==
    \/ \E e \in Entries : \/ FindAnchor(e) \/ CreateAnchor(e) \/ Lease(e) \/ CloneManifest(e)
                          \/ MarkDone(e) \/ AuditFill(e) \/ Release(e) \/ AuditFailure(e)
                          \/ Fault(e) \/ AnswerLost(e)
    \/ Crash \/ WebhookAnchors \/ OwnDataset
FirstEntrySpec == FirstEntryInit /\ [][FirstEntryNext]_entryVars

-----------------------------------------------------------------------------
(* Properties. *)

FirstEntryTypeOK ==
    /\ anchor \in {NoAnchor, "null", "pending", "seeding", "done", "failed"}
    /\ copies \in Nat /\ Cardinality(Holders) <= 1
    /\ audited \subseteq {"seed.fill", "seed.fail"}

Hit(what) == \E i \in DOMAIN faults : faults[i] = what

\* The seed status tells the truth: the template is cloned at most once; "done" means that it
\* is there, and "failed" that it is not, unless after the clone had been committed a statement
\* failed or an answer was lost (the audit row is written in the same try); a fill is audited
\* only if it is done, unless just the answer to that was lost; and "seeding" means that an
\* entry is at it, unless the process died, the release itself failed or the answer to the
\* lease was lost, which leaves it for ever.
SeedStatusIsTrue ==
    /\ copies <= 1
    /\ anchor = "done" => copies = 1
    /\ anchor = "failed" /\ copies = 1 => Hit("late") \/ Hit("audit")
    /\ anchor = "seeding" /\ Holders = {} => Hit("crash") \/ Hit("release") \/ Hit("lease")
    /\ "seed.fill" \in audited => anchor = "done" \/ Hit("audit")
=============================================================================
