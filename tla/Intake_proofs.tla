--------------------------- MODULE Intake_proofs ---------------------------
(***************************************************************************)
(* Proofs about how rows come into a workspace, for all entries, writers,  *)
(* sources and syncs: the first entry seeds it once, and the seed status   *)
(* tells whether it did; a sync keeps to the rows of its source; the       *)
(* storage gauge heals; and the plan's caps hold, but for what was created *)
(* on a count that had moved.                                              *)
(***************************************************************************)
EXTENDS Workspace, FiniteSetTheorems, SequenceTheorems, TLAPS

Holding == {"clone", "mark", "audit", "release", "audit_failure"}
Steps == {"idle", "create", "lease"} \cup Holding
Unseeded == {Gone, "null", "pending"}
Seeded == {"seeding", "done", "failed"}
Whats == {"early", "clone", "late", "release", "unaudited", "crash", "lease", "audit"}

SeedShapes ==
    /\ anchor \in Unseeded \cup Seeded
    /\ copies \in {0, 1}
    /\ entry \in [Entries -> Steps]
    /\ faults \in Seq(Whats)
    /\ audited \subseteq {"seed.fill", "seed.fail"}

\* The lease is exclusive, and is not given before the workspace is pending.
OneHolder == \A e, f \in Entries : entry[e] \in Holding /\ entry[f] \in Holding => e = f
UnseededIsUntouched == anchor \in Unseeded =>
    /\ copies = 0 /\ "seed.fill" \notin audited
    /\ \A e \in Entries : entry[e] \notin Holding

\* What the step of the holder says of the clone and of the status.
HolderTells == \A e \in Entries :
    /\ entry[e] = "clone" => anchor = "seeding" /\ copies = 0
    /\ entry[e] = "mark" => anchor = "seeding" /\ copies = 1
    /\ entry[e] = "audit" => anchor = "done" /\ copies = 1
    /\ entry[e] = "release" => /\ anchor # "failed"
                               /\ copies = 1 => Seed!Hit("late") \/ Seed!Hit("audit")
    /\ entry[e] = "audit_failure" /\ anchor = "seeding" => Seed!Hit("release")
    /\ entry[e] \in Holding => "seed.fill" \notin audited \/ Seed!Hit("audit")

\* What the status says of the clone.
StatusTells ==
    /\ anchor = "done" => copies = 1
    /\ anchor = "failed" /\ copies = 1 => Seed!Hit("late") \/ Seed!Hit("audit")
    /\ anchor = "seeding" /\ (\A e \in Entries : entry[e] \notin Holding) =>
           Seed!Hit("crash") \/ Seed!Hit("release") \/ Seed!Hit("lease")
    /\ "seed.fill" \in audited => anchor = "done" \/ Seed!Hit("audit")

SeedInv == SeedShapes /\ OneHolder /\ UnseededIsUntouched /\ HolderTells /\ StatusTells

-----------------------------------------------------------------------------
(* Faults are only added. *)

LEMMA HitKept == ASSUME UNCHANGED faults, NEW what PROVE Seed!Hit(what)' <=> Seed!Hit(what)
  BY DEF Seed!Hit

LEMMA HitGrows == ASSUME faults \in Seq(Whats), NEW new \in Whats, faults' = Append(faults, new)
                  PROVE  /\ faults' \in Seq(Whats)
                         /\ Seed!Hit("late") \/ new = "late" => Seed!Hit("late")'
                         /\ Seed!Hit("release") \/ new = "release" => Seed!Hit("release")'
                         /\ Seed!Hit("crash") \/ new = "crash" => Seed!Hit("crash")'
                         /\ Seed!Hit("lease") \/ new = "lease" => Seed!Hit("lease")'
                         /\ Seed!Hit("audit") \/ new = "audit" => Seed!Hit("audit")'
<1>1. /\ faults' \in Seq(Whats) /\ Len(faults') = Len(faults) + 1 /\ Len(faults) \in Nat
      /\ faults'[Len(faults) + 1] = new
      /\ \A i \in 1..Len(faults) : faults'[i] = faults[i]
  OBVIOUS
<1>2. DOMAIN faults = 1..Len(faults) /\ DOMAIN faults' = 1..(Len(faults) + 1)
  BY <1>1
<1>3. Len(faults) + 1 \in DOMAIN faults' /\ DOMAIN faults \subseteq DOMAIN faults'
  BY <1>1, <1>2
<1>4. ASSUME NEW what \in Whats, (\E i \in DOMAIN faults : faults[i] = what) \/ new = what
      PROVE  \E i \in DOMAIN faults' : faults'[i] = what
  BY <1>1, <1>2, <1>3, <1>4
<1> QED  BY <1>1, <1>4 DEF Seed!Hit, Whats

-----------------------------------------------------------------------------
LEMMA SeedBegins == Seed!FirstEntryInit => SeedInv
  BY GoneIsNoStatus DEF Seed!FirstEntryInit, SeedInv, SeedShapes, OneHolder, UnseededIsUntouched,
                        HolderTells,
         StatusTells, Steps, Holding, Unseeded, Seeded

LEMMA SeedStutter == SeedInv /\ UNCHANGED Seed!entryVars => SeedInv'
<1>1. ASSUME SeedInv, UNCHANGED Seed!entryVars PROVE SeedInv'
  <2>1. UNCHANGED <<anchor, copies, entry, audited, faults>>
    BY <1>1 DEF Seed!entryVars
  <2> QED  BY <1>1, <2>1, HitKept DEF SeedInv, SeedShapes, OneHolder, UnseededIsUntouched,
                                      HolderTells, StatusTells
<1> QED  BY <1>1

\* Before the lease nothing is known of the clone.
LEMMA FindAnchorStep == ASSUME SeedInv, NEW e \in Entries, Seed!FindAnchor(e) PROVE SeedInv'
<1> USE GoneIsNoStatus DEF SeedInv, SeedShapes, Seed!FindAnchor, Seed!Step, Seed!Calm, Steps,
                           Holding, Unseeded, Seeded
<1>1. SeedShapes' /\ OneHolder'
  BY DEF OneHolder, UnseededIsUntouched, HolderTells
<1>2. UnseededIsUntouched'
  BY DEF UnseededIsUntouched, HolderTells, OneHolder
<1>3. HolderTells'
  BY HitKept DEF UnseededIsUntouched, OneHolder, HolderTells, StatusTells
<1>4. StatusTells'
  BY HitKept DEF UnseededIsUntouched, OneHolder, HolderTells, StatusTells
<1> QED  BY <1>1, <1>2, <1>3, <1>4

LEMMA CreateAnchorStep == ASSUME SeedInv, NEW e \in Entries, Seed!CreateAnchor(e) PROVE SeedInv'
<1> USE GoneIsNoStatus DEF SeedInv, SeedShapes, Seed!CreateAnchor, Seed!Step, Seed!Calm, Steps,
                           Holding, Unseeded, Seeded
<1>1. SeedShapes' /\ OneHolder'
  BY DEF OneHolder, UnseededIsUntouched, HolderTells
<1>2. UnseededIsUntouched'
  BY DEF UnseededIsUntouched, HolderTells, OneHolder
<1>3. HolderTells'
  BY HitKept DEF UnseededIsUntouched, OneHolder, HolderTells, StatusTells
<1>4. StatusTells'
  BY HitKept DEF UnseededIsUntouched, OneHolder, HolderTells, StatusTells
<1> QED  BY <1>1, <1>2, <1>3, <1>4

\* The lease is taken from "pending", so that nobody holds it and nothing has been cloned.
LEMMA LeaseStep == ASSUME SeedInv, NEW e \in Entries, Seed!Lease(e) PROVE SeedInv'
<1> USE GoneIsNoStatus DEF SeedInv, SeedShapes, Seed!Lease, Seed!Step, Seed!Calm, Steps, Holding,
                           Unseeded, Seeded
<1>1. SeedShapes' /\ OneHolder'
  BY DEF OneHolder, UnseededIsUntouched, HolderTells
<1>2. UnseededIsUntouched'
  BY DEF UnseededIsUntouched, HolderTells, OneHolder
<1>3. HolderTells'
  BY HitKept DEF UnseededIsUntouched, OneHolder, HolderTells, StatusTells
<1>4. StatusTells'
  BY HitKept DEF UnseededIsUntouched, OneHolder, HolderTells, StatusTells
<1> QED  BY <1>1, <1>2, <1>3, <1>4

LEMMA CloneManifestStep == ASSUME SeedInv, NEW e \in Entries, Seed!CloneManifest(e) PROVE SeedInv'
<1> USE GoneIsNoStatus DEF SeedInv, SeedShapes, Seed!CloneManifest, Seed!Step, Seed!Calm, Steps,
                           Holding, Unseeded, Seeded
<1>1. SeedShapes' /\ OneHolder'
  BY DEF OneHolder, UnseededIsUntouched, HolderTells
<1>2. UnseededIsUntouched'
  BY DEF UnseededIsUntouched, HolderTells, OneHolder
<1>3. HolderTells'
  BY HitKept DEF UnseededIsUntouched, OneHolder, HolderTells, StatusTells
<1>4. StatusTells'
  BY HitKept DEF UnseededIsUntouched, OneHolder, HolderTells, StatusTells
<1> QED  BY <1>1, <1>2, <1>3, <1>4

LEMMA MarkDoneStep == ASSUME SeedInv, NEW e \in Entries, Seed!MarkDone(e) PROVE SeedInv'
<1> USE GoneIsNoStatus DEF SeedInv, SeedShapes, Seed!MarkDone, Seed!Step, Seed!Calm, Steps,
                           Holding, Unseeded, Seeded
<1>1. SeedShapes' /\ OneHolder'
  BY DEF OneHolder, UnseededIsUntouched, HolderTells
<1>2. UnseededIsUntouched'
  BY DEF UnseededIsUntouched, HolderTells, OneHolder
<1>3. HolderTells'
  BY HitKept DEF UnseededIsUntouched, OneHolder, HolderTells, StatusTells
<1>4. StatusTells'
  BY HitKept DEF UnseededIsUntouched, OneHolder, HolderTells, StatusTells
<1> QED  BY <1>1, <1>2, <1>3, <1>4

LEMMA AuditFillStep == ASSUME SeedInv, NEW e \in Entries, Seed!AuditFill(e) PROVE SeedInv'
<1> USE GoneIsNoStatus DEF SeedInv, SeedShapes, Seed!AuditFill, Seed!Step, Seed!Calm, Steps,
                           Holding, Unseeded, Seeded
<1>1. SeedShapes' /\ OneHolder'
  BY DEF OneHolder, UnseededIsUntouched, HolderTells
<1>2. UnseededIsUntouched'
  BY DEF UnseededIsUntouched, HolderTells, OneHolder
<1>3. HolderTells'
  BY HitKept DEF UnseededIsUntouched, OneHolder, HolderTells, StatusTells
<1>4. StatusTells'
  BY HitKept DEF UnseededIsUntouched, OneHolder, HolderTells, StatusTells
<1> QED  BY <1>1, <1>2, <1>3, <1>4

LEMMA ReleaseStep == ASSUME SeedInv, NEW e \in Entries, Seed!Release(e) PROVE SeedInv'
<1> USE GoneIsNoStatus DEF SeedInv, SeedShapes, Seed!Release, Seed!Step, Seed!Calm, Steps, Holding,
                           Unseeded, Seeded
<1>1. SeedShapes' /\ OneHolder'
  BY DEF OneHolder, UnseededIsUntouched, HolderTells
<1>2. UnseededIsUntouched'
  BY DEF UnseededIsUntouched, HolderTells, OneHolder
<1>3. HolderTells'
  BY HitKept DEF UnseededIsUntouched, OneHolder, HolderTells, StatusTells
<1>4. StatusTells'
  BY HitKept DEF UnseededIsUntouched, OneHolder, HolderTells, StatusTells
<1> QED  BY <1>1, <1>2, <1>3, <1>4

LEMMA AuditFailureStep == ASSUME SeedInv, NEW e \in Entries, Seed!AuditFailure(e) PROVE SeedInv'
<1> USE GoneIsNoStatus DEF SeedInv, SeedShapes, Seed!AuditFailure, Seed!Step, Seed!Calm, Steps,
                           Holding, Unseeded, Seeded
<1>1. SeedShapes' /\ OneHolder'
  BY DEF OneHolder, UnseededIsUntouched, HolderTells
<1>2. UnseededIsUntouched'
  BY DEF UnseededIsUntouched, HolderTells, OneHolder
<1>3. HolderTells'
  BY HitKept DEF UnseededIsUntouched, OneHolder, HolderTells, StatusTells
<1>4. StatusTells'
  BY HitKept DEF UnseededIsUntouched, OneHolder, HolderTells, StatusTells
<1> QED  BY <1>1, <1>2, <1>3, <1>4

LEMMA WebhookAnchorsStep == ASSUME SeedInv, Seed!WebhookAnchors PROVE SeedInv'
<1> USE GoneIsNoStatus DEF SeedInv, SeedShapes, Seed!WebhookAnchors, Seed!Calm, Steps, Holding,
                           Unseeded, Seeded
<1>1. SeedShapes' /\ OneHolder'
  BY DEF OneHolder, UnseededIsUntouched, HolderTells
<1>2. UnseededIsUntouched'
  BY DEF UnseededIsUntouched, HolderTells, OneHolder
<1>3. HolderTells'
  BY HitKept DEF UnseededIsUntouched, OneHolder, HolderTells, StatusTells
<1>4. StatusTells'
  BY HitKept DEF UnseededIsUntouched, OneHolder, HolderTells, StatusTells
<1> QED  BY <1>1, <1>2, <1>3, <1>4

\* What the step that failed was decides what is known after it.
LEMMA FaultStep == ASSUME SeedInv, NEW e \in Entries, Seed!Fault(e) PROVE SeedInv'
<1> USE DEF SeedInv, SeedShapes, Steps, Holding, Unseeded, Seeded
<1>1. PICK to \in Steps, what \in Whats :
        /\ Seed!Unless(e, to, what)
        /\ \/ entry[e] \in {"create", "lease"} /\ to = "idle"
           \/ entry[e] = "clone" /\ to = "release"
           \/ entry[e] \in {"mark", "audit"} /\ to = "release" /\ what = "late"
           \/ entry[e] = "release" /\ to = "audit_failure" /\ what = "release"
           \/ entry[e] = "audit_failure" /\ to = "idle"
  <2> USE DEF Whats
  <2>1. CASE entry[e] \in {"create", "lease"} /\ Seed!Unless(e, "idle", "early")
    BY <2>1
  <2>2. CASE entry[e] = "clone" /\ Seed!Unless(e, "release", "clone")
    BY <2>2
  <2>3. CASE entry[e] \in {"mark", "audit"} /\ Seed!Unless(e, "release", "late")
    BY <2>3
  <2>4. CASE entry[e] = "release" /\ Seed!Unless(e, "audit_failure", "release")
    BY <2>4
  <2>5. CASE entry[e] = "audit_failure" /\ Seed!Unless(e, "idle", "unaudited")
    BY <2>5
  <2> QED  BY <2>1, <2>2, <2>3, <2>4, <2>5 DEF Seed!Fault
<1>2. /\ entry' = [entry EXCEPT ![e] = to] /\ UNCHANGED <<anchor, copies, audited>>
      /\ faults' = Append(faults, what)
  BY <1>1 DEF Seed!Unless, Seed!Step
<1>3. /\ faults' \in Seq(Whats)
      /\ Seed!Hit("late") \/ what = "late" => Seed!Hit("late")'
      /\ Seed!Hit("release") \/ what = "release" => Seed!Hit("release")'
      /\ Seed!Hit("crash") => Seed!Hit("crash")'
      /\ Seed!Hit("lease") => Seed!Hit("lease")'
      /\ Seed!Hit("audit") => Seed!Hit("audit")'
  BY <1>2, HitGrows
<1>4. SeedShapes' /\ OneHolder'
  BY <1>1, <1>2, <1>3 DEF OneHolder
<1>5. UnseededIsUntouched'
  BY <1>1, <1>2 DEF UnseededIsUntouched
<1>6. HolderTells'
  BY <1>1, <1>2, <1>3 DEF HolderTells, OneHolder
<1>7. StatusTells'
  BY <1>1, <1>2, <1>3 DEF StatusTells, HolderTells, OneHolder
<1> QED  BY <1>4, <1>5, <1>6, <1>7

\* A lost answer leaves the entry at what follows a failure, with the statement's effect.
LEMMA AnswerLostStep == ASSUME SeedInv, NEW e \in Entries, Seed!AnswerLost(e) PROVE SeedInv'
<1> USE GoneIsNoStatus DEF SeedInv, SeedShapes, Steps, Holding, Unseeded, Seeded
<1>1. PICK to \in Steps, what \in Whats :
        /\ Seed!Unheard(e, to, what)
        /\ \/ /\ entry[e] = "create" /\ anchor = Gone /\ to = "idle"
              /\ anchor' \in {"pending", "null"} /\ UNCHANGED <<copies, audited>>
           \/ /\ entry[e] = "lease" /\ anchor = "pending" /\ to = "idle" /\ what = "lease"
              /\ anchor' = "seeding" /\ UNCHANGED <<copies, audited>>
           \/ /\ entry[e] = "clone" /\ to = "release" /\ what = "late"
              /\ copies' = 1 /\ UNCHANGED <<anchor, audited>>
           \/ /\ entry[e] = "mark" /\ to = "release" /\ what = "late"
              /\ anchor' = "done" /\ UNCHANGED <<copies, audited>>
           \/ /\ entry[e] = "audit" /\ to = "release" /\ what = "audit"
              /\ audited' = audited \cup {"seed.fill"} /\ UNCHANGED <<anchor, copies>>
           \/ /\ entry[e] = "release" /\ to = "audit_failure"
              /\ anchor' = "failed" /\ UNCHANGED <<copies, audited>>
           \/ /\ entry[e] = "audit_failure" /\ to = "idle"
              /\ audited' = audited \cup {"seed.fail"} /\ UNCHANGED <<anchor, copies>>
  BY DEF Seed!AnswerLost, Whats
<1>2. /\ entry' = [entry EXCEPT ![e] = to] /\ faults' = Append(faults, what)
  BY <1>1 DEF Seed!Unheard, Seed!Step
<1>3. /\ faults' \in Seq(Whats)
      /\ Seed!Hit("late") \/ what = "late" => Seed!Hit("late")'
      /\ Seed!Hit("release") => Seed!Hit("release")'
      /\ Seed!Hit("crash") => Seed!Hit("crash")'
      /\ Seed!Hit("lease") \/ what = "lease" => Seed!Hit("lease")'
      /\ Seed!Hit("audit") \/ what = "audit" => Seed!Hit("audit")'
  BY <1>2, HitGrows
<1>4. SeedShapes' /\ OneHolder'
  BY <1>1, <1>2, <1>3 DEF OneHolder
<1>5. UnseededIsUntouched'
  BY <1>1, <1>2 DEF UnseededIsUntouched, HolderTells, OneHolder
<1>6. HolderTells'
  BY <1>1, <1>2, <1>3 DEF HolderTells, OneHolder, UnseededIsUntouched, StatusTells
<1>7. StatusTells'
  BY <1>1, <1>2, <1>3 DEF StatusTells, HolderTells, OneHolder, UnseededIsUntouched
<1> QED  BY <1>4, <1>5, <1>6, <1>7

LEMMA EntriesCrashStep == ASSUME SeedInv, Seed!Crash PROVE SeedInv'
<1> USE DEF SeedInv, SeedShapes, Steps, Holding, Unseeded, Seeded
<1> DEFINE what == IF Seed!Holders = {} THEN "early" ELSE "crash"
<1>1. /\ entry' = [e \in Entries |-> "idle"] /\ UNCHANGED <<anchor, copies, audited>>
      /\ faults' = Append(faults, what)
  BY DEF Seed!Crash
<1>2. /\ faults' \in Seq(Whats)
      /\ Seed!Hit("late") => Seed!Hit("late")'
      /\ Seed!Hit("release") => Seed!Hit("release")'
      /\ Seed!Hit("crash") \/ what = "crash" => Seed!Hit("crash")'
      /\ Seed!Hit("lease") => Seed!Hit("lease")'
      /\ Seed!Hit("audit") => Seed!Hit("audit")'
  <2>1. what \in Whats
    BY DEF Whats
  <2> QED  BY <1>1, <2>1, HitGrows
<1>3. Seed!Holders = {} <=> \A e \in Entries : entry[e] \notin Holding
  BY DEF Seed!Holders
<1> HIDE DEF what
<1>4. SeedShapes' /\ OneHolder' /\ UnseededIsUntouched'
  BY <1>1, <1>2 DEF OneHolder, UnseededIsUntouched
<1>5. HolderTells'
  BY <1>1 DEF HolderTells
<1>6. StatusTells'
  BY <1>1, <1>2, <1>3 DEF StatusTells, what
<1> QED  BY <1>4, <1>5, <1>6

LEMMA OwnDatasetStep == ASSUME SeedInv, Seed!OwnDataset PROVE SeedInv'
<1>1. UNCHANGED <<anchor, copies, entry, audited, faults>>
  BY DEF Seed!OwnDataset
<1> QED  BY <1>1, HitKept DEF SeedInv, SeedShapes, OneHolder, UnseededIsUntouched, HolderTells,
                              StatusTells

-----------------------------------------------------------------------------
\* In the firstEntry part, a step of the workspace is one of that part.
LEMMA SeedFrame ==
    ASSUME [WorkspaceNext]_workspaceVars, part' = "firstEntry"
    PROVE  part = "firstEntry" /\ [Seed!FirstEntryNext]_Seed!entryVars
<1> USE DEF Around1, Around2, Around3, Around4
<1>1. CASE FirstEntryRuns
  BY <1>1 DEF FirstEntryRuns
<1>2. CASE UNCHANGED workspaceVars
  BY <1>2 DEF workspaceVars, firstEntryVars, Seed!entryVars
<1>3. ASSUME \/ CatalogRuns \/ PublishingRuns \/ GatewayRuns \/ SourcesRun \/ AdmissionRuns
             \/ ReadsRun \/ AccessRuns \/ ScreensRun \/ ApprovalsRun
      PROVE  FALSE
  BY <1>3 DEF CatalogRuns, PublishingRuns, GatewayRuns, SourcesRun, AdmissionRuns,
              ReadsRun, AccessRuns, ScreensRun, ApprovalsRun
<1> QED  BY <1>1, <1>2, <1>3 DEF WorkspaceNext

\* The invariant of the first entry: the lease is exclusive, and its holder's step and the
\* status both tell whether the template has been cloned (lib/seed-fill.ts).
THEOREM FirstEntryInductive == WorkspaceSpec => [](part = "firstEntry" => SeedInv)
<1>1. WorkspaceInit => (part = "firstEntry" => SeedInv)
  BY SeedBegins DEF WorkspaceInit, FirstEntryBegins
<1>2. (part = "firstEntry" => SeedInv) /\ [WorkspaceNext]_workspaceVars
      => (part = "firstEntry" => SeedInv)'
  <2> SUFFICES ASSUME SeedInv, [Seed!FirstEntryNext]_Seed!entryVars PROVE SeedInv'
    BY SeedFrame
  <2> QED  BY SeedStutter, FindAnchorStep, CreateAnchorStep, LeaseStep, CloneManifestStep,
              MarkDoneStep, AuditFillStep, ReleaseStep, AuditFailureStep, FaultStep, AnswerLostStep,
              EntriesCrashStep, WebhookAnchorsStep, OwnDatasetStep
           DEF Seed!FirstEntryNext
<1> QED  BY <1>1, <1>2, PTL DEF WorkspaceSpec

\* Types, and that the lease has one holder at most ("exactly one caller flips pending",
\* lib/seed-fill.ts:171).
THEOREM FirstEntryTypes == WorkspaceSpec => [](part = "firstEntry" => Seed!FirstEntryTypeOK)
<1>1. ASSUME SeedInv PROVE Seed!FirstEntryTypeOK
  <2>1. Cardinality(Seed!Holders) <= 1
    <3>1. CASE Seed!Holders = {}
      BY <3>1, FS_EmptySet
    <3>2. CASE Seed!Holders # {}
      <4>1. PICK e : Seed!Holders = {e}
        BY <1>1, <3>2 DEF SeedInv, OneHolder, Seed!Holders, Holding
      <4>2. Cardinality(Seed!Holders) = 1
        BY <4>1, FS_Singleton, Zenon
      <4> QED  BY <4>2
    <3> QED  BY <3>1, <3>2
  <2>2. Seed!Cardinality(Seed!Holders) = Cardinality(Seed!Holders)
    BY DEF Seed!Cardinality, Cardinality
  <2> QED  BY <1>1, <2>1, <2>2 DEF SeedInv, SeedShapes, Seed!FirstEntryTypeOK, Unseeded, Seeded
<1> QED  BY <1>1, FirstEntryInductive, PTL

\* The template is cloned once at most, and the seed status is true of it: "done", "failed" and
\* "seeding" mean what they say, but for the named faults (lib/seed-fill.ts:173).
THEOREM SeedStatusTheorem == WorkspaceSpec => []SeedStatusIsTrue
<1>1. ASSUME part = "firstEntry" => SeedInv PROVE SeedStatusIsTrue
  <2>1. Seed!Holders = {} => \A e \in Entries : entry[e] \notin Holding
    BY DEF Seed!Holders, Holding
  <2> QED  BY <1>1, <2>1 DEF SeedInv, SeedShapes, StatusTells, SeedStatusIsTrue, Seed!SeedStatusIsTrue
<1> QED  BY <1>1, FirstEntryInductive, PTL

-----------------------------------------------------------------------------
(* The sources: what a sync has planned, and what is in its way. *)

Listing == [id: SourceIds, name: Names]
SourceRow == [name: Names, status: {"connected", "disconnected"}, held: BOOLEAN]
DatasetRow == [src: SourceIds \cup {"orphan", "api"}, size: Bytes]
AtSource == {"pull", "commit", "catch"}
SyncRow == [pc: AtSource, id: SourceIds, name: Names, left: Seq(Listing), create: SUBSET Objects,
            update: SUBSET Src!DatasetCodes, moved: BOOLEAN, held: BOOLEAN]

\* What a sync is doing; only the job has more than one source, and only the job aborts.
IsSync(q, a) ==
    \/ q = Src!Idle \/ q = [pc |-> "report"] \/ q = [pc |-> "stamp", value |-> q.value]
    \/ a = Job /\ q = [pc |-> "aborted"]
    \/ q \in SyncRow /\ (a # Job => q.left = <<>>) /\ (q.pc # "catch" => ~q.held)
SourceShapes ==
    /\ scenario \in Scenarios
    /\ source \in [SourceIds -> SourceRow \cup {Gone}]
    /\ copied \in [Src!DatasetCodes -> DatasetRow \cup {Gone}]
    /\ sync = [a \in Src!Actors |-> sync[a]] /\ \A a \in Src!Actors : IsSync(sync[a], a)

\* The sources that a sync has before it; what it has read of their names holds while they are there.
Held(q) == IF q.pc \in AtSource THEN {q.id} \cup {q.left[i].id : i \in DOMAIN q.left} ELSE {}
NamesHold(q) == q.pc \in AtSource =>
    /\ q.id \in Src!Here => q.name = source[q.id].name
    /\ \A i \in DOMAIN q.left : q.left[i].id \in Src!Here => q.left[i].name = source[q.left[i].id].name

\* A plan updates what its source has, and creates nothing that its source has, unless another
\* sync of the source has committed since.
PlanHolds(q) == q.pc = "commit" =>
    /\ q.create \subseteq scenario.objects
    /\ q.update \subseteq Src!Rows
    /\ q.id \in Src!Here => \A c \in q.update : copied[c].src = q.id
    /\ ~q.moved => \A o \in q.create : Src!datasetCode(q.name, o) \in Src!Rows =>
                       copied[Src!datasetCode(q.name, o)].src # q.id
\* What only the rows made fail is obstructed.
CatchHolds(q) == q.pc = "catch" /\ q.held /\ q.id \in Src!Here => Src!Obstructed(q.id)
SyncsHold == \A a \in Src!Actors : NamesHold(sync[a]) /\ PlanHolds(sync[a]) /\ CatchHolds(sync[a])
HeldAreObstructed == \A s \in Src!Here : source[s].held => Src!Obstructed(s)

RefreshInv == SourceShapes /\ IsFiniteSet(Src!Here) /\ SyncsHold /\ HeldAreObstructed

LEMMA HeldByIsHeld == ASSUME NEW a \in Src!Actors PROVE Src!HeldBy(a) = Held(sync[a])
  BY DEF Src!HeldBy, Held, AtSource, Src!Busy, Src!ToSet

LEMMA SourcesBeginWell == Src!SourcesInit => RefreshInv
<1> SUFFICES ASSUME Src!SourcesInit PROVE RefreshInv
  OBVIOUS
<1>1. /\ scenario \in Scenarios /\ source = [s \in SourceIds |-> Gone]
      /\ copied = [c \in Src!DatasetCodes |-> Gone]
      /\ sync = [a \in Src!Actors |-> Src!Idle]
  BY DEF Src!SourcesInit
<1>2. SourceShapes
  BY <1>1 DEF SourceShapes, IsSync
<1>3. \A a \in Src!Actors : sync[a].pc = "idle"
  BY <1>1 DEF Src!Idle
<1>4. SyncsHold
  BY <1>3 DEF SyncsHold, NamesHold, PlanHolds, CatchHolds, AtSource
<1>5. Src!Here = {}
  BY <1>1 DEF Src!Here
<1> QED  BY <1>2, <1>4, <1>5, FS_EmptySet DEF RefreshInv, HeldAreObstructed

\* What obstructs a source stays: no dataset goes, and none becomes the source's own later.
LEMMA ObstructionStays ==
    ASSUME NEW s \in SourceIds, source'[s].name = source[s].name, scenario' = scenario,
           Src!Rows \subseteq Src!Rows',
           \A c \in Src!Rows : copied'[c].src \in {copied[c].src, "orphan"},
           Src!Obstructed(s)
    PROVE  Src!Obstructed(s)'
<1>1. s # "orphan"
  BY SourcesAssumption
<1>2. CASE \E o, p \in scenario.objects : o # p /\ Lower(o) = Lower(p)
  BY <1>2 DEF Src!Obstructed
<1>3. ASSUME NEW o \in scenario.objects, Src!datasetCode(source[s].name, o) \in Src!Rows,
             copied[Src!datasetCode(source[s].name, o)].src # s
      PROVE  Src!Obstructed(s)'
  <2>1. PICK c \in Src!Rows : c = Src!datasetCode(source[s].name, o) /\ copied[c].src # s
    BY <1>3
  <2>2. c \in Src!Rows' /\ copied'[c].src # s /\ c = Src!datasetCode(source'[s].name, o)
    BY <1>1, <2>1
  <2> QED  BY <2>2 DEF Src!Obstructed
<1> QED  BY <1>2, <1>3 DEF Src!Obstructed

\* A sync goes on, and marks its source at most.
LEMMA SyncGoesOn ==
    ASSUME RefreshInv, UNCHANGED <<scenario, copied>>, NEW a \in Src!Actors, NEW new,
           sync' = [sync EXCEPT ![a] = new], IsSync(new, a),
           NamesHold(new), PlanHolds(new), CatchHolds(new),
           source' \in [SourceIds -> SourceRow \cup {Gone}], Src!Here' = Src!Here,
           \A s \in Src!Here : /\ source'[s].name = source[s].name
                               /\ source'[s].held => source[s].held \/ Src!Obstructed(s)
    PROVE  RefreshInv'
<1>1. /\ sync'[a] = new /\ \A b \in Src!Actors \ {a} : sync'[b] = sync[b]
      /\ sync' = [b \in Src!Actors |-> sync'[b]]
  BY DEF RefreshInv, SourceShapes
<1>2. SourceShapes'
  BY <1>1 DEF RefreshInv, SourceShapes, IsSync
<1>3. Src!Rows' = Src!Rows
  BY DEF Src!Rows
<1>4. \A s \in Src!Here : Src!Obstructed(s) => Src!Obstructed(s)'
  BY <1>3, ObstructionStays DEF Src!Here
<1>5. ASSUME NEW q, NamesHold(q), PlanHolds(q), CatchHolds(q)
      PROVE  NamesHold(q)' /\ PlanHolds(q)' /\ CatchHolds(q)'
  <2>1. NamesHold(q)'
    BY <1>5 DEF NamesHold
  <2>2. PlanHolds(q)'
    BY <1>3, <1>5 DEF PlanHolds
  <2>3. CatchHolds(q)'
    BY <1>4, <1>5 DEF CatchHolds
  <2> QED  BY <2>1, <2>2, <2>3
<1>6. SyncsHold'
  <2>1. ASSUME NEW b \in Src!Actors PROVE NamesHold(sync'[b]) /\ PlanHolds(sync'[b]) /\ CatchHolds(sync'[b])
    BY <1>1 DEF RefreshInv, SyncsHold
  <2>2. ASSUME NEW b \in Src!Actors PROVE (NamesHold(sync[b]) /\ PlanHolds(sync[b]) /\ CatchHolds(sync[b]))'
    <3>1. PICK q : q = sync'[b] /\ NamesHold(q) /\ PlanHolds(q) /\ CatchHolds(q)
      BY <2>1
    <3>2. NamesHold(q)' /\ PlanHolds(q)' /\ CatchHolds(q)'
      BY <1>5, <3>1
    <3> QED  BY <3>1, <3>2 DEF NamesHold, PlanHolds, CatchHolds
  <2> QED  BY <2>2 DEF SyncsHold
<1>7. HeldAreObstructed'
  BY <1>4 DEF RefreshInv, HeldAreObstructed
<1> QED  BY <1>2, <1>6, <1>7 DEF RefreshInv

\* What a sync does next when it is through with a source.
LEMMA NextIsSync ==
    ASSUME RefreshInv, NEW a \in Src!Actors, sync[a].pc \in AtSource,
           NEW ended \in {Src!Idle, [pc |-> "report"]}
    PROVE  /\ IsSync(Src!NextSource(a, ended), a) /\ Held(Src!NextSource(a, ended)) \subseteq Held(sync[a])
           /\ Src!NextSource(a, ended).pc \in {"pull", "idle", "report"}
           /\ Src!NextSource(a, ended).pc = "pull" => a = Job
           /\ NamesHold(Src!NextSource(a, ended))
<1>1. sync[a] \in SyncRow /\ (a # Job => sync[a].left = <<>>)
  BY DEF RefreshInv, SourceShapes, IsSync, Src!Idle, AtSource
<1>2. CASE sync[a].left = <<>>
  BY <1>2 DEF Src!NextSource, IsSync, Src!Idle, Held, NamesHold, AtSource
<1>3. CASE sync[a].left # <<>>
  <2> DEFINE left == sync[a].left
             new == Src!SyncOf(Head(left), Tail(left))
  <2>1. /\ left \in Seq(Listing) /\ Head(left) \in Listing /\ Tail(left) \in Seq(Listing)
        /\ Head(left) = left[1] /\ 1 \in DOMAIN left
        /\ \A i \in DOMAIN Tail(left) : i + 1 \in DOMAIN left /\ Tail(left)[i] = left[i + 1]
    BY <1>1, <1>3 DEF SyncRow
  <2>2. new \in SyncRow /\ new.pc = "pull" /\ ~new.held
    BY <2>1 DEF Src!SyncOf, SyncRow, Listing, AtSource
  <2>3. new.id = Head(left).id /\ new.left = Tail(left) /\ new.name = Head(left).name
    BY DEF Src!SyncOf
  <2>4. NamesHold(sync[a])
    BY DEF RefreshInv, SyncsHold
  <2> HIDE DEF new, left
  <2>5. Held(new) \subseteq Held(sync[a])
    <3>1. Held(new) = {new.id} \cup {new.left[i].id : i \in DOMAIN new.left}
      BY <2>2 DEF Held, AtSource
    <3> QED  BY <2>1, <2>3, <3>1 DEF Held, left
  <2>6. NamesHold(new)
    <3>1. \A i \in DOMAIN left : left[i].id \in Src!Here => left[i].name = source[left[i].id].name
      BY <2>4 DEF NamesHold, left
    <3> QED  BY <2>1, <2>3, <3>1 DEF NamesHold
  <2>7. Src!NextSource(a, ended) = new /\ a = Job
    BY <1>1, <1>3 DEF Src!NextSource, new, left
  <2> QED  BY <2>2, <2>5, <2>6, <2>7 DEF IsSync
<1> QED  BY <1>2, <1>3

\* Objects that make fewer codes than they are: two of them make the same.
LEMMA ClashIsOfTwo ==
    ASSUME NEW a \in Src!Actors, sync[a].create \subseteq Objects, Src!Clash(a)
    PROVE  \E o, p \in sync[a].create :
               o # p /\ Src!datasetCode(sync[a].name, o) = Src!datasetCode(sync[a].name, p)
<1> DEFINE S == sync[a].create
           T == Src!Creates(a)
           f == [o \in S |-> Src!datasetCode(sync[a].name, o)]
<1> SUFFICES ASSUME \A o, p \in S : f[o] = f[p] => o = p PROVE FALSE
  OBVIOUS
<1>1. IsFiniteSet(S)
  BY FS_Subset, SourcesAssumption
<1>2. f \in [S -> T] /\ \A c \in T : \E o \in S : f[o] = c
  BY DEF Src!Creates
<1>3. f \in Surjection(S, T) /\ f \in Injection(S, T)
  <2>1. \A o, p \in S : f[o] = f[p] => o = p
    OBVIOUS
  <2> HIDE DEF f, S, T
  <2> QED  BY <1>2, <2>1 DEF Surjection, Injection, IsInjective
<1>4. Cardinality(T) = Cardinality(S) /\ Cardinality(S) \in Nat
  BY <1>1, <1>3, FS_Surjection, FS_CardinalityType
<1>5. Src!Cardinality(T) = Cardinality(T) /\ Src!Cardinality(S) = Cardinality(S)
  BY DEF Src!Cardinality, Cardinality
<1> QED  BY <1>4, <1>5 DEF Src!Clash

\* The steps of a sync that leave the sources alone.
LEMMA SyncStep ==
    ASSUME RefreshInv, NEW a \in Src!Actors,
           \/ Src!SyncThrows(a) \/ Src!CatchThrows(a) \/ Src!ReadSizes(a) \/ Src!SendReport(a)
    PROVE  RefreshInv'
<1>1. /\ UNCHANGED <<scenario, source, copied>> /\ Src!Here' = Src!Here
      /\ source' \in [SourceIds -> SourceRow \cup {Gone}]
  <2>1. UNCHANGED <<scenario, source, copied>>
    BY DEF Src!SyncThrows, Src!CatchThrows, Src!ReadSizes, Src!SendReport, Src!gaugeVars
  <2> QED  BY <2>1 DEF Src!Here, RefreshInv, SourceShapes
<1>2. ASSUME NEW new, sync' = [sync EXCEPT ![a] = new], IsSync(new, a),
             NamesHold(new), PlanHolds(new), CatchHolds(new)
      PROVE  RefreshInv'
  BY <1>1, <1>2, SyncGoesOn
<1>3. ASSUME NEW new, new \in {Src!Idle, [pc |-> "stamp", value |-> Src!Sizes]}
      PROVE  IsSync(new, a) /\ NamesHold(new) /\ PlanHolds(new) /\ CatchHolds(new)
  BY <1>3 DEF IsSync, Src!Idle, NamesHold, PlanHolds, CatchHolds, AtSource
<1>4. CASE Src!ReadSizes(a) \/ Src!SendReport(a)
  <2>1. \E new \in {Src!Idle, [pc |-> "stamp", value |-> Src!Sizes]} : sync' = [sync EXCEPT ![a] = new]
    BY <1>4 DEF Src!ReadSizes, Src!SendReport, Src!gaugeVars
  <2> QED  BY <1>2, <1>3, <2>1
<1>5. CASE Src!SyncThrows(a)
  <2>1. sync[a].pc = "commit" /\ sync[a] \in SyncRow
    BY <1>5 DEF Src!SyncThrows, RefreshInv, SourceShapes, IsSync, Src!Idle
  <2>2. CASE a # Job
    BY <1>2, <1>3, <1>5, <2>2 DEF Src!SyncThrows
  <2>3. CASE a = Job
    <3> DEFINE held == ~Src!Commits(a) /\ ~sync[a].moved
               new == [sync[a] EXCEPT !.pc = "catch", !.held = held]
    <3>1. NamesHold(sync[a]) /\ PlanHolds(sync[a])
      BY DEF RefreshInv, SyncsHold
    <3>2. /\ new \in SyncRow /\ new.pc = "catch" /\ new.id = sync[a].id /\ new.left = sync[a].left
          /\ new.name = sync[a].name /\ new.held = held
      BY <2>1 DEF SyncRow, AtSource
    <3>3. ASSUME held, sync[a].id \in Src!Here PROVE Src!Obstructed(sync[a].id)
      <4>1. sync[a].name = source[sync[a].id].name
        BY <2>1, <3>1, <3>3 DEF NamesHold, AtSource
      <4>2. CASE Src!Clash(a)
        <5>1. \E o, p \in sync[a].create : o # p /\ Src!datasetCode(sync[a].name, o) = Src!datasetCode(sync[a].name, p)
          BY <2>1, <4>2, ClashIsOfTwo DEF SyncRow
        <5>2. \A o, p : Src!datasetCode(sync[a].name, o) = Src!datasetCode(sync[a].name, p) => Lower(o) = Lower(p)
          BY DEF Src!datasetCode
        <5> QED  BY <2>1, <3>1, <5>1, <5>2 DEF PlanHolds, Src!Obstructed
      <4>3. CASE ~Src!Clash(a)
        <5>1. PICK o \in sync[a].create : Src!datasetCode(sync[a].name, o) \in Src!Rows
          BY <3>3, <4>3 DEF Src!Commits, Src!Taken, Src!Creates
        <5>2. copied[Src!datasetCode(sync[a].name, o)].src # sync[a].id /\ o \in scenario.objects
          BY <2>1, <3>1, <3>3, <5>1 DEF PlanHolds
        <5> QED  BY <4>1, <5>1, <5>2 DEF Src!Obstructed
      <4> QED  BY <4>2, <4>3
    <3>4. sync' = [sync EXCEPT ![a] = new]
      BY <1>5, <2>3 DEF Src!SyncThrows
    <3> HIDE DEF new, held
    <3>5. IsSync(new, a) /\ PlanHolds(new) /\ CatchHolds(new)
      BY <2>3, <3>2, <3>3 DEF IsSync, PlanHolds, CatchHolds
    <3>6. NamesHold(new)
      BY <2>1, <3>1, <3>2 DEF NamesHold, AtSource
    <3> QED  BY <1>2, <3>4, <3>5, <3>6
  <2> QED  BY <2>2, <2>3
<1>6. CASE Src!CatchThrows(a)
  <2>1. CASE a # Job
    BY <1>2, <1>3, <1>6, <2>1 DEF Src!CatchThrows
  <2>2. CASE a = Job
    <3>1. sync' = [sync EXCEPT ![a] = [pc |-> "aborted"]]
      BY <1>6, <2>2 DEF Src!CatchThrows
    <3>2. LET new == [pc |-> "aborted"] IN
          IsSync(new, a) /\ NamesHold(new) /\ PlanHolds(new) /\ CatchHolds(new)
      BY <2>2 DEF IsSync, NamesHold, PlanHolds, CatchHolds, AtSource
    <3> QED  BY <1>2, <3>1, <3>2
  <2> QED  BY <2>1, <2>2
<1> QED  BY <1>4, <1>5, <1>6

\* The connector answers, and the sync plans; or it fails.
LEMMA PullStep == ASSUME RefreshInv, NEW a \in Src!Actors, Src!Pull(a) PROVE RefreshInv'
<1> DEFINE q == sync[a]
<1>1. /\ UNCHANGED <<scenario, source, copied>> /\ Src!Here' = Src!Here
      /\ source' \in [SourceIds -> SourceRow \cup {Gone}]
      /\ q.pc = "pull" /\ q \in SyncRow /\ ~q.held /\ (a # Job => q.left = <<>>) /\ NamesHold(q)
  <2>1. IsSync(q, a) /\ q.pc = "pull" /\ NamesHold(q)
    BY DEF Src!Pull, Src!gaugeVars, RefreshInv, SourceShapes, SyncsHold
  <2>2. q \in SyncRow /\ ~q.held /\ (a # Job => q.left = <<>>)
    BY <2>1 DEF IsSync, Src!Idle
  <2>3. UNCHANGED <<scenario, source, copied>>
    BY DEF Src!Pull, Src!gaugeVars
  <2> QED  BY <2>1, <2>2, <2>3 DEF Src!Here, RefreshInv, SourceShapes
<1>2. ASSUME NEW new \in SyncRow, sync' = [sync EXCEPT ![a] = new], ~new.held,
             new.id = q.id, new.left = q.left, new.name = q.name, PlanHolds(new)
      PROVE  RefreshInv'
  <2>1. IsSync(new, a) /\ CatchHolds(new) /\ NamesHold(new)
    BY <1>1, <1>2 DEF IsSync, CatchHolds, NamesHold, AtSource
  <2> QED  BY <1>1, <1>2, <2>1, SyncGoesOn
<1>3. CASE sync' = [sync EXCEPT ![a].pc = "catch"]
  <2> DEFINE new == [q EXCEPT !.pc = "catch"]
  <2>1. /\ new \in SyncRow /\ new.held = q.held /\ new.id = q.id /\ new.left = q.left
        /\ new.name = q.name /\ new.pc = "catch"
    BY <1>1 DEF SyncRow, AtSource
  <2>2. sync' = [sync EXCEPT ![a] = new]
    BY <1>3 DEF RefreshInv, SourceShapes
  <2> HIDE DEF new
  <2> QED  BY <1>1, <1>2, <2>1, <2>2 DEF PlanHolds
<1>4. ASSUME NEW found \in SUBSET scenario.objects, NEW planned \in Src!planSync(q.id, q.name, found),
             sync' = [sync EXCEPT ![a].pc = "commit", ![a].create = planned.create, ![a].update = planned.update]
      PROVE  RefreshInv'
  <2> DEFINE new == [q EXCEPT !.pc = "commit", !.create = planned.create, !.update = planned.update]
             known == {c \in Src!Rows : copied[c].src = q.id}
  <2>1. found \subseteq Objects /\ found \subseteq scenario.objects
    BY SourcesAssumption DEF RefreshInv, SourceShapes
  <2>2. planned.create \subseteq {o \in found : Src!datasetCode(q.name, o) \notin known}
    BY <1>4 DEF Src!planSync, Src!kSubset
  <2>3. planned.update \subseteq known
    BY <1>4 DEF Src!planSync
  <2>4. known \subseteq Src!Rows /\ Src!Rows \subseteq Src!DatasetCodes
    BY DEF Src!Rows
  <2>5. /\ new \in SyncRow /\ new.pc = "commit" /\ new.id = q.id /\ new.left = q.left
        /\ new.name = q.name /\ new.create = planned.create /\ new.update = planned.update
        /\ ~new.held
    BY <1>1, <2>1, <2>2, <2>3, <2>4 DEF SyncRow, AtSource
  <2>6. sync' = [sync EXCEPT ![a] = new]
    BY <1>4 DEF RefreshInv, SourceShapes
  <2> HIDE DEF new
  <2>7. PlanHolds(new)
    BY <2>1, <2>2, <2>3, <2>4, <2>5 DEF PlanHolds
  <2> QED  BY <1>2, <2>5, <2>6, <2>7
<1> QED  BY <1>3, <1>4 DEF Src!Pull, Src!gaugeVars

\* A sync or a tick begins; a tick that aborted ends.
LEMMA BeginSyncStep ==
    ASSUME RefreshInv, Src!StartJob \/ Src!EndTick \/ \E a \in Syncers : Src!StartSync(a)
    PROVE  RefreshInv'
<1>1. /\ UNCHANGED <<scenario, source, copied>> /\ Src!Here' = Src!Here
      /\ source' \in [SourceIds -> SourceRow \cup {Gone}] /\ Job \in Src!Actors
  BY DEF Src!StartJob, Src!EndTick, Src!StartSync, Src!Here, RefreshInv, SourceShapes, Src!Actors
<1>2. ASSUME NEW s \in Src!Here
      PROVE  Src!Listed(s) \in Listing /\ Src!Listed(s).id = s /\ Src!Listed(s).name = source[s].name
  <2>1. source[s] \in SourceRow /\ s \in SourceIds
    BY DEF Src!Here, RefreshInv, SourceShapes
  <2> QED  BY <2>1 DEF Src!Listed, Listing, SourceRow
<1>3. ASSUME NEW l \in Listing, NEW left \in Seq(Listing)
      PROVE  LET new == Src!SyncOf(l, left) IN
             /\ new \in SyncRow /\ new.pc = "pull" /\ ~new.held
             /\ new.id = l.id /\ new.name = l.name /\ new.left = left
  BY DEF Src!SyncOf, SyncRow, Listing, AtSource
<1>4. ASSUME NEW a \in Src!Actors, NEW new, sync' = [sync EXCEPT ![a] = new], IsSync(new, a),
             new.pc \notin {"commit", "catch"}, NamesHold(new)
      PROVE  RefreshInv'
  <2>1. PlanHolds(new) /\ CatchHolds(new)
    BY <1>4 DEF PlanHolds, CatchHolds
  <2> QED  BY <1>1, <1>4, <2>1, SyncGoesOn
<1>5. CASE Src!EndTick
  <2>1. IsSync(Src!Idle, Job) /\ Src!Idle.pc \notin {"commit", "catch"} /\ NamesHold(Src!Idle)
    BY DEF IsSync, Src!Idle, NamesHold, AtSource
  <2> QED  BY <1>1, <1>4, <1>5, <2>1 DEF Src!EndTick
<1>6. ASSUME NEW a \in Syncers, Src!StartSync(a) PROVE RefreshInv'
  <2>1. PICK s \in Src!Here : sync' = [sync EXCEPT ![a] = Src!SyncOf(Src!Listed(s), <<>>)]
    BY <1>6 DEF Src!StartSync
  <2>2. PICK new : new = Src!SyncOf(Src!Listed(s), <<>>)
    OBVIOUS
  <2>3. /\ new \in SyncRow /\ new.pc = "pull" /\ ~new.held /\ new.left = <<>>
        /\ new.id = s /\ new.name = source[s].name
    <3>1. Src!Listed(s) \in Listing /\ <<>> \in Seq(Listing)
      BY <1>2
    <3>2. /\ new \in SyncRow /\ new.pc = "pull" /\ ~new.held /\ new.left = <<>>
          /\ new.id = Src!Listed(s).id /\ new.name = Src!Listed(s).name
      BY <1>3, <2>2, <3>1
    <3> QED  BY <1>2, <3>2
  <2>4. IsSync(new, a) /\ NamesHold(new) /\ a \in Src!Actors
    BY <2>3 DEF IsSync, NamesHold, Src!Actors
  <2> QED  BY <1>4, <2>1, <2>2, <2>3, <2>4
<1>7. CASE Src!StartJob
  <2>1. PICK due \in Src!SetToSeqs({Src!Listed(s) : s \in Src!Here}) :
          sync' = [sync EXCEPT ![Job] = IF due = <<>> THEN Src!ToReport
                                        ELSE Src!SyncOf(Head(due), Tail(due))]
    BY <1>7 DEF Src!StartJob
  <2>2. due \in Seq({Src!Listed(s) : s \in Src!Here})
    <3> PICK L : L = {Src!Listed(s) : s \in Src!Here}
      OBVIOUS
    <3>1. Src!Cardinality(L) \in Nat
      <4>1. IsFiniteSet(L)
        <5>1. [s \in Src!Here |-> Src!Listed(s)] \in Surjection(Src!Here, L)
          BY DEF Surjection
        <5> QED  BY <5>1, FS_Surjection DEF RefreshInv
      <4>2. Src!Cardinality(L) = Cardinality(L)
        BY DEF Src!Cardinality, Cardinality
      <4> QED  BY <4>1, <4>2, FS_CardinalityType
    <3>2. due \in [1..Src!Cardinality(L) -> L]
      BY <2>1 DEF Src!SetToSeqs
    <3>3. PICK n \in Nat : due \in [1..n -> L]
      BY <3>1, <3>2
    <3>4. due \in Seq(L)
      BY <3>3, SeqDef
    <3> QED  BY <3>4
  <2>3. /\ due \in Seq(Listing)
        /\ \A i \in DOMAIN due : due[i].id \in Src!Here /\ due[i].name = source[due[i].id].name
    BY <1>2, <2>2
  <2>4. CASE due = <<>>
    <3>1. \A q \in {Src!Idle, [pc |-> "report"]} :
              IsSync(q, Job) /\ q.pc \notin {"commit", "catch"} /\ NamesHold(q)
      BY DEF IsSync, Src!Idle, NamesHold, AtSource
    <3>2. PICK new \in {Src!Idle, [pc |-> "report"]} : sync' = [sync EXCEPT ![Job] = new]
      BY <2>1, <2>4 DEF Src!ToReport
    <3> QED  BY <1>1, <1>4, <3>1, <3>2
  <2>5. CASE due # <<>>
    <3>1. /\ Head(due) \in Listing /\ Tail(due) \in Seq(Listing)
          /\ Head(due).name = source[Head(due).id].name
          /\ \A i \in DOMAIN Tail(due) : Tail(due)[i].name = source[Tail(due)[i].id].name
      BY <2>3, <2>5
    <3>2. PICK new : new = Src!SyncOf(Head(due), Tail(due))
      OBVIOUS
    <3>3. /\ new \in SyncRow /\ new.pc = "pull" /\ ~new.held
          /\ new.id = Head(due).id /\ new.name = Head(due).name /\ new.left = Tail(due)
      BY <1>3, <3>1, <3>2
    <3>4. IsSync(new, Job) /\ NamesHold(new)
      BY <3>1, <3>3 DEF IsSync, NamesHold
    <3> QED  BY <1>1, <1>4, <2>1, <2>5, <3>2, <3>3, <3>4
  <2> QED  BY <2>4, <2>5
<1> QED  BY <1>5, <1>6, <1>7

\* A sync marks its source as connected or not, which leaves it there under its name.
LEMMA MarkKeepsSources ==
    ASSUME RefreshInv, NEW s \in Src!Here, NEW st \in {"connected", "disconnected"}, NEW held \in BOOLEAN,
           source' = [source EXCEPT ![s].status = st, ![s].held = held]
    PROVE  /\ source' \in [SourceIds -> SourceRow \cup {Gone}] /\ Src!Here' = Src!Here
           /\ \A t \in Src!Here : /\ source'[t].name = source[t].name
                                  /\ source'[t].held => source[t].held \/ (t = s /\ held)
<1>1. source[s] \in SourceRow /\ s \in SourceIds
  BY DEF RefreshInv, SourceShapes, Src!Here
<1>2. PICK new \in SourceRow : /\ source' = [source EXCEPT ![s] = new]
                               /\ new.name = source[s].name /\ new.held = held
  <2> DEFINE new == [source[s] EXCEPT !.status = st, !.held = held]
  <2>1. new \in SourceRow /\ new.name = source[s].name /\ new.held = held
    BY <1>1 DEF SourceRow
  <2>2. source' = [source EXCEPT ![s] = new]
    BY <1>1 DEF RefreshInv, SourceShapes
  <2> QED  BY <2>1, <2>2
<1>3. new # Gone /\ source[s] # Gone
  BY <1>1, <1>2, GoneIsNoSource DEF SourceRow
<1>4. source \in [SourceIds -> SourceRow \cup {Gone}]
  BY DEF RefreshInv, SourceShapes
<1> QED  BY <1>1, <1>2, <1>3, <1>4 DEF Src!Here

\* The transaction of a sync: its rows come or change, and the source is connected.
LEMMA SyncCommitsStep == ASSUME RefreshInv, NEW a \in Src!Actors, Src!SyncCommits(a) PROVE RefreshInv'
<1> DEFINE q == sync[a]
<1>1. PICK size \in Bytes :
        /\ q.pc = "commit" /\ Src!Commits(a)
        /\ copied' = [c \in Src!DatasetCodes |->
               IF c \in Src!Creates(a) THEN [src |-> q.id, size |-> size]
               ELSE IF c \in q.update THEN [copied[c] EXCEPT !.size = size] ELSE copied[c]]
        /\ source' = [source EXCEPT ![q.id].status = "connected", ![q.id].held = FALSE]
        /\ sync' = [b \in Src!Actors |->
               IF b = a THEN Src!NextSource(a, Src!ToReport)
               ELSE IF sync[b].pc = "commit" /\ sync[b].id = q.id
                    THEN [sync[b] EXCEPT !.moved = TRUE] ELSE sync[b]]
        /\ UNCHANGED scenario
  BY DEF Src!SyncCommits
<1>2. /\ q \in SyncRow /\ Src!Creates(a) \cap Src!Rows = {} /\ q.id \in Src!Here
      /\ q.update \subseteq Src!Rows
  <2>1. IsSync(q, a) /\ PlanHolds(q)
    BY DEF RefreshInv, SourceShapes, SyncsHold
  <2>2. q \in SyncRow
    BY <1>1, <2>1 DEF IsSync, Src!Idle
  <2> QED  BY <1>1, <2>1, <2>2 DEF PlanHolds, Src!Commits, Src!Taken
<1>3. /\ source' \in [SourceIds -> SourceRow \cup {Gone}] /\ Src!Here' = Src!Here
      /\ \A s \in Src!Here : source'[s].name = source[s].name /\ (source'[s].held => source[s].held)
  BY <1>1, <1>2, MarkKeepsSources
<1>4. /\ copied' \in [Src!DatasetCodes -> DatasetRow \cup {Gone}] /\ Src!Rows \subseteq Src!Rows'
      /\ \A c \in Src!Rows : copied'[c].src = copied[c].src
      /\ \A c \in Src!Rows' \ Src!Rows : copied'[c].src = q.id
  <2>1. ASSUME NEW c \in Src!DatasetCodes
        PROVE  /\ copied'[c] \in DatasetRow \cup {Gone}
               /\ copied[c] # Gone => copied'[c] # Gone /\ copied'[c].src = copied[c].src
               /\ copied[c] = Gone /\ copied'[c] # Gone => copied'[c].src = q.id
    <3>1. CASE c \in Src!Creates(a)
      <4>1. copied'[c] = [src |-> q.id, size |-> size] /\ copied[c] = Gone
        BY <1>1, <1>2, <2>1, <3>1 DEF Src!Rows
      <4> QED  BY <1>2, <4>1 DEF DatasetRow, SyncRow
    <3>2. CASE c \notin Src!Creates(a) /\ c \in q.update
      <4>1. copied[c] \in DatasetRow /\ copied[c] # Gone
        BY <1>2, <3>2 DEF RefreshInv, SourceShapes, Src!Rows
      <4>2. copied'[c] = [copied[c] EXCEPT !.size = size]
        BY <1>1, <3>2
      <4>3. copied'[c] \in DatasetRow /\ copied'[c].src = copied[c].src
        BY <4>1, <4>2 DEF DatasetRow
      <4> QED  BY <4>1, <4>3, GoneIsNoDataset DEF DatasetRow
    <3>3. CASE c \notin Src!Creates(a) /\ c \notin q.update
      BY <1>1, <3>3 DEF RefreshInv, SourceShapes
    <3> QED  BY <3>1, <3>2, <3>3
  <2> QED  BY <1>1, <2>1 DEF Src!Rows
<1>5. ASSUME NEW s \in Src!Here, Src!Obstructed(s) PROVE Src!Obstructed(s)'
  BY <1>1, <1>3, <1>4, <1>5, ObstructionStays DEF Src!Here
<1>6. /\ IsSync(sync'[a], a) /\ sync'[a].pc \in {"pull", "idle", "report"} /\ NamesHold(sync'[a])
  <2>1. Src!ToReport \in {Src!Idle, [pc |-> "report"]}
    BY DEF Src!ToReport
  <2> QED  BY <1>1, <2>1, NextIsSync DEF AtSource
<1>7. ASSUME NEW b \in Src!Actors, b # a
      PROVE  IsSync(sync'[b], b) /\ (NamesHold(sync[b]) /\ PlanHolds(sync[b]) /\ CatchHolds(sync[b]))'
  <2>1. IsSync(sync[b], b) /\ NamesHold(sync[b]) /\ PlanHolds(sync[b]) /\ CatchHolds(sync[b])
    BY DEF RefreshInv, SourceShapes, SyncsHold
  <2>2. CASE sync[b].pc = "commit" /\ sync[b].id = q.id
    <3>1. sync'[b] = [sync[b] EXCEPT !.moved = TRUE]
      BY <1>1, <1>7, <2>2
    <3>2. sync[b] \in SyncRow
      BY <2>1, <2>2 DEF IsSync, Src!Idle
    <3>3. /\ sync'[b] \in SyncRow /\ sync'[b].pc = "commit" /\ sync'[b].moved
          /\ sync'[b].left = sync[b].left /\ sync'[b].id = sync[b].id /\ sync'[b].name = sync[b].name
          /\ sync'[b].held = sync[b].held /\ sync'[b].update = sync[b].update
          /\ sync'[b].create = sync[b].create
      BY <2>2, <3>1, <3>2 DEF SyncRow
    <3>4. IsSync(sync'[b], b)
      BY <2>1, <2>2, <3>3 DEF IsSync, Src!Idle
    <3>5. PlanHolds(sync[b])'
      BY <1>1, <1>3, <1>4, <2>1, <2>2, <3>3 DEF PlanHolds
    <3>6. CatchHolds(sync[b])'
      BY <3>3 DEF CatchHolds
    <3>7. NamesHold(sync[b])'
      BY <1>3, <2>1, <2>2, <3>3 DEF NamesHold, AtSource
    <3> QED  BY <3>4, <3>5, <3>6, <3>7
  <2>3. CASE ~(sync[b].pc = "commit" /\ sync[b].id = q.id)
    <3>1. sync'[b] = sync[b]
      BY <1>1, <1>7, <2>3
    <3>2. PlanHolds(sync[b])'
      <4>1. CASE sync[b].pc = "commit"
        <5>1. sync[b].id # q.id
          BY <2>3, <4>1
        <5>2. /\ sync[b].create \subseteq scenario'.objects /\ sync[b].update \subseteq Src!Rows'
              /\ sync[b].id \in Src!Here' => \A c \in sync[b].update : copied'[c].src = sync[b].id
          BY <1>1, <1>3, <1>4, <2>1, <4>1 DEF PlanHolds
        <5>3. ASSUME NEW c, c \in Src!Rows' => (c \in Src!Rows => copied[c].src # sync[b].id)
              PROVE  c \in Src!Rows' => copied'[c].src # sync[b].id
          BY <1>4, <5>1, <5>3
        <5>4. ~sync[b].moved => \A o \in sync[b].create :
                 Src!datasetCode(sync[b].name, o) \in Src!Rows' =>
                     copied'[Src!datasetCode(sync[b].name, o)].src # sync[b].id
          BY <2>1, <4>1, <5>3 DEF PlanHolds
        <5> QED  BY <3>1, <5>2, <5>4 DEF PlanHolds
      <4>2. CASE sync[b].pc # "commit"
        BY <3>1, <4>2 DEF PlanHolds
      <4> QED  BY <4>1, <4>2
    <3>3. CatchHolds(sync[b])'
      BY <1>3, <1>5, <2>1, <3>1 DEF CatchHolds
    <3>4. NamesHold(sync[b])'
      BY <1>3, <2>1, <3>1 DEF NamesHold
    <3> QED  BY <2>1, <3>1, <3>2, <3>3, <3>4
  <2> QED  BY <2>2, <2>3
<1>8. SourceShapes'
  BY <1>1, <1>3, <1>4, <1>6, <1>7 DEF RefreshInv, SourceShapes
<1>9. SyncsHold'
  <2>1. (NamesHold(sync[a]) /\ PlanHolds(sync[a]) /\ CatchHolds(sync[a]))'
    <3>1. NamesHold(sync[a])'
      BY <1>3, <1>6 DEF NamesHold
    <3> QED  BY <1>6, <3>1 DEF PlanHolds, CatchHolds
  <2> QED  BY <1>7, <2>1 DEF SyncsHold
<1>10. HeldAreObstructed'
  BY <1>3, <1>5 DEF RefreshInv, HeldAreObstructed
<1> QED  BY <1>3, <1>8, <1>9, <1>10 DEF RefreshInv

\* The catch marks the source as disconnected.
LEMMA CatchSourceStep == ASSUME RefreshInv, NEW a \in Src!Actors, Src!Catch(a) PROVE RefreshInv'
<1> DEFINE q == sync[a]
<1>1. /\ q.pc = "catch" /\ q.id \in Src!Here /\ UNCHANGED <<scenario, copied>>
      /\ source' = [source EXCEPT ![q.id].status = "disconnected", ![q.id].held = q.held]
      /\ sync' = [sync EXCEPT ![a] = Src!NextSource(a, IF a = Job THEN Src!ToReport ELSE Src!Idle)]
  BY DEF Src!Catch
<1>2. (q.held => Src!Obstructed(q.id)) /\ q.held \in BOOLEAN
  <2>1. CatchHolds(q) /\ IsSync(q, a)
    BY DEF RefreshInv, SyncsHold, SourceShapes
  <2>2. q \in SyncRow
    BY <1>1, <2>1 DEF IsSync, Src!Idle
  <2> QED  BY <1>1, <2>1, <2>2 DEF CatchHolds, SyncRow
<1>3. /\ source' \in [SourceIds -> SourceRow \cup {Gone}] /\ Src!Here' = Src!Here
      /\ \A s \in Src!Here : /\ source'[s].name = source[s].name
                             /\ source'[s].held => source[s].held \/ (s = q.id /\ q.held)
  <2>1. PICK held \in BOOLEAN : held = q.held
    BY <1>2
  <2>2. source' = [source EXCEPT ![q.id].status = "disconnected", ![q.id].held = held]
    BY <1>1, <2>1
  <2> HIDE DEF q
  <2> QED  BY <1>1, <2>1, <2>2, MarkKeepsSources
<1>4. PICK new : new = Src!NextSource(a, IF a = Job THEN Src!ToReport ELSE Src!Idle)
  OBVIOUS
<1>5. IsSync(new, a) /\ new.pc \in {"pull", "idle", "report"} /\ NamesHold(new)
  BY <1>1, <1>4, NextIsSync DEF AtSource, Src!ToReport
<1>6. PlanHolds(new) /\ CatchHolds(new)
  BY <1>5 DEF PlanHolds, CatchHolds
<1>7. \A s \in Src!Here : /\ source'[s].name = source[s].name
                          /\ source'[s].held => source[s].held \/ Src!Obstructed(s)
  BY <1>2, <1>3
<1>8. sync' = [sync EXCEPT ![a] = new]
  BY <1>1, <1>4
<1> HIDE DEF q
<1> QED  BY <1>1, <1>3, <1>5, <1>6, <1>7, <1>8, SyncGoesOn

\* A source is registered under a new id.
LEMMA RegisterStep ==
    ASSUME RefreshInv, NEW r \in Registrars, Src!RegisterDataSource(r)
    PROVE  RefreshInv'
<1>1. PICK n \in Names, s \in Src!Free :
        /\ source' = [source EXCEPT ![s] = [name |-> n, status |-> "connected", held |-> FALSE]]
        /\ UNCHANGED <<scenario, copied, sync>>
  BY DEF Src!RegisterDataSource
<1>2. /\ s \in SourceIds /\ s \notin Src!Here
      /\ \A a \in Src!Actors : s \notin Held(sync[a])
  BY SourcesAssumption, HeldByIsHeld DEF Src!Free, RefreshInv, SourceShapes
<1>3. PICK new \in SourceRow : source' = [source EXCEPT ![s] = new] /\ ~new.held
  <2> DEFINE new == [name |-> n, status |-> "connected", held |-> FALSE]
  <2>1. new \in SourceRow /\ ~new.held
    BY DEF SourceRow
  <2> QED  BY <1>1, <2>1
<1>4. new # Gone
  BY <1>3, GoneIsNoSource DEF SourceRow
<1>5. /\ source' \in [SourceIds -> SourceRow \cup {Gone}] /\ Src!Here' = Src!Here \cup {s}
      /\ \A t \in Src!Here : source'[t] = source[t]
      /\ ~source'[s].held /\ Src!Rows' = Src!Rows
  BY <1>1, <1>2, <1>3, <1>4 DEF RefreshInv, SourceShapes, Src!Here, Src!Rows
<1>6. SourceShapes' /\ IsFiniteSet(Src!Here')
  BY <1>1, <1>5, FS_AddElement DEF RefreshInv, SourceShapes, IsSync
<1>7. ASSUME NEW t \in Src!Here, Src!Obstructed(t) PROVE Src!Obstructed(t)'
  BY <1>1, <1>5, <1>7, ObstructionStays DEF Src!Here
<1>8. SyncsHold'
  <2>1. ASSUME NEW a \in Src!Actors
        PROVE  NamesHold(sync[a])' /\ PlanHolds(sync[a])' /\ CatchHolds(sync[a])'
    <3>1. NamesHold(sync[a]) /\ PlanHolds(sync[a]) /\ CatchHolds(sync[a]) /\ s \notin Held(sync[a])
      BY <1>2 DEF RefreshInv, SyncsHold
    <3>2. NamesHold(sync[a])'
      BY <1>1, <1>5, <3>1 DEF NamesHold, Held
    <3>3. PlanHolds(sync[a])'
      BY <1>1, <1>5, <3>1 DEF PlanHolds, Held, AtSource
    <3>4. CatchHolds(sync[a])'
      BY <1>1, <1>5, <1>7, <3>1 DEF CatchHolds, Held, AtSource
    <3> QED  BY <3>2, <3>3, <3>4
  <2> QED  BY <1>1, <2>1 DEF SyncsHold
<1>9. HeldAreObstructed'
  BY <1>5, <1>7 DEF RefreshInv, HeldAreObstructed
<1> QED  BY <1>6, <1>8, <1>9 DEF RefreshInv

\* A step that leaves the syncs alone, and the datasets where they are but for new ones of the
\* write API and orphans of sources that go.
LEMMA AroundSyncs ==
    ASSUME RefreshInv, UNCHANGED <<scenario, sync>>,
           source' \in [SourceIds -> SourceRow \cup {Gone}], Src!Here' \subseteq Src!Here,
           \A s \in Src!Here' : source'[s] = source[s],
           copied' \in [Src!DatasetCodes -> DatasetRow \cup {Gone}], Src!Rows \subseteq Src!Rows',
           \A c \in Src!Rows : copied'[c].src \in {copied[c].src, "orphan"},
           \A c \in Src!Rows, s \in Src!Here' : copied[c].src = s => copied'[c].src = s,
           \A c \in Src!Rows' \ Src!Rows : copied'[c].src = "api"
    PROVE  RefreshInv'
<1>1. SourceShapes' /\ IsFiniteSet(Src!Here')
  BY FS_Subset DEF RefreshInv, SourceShapes, IsSync
<1>2. ASSUME NEW s \in Src!Here', Src!Obstructed(s) PROVE Src!Obstructed(s)'
  BY <1>2, ObstructionStays DEF Src!Here
<1>3. SyncsHold'
  <2>1. ASSUME NEW a \in Src!Actors
        PROVE  NamesHold(sync[a])' /\ PlanHolds(sync[a])' /\ CatchHolds(sync[a])'
    <3>1. NamesHold(sync[a]) /\ PlanHolds(sync[a]) /\ CatchHolds(sync[a])
      BY DEF RefreshInv, SyncsHold
    <3>2. sync[a].pc = "commit" => sync[a].id \notin {"orphan", "api"}
      BY SourcesAssumption DEF RefreshInv, SourceShapes, IsSync, Src!Idle, SyncRow
    <3>3. NamesHold(sync[a])'
      BY <3>1 DEF NamesHold
    <3>4. PlanHolds(sync[a])'
      BY <3>1, <3>2 DEF PlanHolds
    <3>5. CatchHolds(sync[a])'
      BY <1>2, <3>1 DEF CatchHolds
    <3> QED  BY <3>3, <3>4, <3>5
  <2> QED  BY <2>1 DEF SyncsHold
<1>4. HeldAreObstructed'
  BY <1>2 DEF RefreshInv, HeldAreObstructed
<1> QED  BY <1>1, <1>3, <1>4 DEF RefreshInv

\* A source goes; its datasets are orphans.
LEMMA UnbindStep == ASSUME RefreshInv, NEW s \in SourceIds, Src!UnbindDataSource(s) PROVE RefreshInv'
<1>1. /\ s \in Src!Here /\ UNCHANGED <<scenario, sync>>
      /\ source' = [source EXCEPT ![s] = Gone]
  BY DEF Src!UnbindDataSource
<1>2. /\ source' \in [SourceIds -> SourceRow \cup {Gone}] /\ Src!Here' = Src!Here \ {s}
      /\ \A t \in Src!Here' : source'[t] = source[t]
  BY <1>1 DEF RefreshInv, SourceShapes, Src!Here
<1>3. /\ copied' \in [Src!DatasetCodes -> DatasetRow \cup {Gone}] /\ Src!Rows' = Src!Rows
      /\ \A c \in Src!Rows : /\ copied'[c].src \in {copied[c].src, "orphan"}
                             /\ copied[c].src # s => copied'[c].src = copied[c].src
  <2>1. ASSUME NEW c \in Src!DatasetCodes
        PROVE  \/ copied'[c] = copied[c]
               \/ /\ copied[c] \in DatasetRow /\ copied'[c] \in DatasetRow
                  /\ copied[c].src = s /\ copied'[c].src = "orphan"
    <3>1. CASE c \in Src!Rows /\ copied[c].src = s
      <4>1. copied[c] \in DatasetRow /\ copied'[c] = [copied[c] EXCEPT !.src = "orphan"]
        BY <3>1 DEF Src!UnbindDataSource, Src!Rows, RefreshInv, SourceShapes
      <4> QED  BY <3>1, <4>1 DEF DatasetRow
    <3>2. CASE ~(c \in Src!Rows /\ copied[c].src = s)
      BY <2>1, <3>2 DEF Src!UnbindDataSource
    <3> QED  BY <3>1, <3>2
  <2>2. copied' = [c \in Src!DatasetCodes |-> copied'[c]]
    BY DEF Src!UnbindDataSource
  <2> QED  BY <2>1, <2>2, GoneIsNoDataset DEF RefreshInv, SourceShapes, Src!Rows, DatasetRow
<1> QED  BY <1>1, <1>2, <1>3, AroundSyncs

\* A dataset comes in over the write API, under a code of its own or one that a sync would make.
LEMMA ApiCreateStep == ASSUME RefreshInv, Src!ApiCreate PROVE RefreshInv'
<1>1. /\ UNCHANGED <<scenario, source, sync>> /\ Src!Here' = Src!Here
      /\ source' \in [SourceIds -> SourceRow \cup {Gone}]
  BY DEF Src!ApiCreate, Src!Here, RefreshInv, SourceShapes
<1>2. CASE UNCHANGED copied
  BY <1>1, <1>2, AroundSyncs DEF Src!Rows, RefreshInv, SourceShapes
<1>3. ASSUME NEW c \in Src!DatasetCodes \ Src!Rows, NEW size \in Bytes,
             copied' = [copied EXCEPT ![c] = [src |-> "api", size |-> size]]
      PROVE  RefreshInv'
  <2>1. PICK new \in DatasetRow : copied' = [copied EXCEPT ![c] = new] /\ new.src = "api"
    <3>1. [src |-> "api", size |-> size] \in DatasetRow
      BY DEF DatasetRow
    <3> QED  BY <1>3, <3>1
  <2>2. new # Gone
    BY <2>1, GoneIsNoDataset DEF DatasetRow
  <2>3. /\ copied' \in [Src!DatasetCodes -> DatasetRow \cup {Gone}] /\ Src!Rows' = Src!Rows \cup {c}
        /\ \A d \in Src!Rows : copied'[d] = copied[d]
        /\ copied'[c].src = "api"
    BY <1>3, <2>1, <2>2 DEF RefreshInv, SourceShapes, Src!Rows
  <2> QED  BY <1>1, <2>3, AroundSyncs
<1> QED  BY <1>2, <1>3 DEF Src!ApiCreate

\* What the refresh does not look at.
LEMMA RefreshStutter ==
    ASSUME RefreshInv, UNCHANGED <<scenario, source, copied, sync>> PROVE RefreshInv'
<1>1. Src!Here' = Src!Here /\ Src!Rows' = Src!Rows
  BY DEF Src!Here, Src!Rows
<1> QED  BY <1>1, AroundSyncs DEF RefreshInv, SourceShapes

\* In the sources part, a step of the workspace is one of that part.
LEMMA SourcesFrame ==
    ASSUME [WorkspaceNext]_workspaceVars, part' = "sources"
    PROVE  part = "sources" /\ [Src!SourcesNext]_Src!sourceVars
<1> USE DEF Around1, Around2, Around3, Around4
<1>1. CASE SourcesRun
  BY <1>1 DEF SourcesRun
<1>2. CASE UNCHANGED workspaceVars
  BY <1>2 DEF workspaceVars, sourcesVars, Src!sourceVars
<1>3. ASSUME \/ CatalogRuns \/ PublishingRuns \/ GatewayRuns \/ AdmissionRuns \/ ReadsRun
             \/ AccessRuns \/ ScreensRun \/ ApprovalsRun \/ FirstEntryRuns
      PROVE  FALSE
  BY <1>3 DEF CatalogRuns, PublishingRuns, GatewayRuns, AdmissionRuns, ReadsRun,
              AccessRuns, ScreensRun, ApprovalsRun, FirstEntryRuns
<1> QED  BY <1>1, <1>2, <1>3 DEF WorkspaceNext

\* The invariant of the refresh: what a sync has read of its sources' names and has planned for
\* their rows holds until another sync of the source commits, and what is held against a source
\* is in its way (jobs/refresh.ts:76).
THEOREM RefreshInductive == WorkspaceSpec => [](part = "sources" => RefreshInv)
<1>1. WorkspaceInit => (part = "sources" => RefreshInv)
  BY SourcesBeginWell DEF WorkspaceInit, SourcesBegin
<1>2. (part = "sources" => RefreshInv) /\ [WorkspaceNext]_workspaceVars
      => (part = "sources" => RefreshInv)'
  <2> SUFFICES ASSUME RefreshInv, [Src!SourcesNext]_Src!sourceVars PROVE RefreshInv'
    BY SourcesFrame
  <2>1. CASE UNCHANGED Src!sourceVars
    BY <2>1, RefreshStutter DEF Src!sourceVars
  <2>2. ASSUME NEW r \in Registrars, Src!CountSources(r) PROVE RefreshInv'
    BY <2>2, RefreshStutter DEF Src!CountSources
  <2>3. CASE Src!ReportArrives \/ Src!ReportLost
    BY <2>3, RefreshStutter DEF Src!ReportArrives, Src!ReportLost
  <2> QED  BY <2>1, <2>2, <2>3, RegisterStep, UnbindStep, BeginSyncStep, PullStep, SyncCommitsStep,
              SyncStep, CatchSourceStep, ApiCreateStep DEF Src!SourcesNext
<1> QED  BY <1>1, <1>2, PTL DEF WorkspaceSpec

\* A sync about to commit overwrites only rows of its own source, whatever was unbound,
\* registered or synced since it read them; and its source's own rows are never in its way: if
\* the job shows a source as disconnected for what the database held alone, then two of the
\* objects make one code, or a row from elsewhere holds one (jobs/refresh.ts:126).
THEOREM SyncsKeepToTheirRows == WorkspaceSpec => []SyncKeepsToItsRows
<1>1. RefreshInv => Src!SyncKeepsToItsRows
  <2> SUFFICES ASSUME RefreshInv PROVE Src!SyncKeepsToItsRows
    OBVIOUS
  <2>1. ASSUME NEW a \in Src!Actors, sync[a].pc = "commit", sync[a].id \in Src!Here, NEW c \in sync[a].update
        PROVE  c \in Src!Rows /\ copied[c].src = sync[a].id
    BY <2>1 DEF RefreshInv, SyncsHold, PlanHolds
  <2> QED  BY <2>1 DEF RefreshInv, HeldAreObstructed, Src!SyncKeepsToItsRows
<1> QED  BY <1>1, RefreshInductive, PTL DEF SyncKeepsToItsRows

-----------------------------------------------------------------------------
(* The storage gauge: what the latest report says, once nothing is to be reported any more. *)

ToTell(q, a) == q.pc \in {"report", "stamp"} \/ (a = Job /\ q.pc \in AtSource)
Settled == \A a \in Src!Actors : ~ToTell(sync[a], a)
ReportsAreStamped ==
    /\ stamps \in Nat /\ gauge.at \in 0..stamps
    /\ \A r \in report : r.at \in 1..stamps /\ r.at # gauge.at
    /\ \A q, r \in report : q.at = r.at => q = r
LatestTells == Src!Reporting /\ excuse = {} /\ Settled =>
    \/ gauge.at = stamps /\ gauge.value = Src!Sizes
    \/ \E r \in report : r.at = stamps /\ r.value = Src!Sizes
StampsAreBounded == stamps + Cardinality(Src!Stamping) <= scenario.reports

GaugeInv == RefreshInv /\ ReportsAreStamped /\ LatestTells /\ StampsAreBounded

LEMMA ActorsAreFinite ==
    /\ Job \in Src!Actors
    /\ \A S \in SUBSET Src!Actors : IsFiniteSet(S) /\ Cardinality(S) \in Nat
<1>1. IsFiniteSet(Src!Actors)
  BY SourcesAssumption, FS_AddElement DEF Src!Actors
<1> QED  BY <1>1, FS_Subset, FS_CardinalityType DEF Src!Actors

LEMMA SameCardinality == ASSUME NEW S PROVE Src!Cardinality(S) = Cardinality(S)
  BY DEF Src!Cardinality, Cardinality

LEMMA GaugeBegins == Src!SourcesInit => GaugeInv
<1> SUFFICES ASSUME Src!SourcesInit PROVE GaugeInv
  OBVIOUS
<1>1. /\ stamps = 0 /\ gauge = [value |-> 0, at |-> 0] /\ report = {} /\ extra = 0
      /\ copied = [c \in Src!DatasetCodes |-> Gone] /\ scenario \in Scenarios
      /\ \A a \in Src!Actors : sync[a].pc = "idle"
  BY DEF Src!SourcesInit, Src!Idle
<1>2. ReportsAreStamped
  BY <1>1 DEF ReportsAreStamped
<1>3. Src!Sizes = 0
  <2>1. Src!Rows = {}
    BY <1>1 DEF Src!Rows
  <2>2. [c \in Src!Rows |-> copied[c].size] = [c \in {} |-> 0]
    BY <2>1
  <2>3. Src!SumFunction([c \in {} |-> 0]) = 0
    BY DEF Src!SumFunction, Src!SumFunctionOnSet, Src!FoldFunctionOnSet, Src!MapThenFoldSet
  <2>4. PICK f : f = [c \in Src!Rows |-> copied[c].size] /\ Src!Sizes = extra + Src!SumFunction(f)
    BY DEF Src!Sizes
  <2>5. PICK g : g = [c \in {} |-> 0] /\ Src!SumFunction(g) = 0
    BY <2>3
  <2>6. f = g
    BY <2>2, <2>4, <2>5
  <2>7. Src!SumFunction(f) = 0
    BY <2>5, <2>6
  <2> QED  BY <1>1, <2>4, <2>7
<1>4. StampsAreBounded
  <2>1. Src!Stamping = {}
    BY <1>1 DEF Src!Stamping
  <2> QED  BY <1>1, <2>1, FS_EmptySet, SourcesAssumption DEF StampsAreBounded
<1> QED  BY <1>1, <1>2, <1>3, <1>4, SourcesBeginWell DEF GaugeInv, LatestTells

\* A step that reports nothing: whoever changes the sizes has to tell, or is an excuse.
LEMMA QuietGaugeStep ==
    ASSUME GaugeInv, RefreshInv', UNCHANGED <<scenario, report, gauge, stamps>>,
           Src!Stamping' = Src!Stamping, excuse' = excuse \/ excuse' # {},
           Src!Reporting /\ excuse' = {} /\ Settled' => Settled /\ Src!Sizes' = Src!Sizes
    PROVE  GaugeInv'
<1>1. ReportsAreStamped' /\ StampsAreBounded'
  BY DEF GaugeInv, ReportsAreStamped, StampsAreBounded
<1>2. LatestTells'
  BY DEF GaugeInv, LatestTells, Src!Reporting
<1> QED  BY <1>1, <1>2 DEF GaugeInv

\* A sync goes on to something that is not a stamp, without a change to the sizes.
LEMMA QuietSyncStep ==
    ASSUME GaugeInv, RefreshInv', UNCHANGED <<scenario, report, gauge, stamps, copied, extra>>,
           excuse' = excuse \/ excuse' # {}, NEW a \in Src!Actors, NEW new,
           sync' = [sync EXCEPT ![a] = new], sync[a].pc # "stamp", new.pc # "stamp",
           Src!Reporting /\ excuse' = {} /\ ToTell(sync[a], a) => ToTell(new, a)
    PROVE  GaugeInv'
<1>1. sync'[a] = new /\ \A b \in Src!Actors \ {a} : sync'[b] = sync[b]
  BY DEF GaugeInv, RefreshInv, SourceShapes
<1>2. Src!Stamping' = Src!Stamping
  BY <1>1 DEF Src!Stamping
<1>3. Src!Sizes' = Src!Sizes
  BY DEF Src!Sizes, Src!Rows
<1>4. Src!Reporting /\ excuse' = {} /\ Settled' => Settled
  BY <1>1 DEF Settled, ToTell
<1> QED  BY <1>2, <1>3, <1>4, QuietGaugeStep

\* The sizes are the same when the same rows have the same sizes.
LEMMA SizesKept ==
    ASSUME extra' = extra, Src!Rows' = Src!Rows, \A c \in Src!Rows : copied'[c].size = copied[c].size
    PROVE  Src!Sizes' = Src!Sizes
<1>1. [c \in Src!Rows' |-> copied'[c].size] = [c \in Src!Rows |-> copied[c].size]
  OBVIOUS
<1> QED  BY <1>1 DEF Src!Sizes

\* The steps of a sync around the gauge's own.
LEMMA GaugeSyncStep ==
    ASSUME GaugeInv, RefreshInv', NEW a \in Src!Actors,
           \/ Src!Pull(a) \/ Src!SyncThrows(a) \/ Src!Catch(a) \/ Src!CatchThrows(a)
    PROVE  GaugeInv'
<1> DEFINE q == sync[a]
<1>1. /\ UNCHANGED <<scenario, report, gauge, stamps, copied, extra>> /\ q.pc \in AtSource
      /\ excuse' = excuse \/ excuse' # {}
  BY DEF Src!Pull, Src!SyncThrows, Src!Catch, Src!CatchThrows, Src!gaugeVars, AtSource
<1>2. q \in SyncRow /\ (a # Job => q.left = <<>>)
  <2>1. IsSync(q, a)
    BY DEF GaugeInv, RefreshInv, SourceShapes
  <2> QED  BY <1>1, <2>1 DEF IsSync, Src!Idle, AtSource
<1>3. ASSUME NEW new, sync' = [sync EXCEPT ![a] = new], new.pc # "stamp",
             Src!Reporting /\ excuse' = {} /\ a = Job => ToTell(new, a)
      PROVE  GaugeInv'
  <2>1. q.pc # "stamp" /\ (ToTell(q, a) => a = Job)
    BY <1>1 DEF ToTell, AtSource
  <2> QED  BY <1>1, <1>3, <2>1, QuietSyncStep
<1>4. CASE Src!Pull(a)
  <2>1. CASE sync' = [sync EXCEPT ![a].pc = "catch"]
    <3>1. PICK new : new = [q EXCEPT !.pc = "catch"]
      OBVIOUS
    <3>2. sync' = [sync EXCEPT ![a] = new] /\ new.pc = "catch"
      BY <1>2, <2>1, <3>1 DEF SyncRow, GaugeInv, RefreshInv, SourceShapes
    <3> QED  BY <1>3, <3>2 DEF ToTell, AtSource
  <2>2. ASSUME NEW c, NEW u,
               sync' = [sync EXCEPT ![a].pc = "commit", ![a].create = c, ![a].update = u]
        PROVE  GaugeInv'
    <3>1. PICK new : new = [q EXCEPT !.pc = "commit", !.create = c, !.update = u]
      OBVIOUS
    <3>2. new.pc = "commit"
      BY <1>2, <3>1 DEF SyncRow
    <3>3. sync' = [sync EXCEPT ![a] = new]
      BY <2>2, <3>1 DEF GaugeInv, RefreshInv, SourceShapes
    <3> QED  BY <1>3, <3>2, <3>3 DEF ToTell, AtSource
  <2> QED  BY <1>4, <2>1, <2>2 DEF Src!Pull
<1>5. CASE Src!SyncThrows(a)
  <2>1. PICK new : /\ sync' = [sync EXCEPT ![a] = new] /\ (a # Job => new = Src!Idle)
                   /\ a = Job => new = [q EXCEPT !.pc = "catch",
                                                 !.held = ~Src!Commits(a) /\ ~q.moved]
    BY <1>5 DEF Src!SyncThrows
  <2>2. CASE a = Job
    <3>1. new.pc = "catch"
      BY <1>2, <2>1, <2>2 DEF SyncRow
    <3> QED  BY <1>3, <2>1, <2>2, <3>1 DEF ToTell, AtSource
  <2>3. CASE a # Job
    <3>1. new.pc # "stamp"
      BY <2>1, <2>3 DEF Src!Idle
    <3> QED  BY <1>3, <2>1, <2>3, <3>1
  <2> QED  BY <2>2, <2>3
<1>6. CASE Src!Catch(a)
  <2>1. PICK new : /\ sync' = [sync EXCEPT ![a] = new]
                   /\ new = Src!NextSource(a, IF a = Job THEN Src!ToReport ELSE Src!Idle)
    BY <1>6 DEF Src!Catch
  <2>2. /\ new.pc \in {"pull", "idle", "report"}
        /\ a = Job /\ Src!Reporting => new.pc \in {"pull", "report"}
    BY <2>1 DEF Src!NextSource, Src!SyncOf, Src!ToReport, Src!Idle
  <2> QED  BY <1>3, <2>1, <2>2 DEF ToTell, AtSource
<1>7. CASE Src!CatchThrows(a)
  <2>1. PICK new \in {[pc |-> "aborted"], Src!Idle} :
           sync' = [sync EXCEPT ![a] = new] /\ (a = Job => excuse' # {})
    BY <1>7 DEF Src!CatchThrows
  <2>2. new.pc # "stamp"
    BY <2>1 DEF Src!Idle
  <2> QED  BY <1>3, <2>1, <2>2
<1> QED  BY <1>4, <1>5, <1>6, <1>7

\* A sync that has committed has its sizes to tell.
LEMMA GaugeCommitStep ==
    ASSUME GaugeInv, RefreshInv', NEW a \in Src!Actors, Src!SyncCommits(a)
    PROVE  GaugeInv'
<1>1. /\ UNCHANGED <<scenario, report, gauge, stamps, excuse>> /\ sync[a].pc = "commit"
      /\ sync' = [b \in Src!Actors |->
             IF b = a THEN Src!NextSource(a, Src!ToReport)
             ELSE IF sync[b].pc = "commit" /\ sync[b].id = sync[a].id
                  THEN [sync[b] EXCEPT !.moved = TRUE] ELSE sync[b]]
  BY DEF Src!SyncCommits, Src!gaugeVars
<1>2. /\ sync'[a].pc \in {"pull", "idle", "report"} /\ (sync'[a].pc = "pull" => a = Job)
      /\ Src!Reporting => sync'[a].pc # "idle"
  <2>1. Src!ToReport \in {Src!Idle, [pc |-> "report"]}
    BY DEF Src!ToReport
  <2>2. sync'[a].pc \in {"pull", "idle", "report"} /\ (sync'[a].pc = "pull" => a = Job)
    BY <1>1, <2>1, NextIsSync DEF AtSource, GaugeInv
  <2>3. Src!Reporting => sync'[a].pc # "idle"
    BY <1>1 DEF Src!NextSource, Src!ToReport, Src!SyncOf
  <2> QED  BY <2>2, <2>3
<1>3. ASSUME NEW b \in Src!Actors, b # a PROVE sync'[b].pc = "stamp" <=> sync[b].pc = "stamp"
  <2>1. CASE sync[b].pc = "commit" /\ sync[b].id = sync[a].id
    <3>1. sync[b] \in SyncRow
      BY <2>1 DEF GaugeInv, RefreshInv, SourceShapes, IsSync, Src!Idle
    <3>2. sync'[b].pc = "commit"
      BY <1>1, <1>3, <2>1, <3>1 DEF SyncRow
    <3> QED  BY <2>1, <3>2
  <2>2. CASE ~(sync[b].pc = "commit" /\ sync[b].id = sync[a].id)
    BY <1>1, <1>3, <2>2
  <2> QED  BY <2>1, <2>2
<1>4. Src!Stamping' = Src!Stamping
  BY <1>1, <1>2, <1>3 DEF Src!Stamping
<1>5. ~(Src!Reporting /\ Settled')
  BY <1>2 DEF Settled, ToTell, AtSource
<1> QED  BY <1>1, <1>4, <1>5, QuietGaugeStep

\* A sync or a tick begins; a tick that aborted ends.
LEMMA GaugeBeginStep ==
    ASSUME GaugeInv, RefreshInv', Src!StartJob \/ Src!EndTick \/ \E a \in Syncers : Src!StartSync(a)
    PROVE  GaugeInv'
<1>1. UNCHANGED <<scenario, report, gauge, stamps, excuse, copied, extra>>
  BY DEF Src!StartJob, Src!EndTick, Src!StartSync, Src!gaugeVars
<1>2. ASSUME NEW a \in Src!Actors, NEW new, sync' = [sync EXCEPT ![a] = new],
             sync[a].pc \in {"idle", "aborted"}, new.pc \in {"idle", "report", "pull"}
      PROVE  GaugeInv'
  <2>1. ~ToTell(sync[a], a)
    BY <1>2 DEF ToTell, AtSource
  <2> QED  BY <1>1, <1>2, <2>1, QuietSyncStep
<1>3. CASE Src!EndTick
  <2>1. sync' = [sync EXCEPT ![Job] = Src!Idle] /\ sync[Job].pc = "aborted" /\ Src!Idle.pc = "idle"
    BY <1>3 DEF Src!EndTick, Src!Idle
  <2> QED  BY <1>2, <2>1, ActorsAreFinite
<1>4. ASSUME NEW a \in Syncers, Src!StartSync(a) PROVE GaugeInv'
  <2>1. PICK s : sync' = [sync EXCEPT ![a] = Src!SyncOf(Src!Listed(s), <<>>)]
    BY <1>4 DEF Src!StartSync
  <2>2. Src!SyncOf(Src!Listed(s), <<>>).pc = "pull"
    BY DEF Src!SyncOf
  <2>3. sync[a].pc = "idle"
    BY <1>4 DEF Src!StartSync, Src!Idle
  <2> QED  BY <1>2, <2>1, <2>2, <2>3 DEF Src!Actors
<1>5. CASE Src!StartJob
  <2>1. PICK due : sync' = [sync EXCEPT ![Job] = IF due = <<>> THEN Src!ToReport
                                                 ELSE Src!SyncOf(Head(due), Tail(due))]
    BY <1>5 DEF Src!StartJob
  <2>2. PICK new : /\ sync' = [sync EXCEPT ![Job] = new]
                   /\ new \in {Src!ToReport, Src!SyncOf(Head(due), Tail(due))}
    BY <2>1
  <2>3. new.pc \in {"idle", "report", "pull"}
    BY <2>2 DEF Src!SyncOf, Src!ToReport, Src!Idle
  <2>4. sync[Job].pc = "idle"
    BY <1>5 DEF Src!StartJob, Src!Idle
  <2> QED  BY <1>2, <2>2, <2>3, <2>4, ActorsAreFinite
<1> QED  BY <1>3, <1>4, <1>5

\* A sync reads the sum.
LEMMA ReadSizesStep ==
    ASSUME GaugeInv, RefreshInv', NEW a \in Src!Actors, Src!ReadSizes(a) PROVE GaugeInv'
<1>1. /\ UNCHANGED <<scenario, report, gauge, stamps, excuse>> /\ sync[a].pc = "report"
      /\ stamps + Cardinality(Src!Stamping) < scenario.reports
      /\ sync' = [sync EXCEPT ![a] = [pc |-> "stamp", value |-> Src!Sizes]]
  <2>1. Src!Cardinality(Src!Stamping) = Cardinality(Src!Stamping)
    BY SameCardinality
  <2>2. stamps + Src!Cardinality(Src!Stamping) < scenario.reports
    BY DEF Src!ReadSizes
  <2> QED  BY <2>1, <2>2 DEF Src!ReadSizes, Src!gaugeVars
<1>2. sync'[a].pc = "stamp" /\ \A b \in Src!Actors \ {a} : sync'[b] = sync[b]
  BY <1>1 DEF GaugeInv, RefreshInv, SourceShapes
<1>3. ReportsAreStamped'
  BY <1>1 DEF GaugeInv, ReportsAreStamped
<1>4. LatestTells'
  BY <1>2 DEF LatestTells, Settled, ToTell
<1>5. StampsAreBounded'
  <2>1. Src!Stamping' = Src!Stamping \cup {a} /\ a \notin Src!Stamping
    BY <1>1, <1>2 DEF Src!Stamping
  <2>2. Src!Stamping \in SUBSET Src!Actors
    BY DEF Src!Stamping
  <2>3. Cardinality(Src!Stamping') = Cardinality(Src!Stamping) + 1 /\ Cardinality(Src!Stamping) \in Nat
    BY <2>1, <2>2, ActorsAreFinite, FS_AddElement
  <2>4. stamps \in Nat /\ scenario \in Scenarios /\ scenario.reports \in Nat
    BY SourcesAssumption DEF GaugeInv, ReportsAreStamped, RefreshInv, SourceShapes
  <2> QED  BY <1>1, <2>3, <2>4 DEF StampsAreBounded
<1> QED  BY <1>3, <1>4, <1>5 DEF GaugeInv

\* The report is stamped and sent: it tells the truth, or the stamp is younger than the sum.
LEMMA SendReportStep ==
    ASSUME GaugeInv, RefreshInv', NEW a \in Src!Actors, Src!SendReport(a) PROVE GaugeInv'
<1> DEFINE new == [value |-> sync[a].value, at |-> stamps + 1]
<1>1. /\ UNCHANGED <<scenario, gauge, copied, extra>> /\ sync[a].pc = "stamp" /\ stamps' = stamps + 1
      /\ report' = report \cup {new} /\ sync' = [sync EXCEPT ![a] = Src!Idle]
      /\ excuse' = IF sync[a].value = Src!Sizes THEN {} ELSE {"stale sum"}
  BY DEF Src!SendReport
<1>2. sync'[a].pc = "idle" /\ \A b \in Src!Actors \ {a} : sync'[b] = sync[b]
  BY <1>1 DEF GaugeInv, RefreshInv, SourceShapes, Src!Idle
<1>3. new.at = stamps + 1 /\ new.value = sync[a].value /\ new \in report'
  BY <1>1
<1> HIDE DEF new
<1>4. ReportsAreStamped'
  <2>1. /\ stamps \in Nat /\ gauge.at \in 0..stamps
        /\ \A r \in report : r.at \in 1..stamps /\ r.at # gauge.at
        /\ \A q, r \in report : q.at = r.at => q = r
    BY DEF GaugeInv, ReportsAreStamped
  <2>2. ASSUME NEW r \in report' PROVE r.at \in 1..(stamps + 1) /\ r.at # gauge.at
    <3>1. r = new \/ r \in report
      BY <1>1, <2>2
    <3> QED  BY <1>3, <2>1, <3>1
  <2>3. ASSUME NEW q \in report', NEW r \in report', q.at = r.at PROVE q = r
    <3>1. (q = new \/ q \in report) /\ (r = new \/ r \in report)
      BY <1>1, <2>3
    <3> QED  BY <1>3, <2>1, <2>3, <3>1
  <2>4. stamps + 1 \in Nat /\ gauge.at \in 0..(stamps + 1)
    BY <2>1
  <2> QED  BY <1>1, <2>2, <2>3, <2>4 DEF ReportsAreStamped
<1>5. LatestTells'
  <2>1. Src!Sizes' = Src!Sizes
    BY <1>1 DEF Src!Sizes, Src!Rows
  <2> QED  BY <1>1, <1>3, <2>1 DEF LatestTells
<1>6. StampsAreBounded'
  <2>1. Src!Stamping' = Src!Stamping \ {a} /\ a \in Src!Stamping
    BY <1>1, <1>2 DEF Src!Stamping
  <2>2. Src!Stamping \in SUBSET Src!Actors
    BY DEF Src!Stamping
  <2>3. Cardinality(Src!Stamping') = Cardinality(Src!Stamping) - 1 /\ Cardinality(Src!Stamping) \in Nat
    BY <2>1, <2>2, ActorsAreFinite, FS_RemoveElement
  <2>4. stamps \in Nat /\ scenario \in Scenarios /\ scenario.reports \in Nat
    BY SourcesAssumption DEF GaugeInv, ReportsAreStamped, RefreshInv, SourceShapes
  <2>5. stamps + Cardinality(Src!Stamping) <= scenario.reports
    BY DEF GaugeInv, StampsAreBounded
  <2>6. (stamps + 1) + Cardinality(Src!Stamping') <= scenario.reports
    BY <2>3, <2>4, <2>5
  <2> QED  BY <1>1, <2>6 DEF StampsAreBounded
<1> QED  BY <1>4, <1>5, <1>6 DEF GaugeInv

\* A report arrives, and the gauge keeps the later stamp; or it is lost.
LEMMA ArrivalStep ==
    ASSUME GaugeInv, RefreshInv', Src!ReportArrives \/ Src!ReportLost PROVE GaugeInv'
<1>1. UNCHANGED <<scenario, sync, stamps, copied, extra>>
  BY DEF Src!ReportArrives, Src!ReportLost
<1>2. StampsAreBounded'
  BY <1>1 DEF GaugeInv, StampsAreBounded, Src!Stamping
<1>3. Src!Sizes' = Src!Sizes /\ (Settled' <=> Settled) /\ (Src!Reporting' <=> Src!Reporting)
  BY <1>1 DEF Src!Sizes, Src!Rows, Settled, ToTell, Src!Reporting
<1>4. /\ stamps \in Nat /\ gauge.at \in 0..stamps
      /\ \A r \in report : r.at \in 1..stamps /\ r.at # gauge.at
      /\ \A q, r \in report : q.at = r.at => q = r
  BY DEF GaugeInv, ReportsAreStamped
<1>5. CASE Src!ReportArrives
  <2>1. PICK r \in report : /\ report' = report \ {r} /\ excuse' = excuse
                            /\ gauge' = IF r.at > gauge.at THEN r ELSE gauge
    BY <1>5 DEF Src!ReportArrives
  <2>2. ReportsAreStamped'
    BY <1>1, <1>4, <2>1 DEF ReportsAreStamped
  <2>3. LatestTells'
    <3> SUFFICES ASSUME Src!Reporting, excuse = {}, Settled
                 PROVE  \/ gauge'.at = stamps /\ gauge'.value = Src!Sizes
                        \/ \E q \in report' : q.at = stamps /\ q.value = Src!Sizes
      BY <1>1, <1>3, <2>1 DEF LatestTells
    <3>1. \/ gauge.at = stamps /\ gauge.value = Src!Sizes
          \/ \E q \in report : q.at = stamps /\ q.value = Src!Sizes
      BY DEF GaugeInv, LatestTells
    <3> QED  BY <1>4, <2>1, <3>1
  <2> QED  BY <1>2, <2>2, <2>3 DEF GaugeInv
<1>6. CASE Src!ReportLost
  <2>1. PICK r \in report : /\ report' = report \ {r} /\ gauge' = gauge
                            /\ excuse' = IF r.at = stamps THEN excuse \cup {"lost"} ELSE excuse
    BY <1>6 DEF Src!ReportLost
  <2>2. ReportsAreStamped'
    BY <1>1, <1>4, <2>1 DEF ReportsAreStamped
  <2>3. LatestTells'
    BY <1>1, <1>3, <2>1 DEF GaugeInv, LatestTells
  <2> QED  BY <1>2, <2>2, <2>3 DEF GaugeInv
<1> QED  BY <1>5, <1>6

\* What the syncs and reports do not take part in.
LEMMA GaugeAroundStep ==
    ASSUME GaugeInv, RefreshInv',
           \/ \E r \in Registrars : Src!CountSources(r) \/ Src!RegisterDataSource(r)
           \/ \E s \in SourceIds : Src!UnbindDataSource(s)
           \/ Src!ApiCreate \/ UNCHANGED Src!sourceVars
    PROVE  GaugeInv'
<1>1. /\ UNCHANGED <<scenario, sync, report, gauge, stamps>>
      /\ excuse' = excuse \/ excuse' # {}
  BY DEF Src!CountSources, Src!RegisterDataSource, Src!UnbindDataSource, Src!ApiCreate,
         Src!gaugeVars, Src!sourceVars
<1>2. Src!Stamping' = Src!Stamping /\ (Settled' <=> Settled)
  BY <1>1 DEF Src!Stamping, Settled, ToTell
<1>3. CASE UNCHANGED <<copied, extra>>
  BY <1>1, <1>2, <1>3, QuietGaugeStep DEF Src!Sizes, Src!Rows
<1>4. ASSUME NEW s \in SourceIds, Src!UnbindDataSource(s) PROVE GaugeInv'
  <2>1. /\ extra' = extra
        /\ copied' = [c \in Src!DatasetCodes |-> IF c \in Src!Rows /\ copied[c].src = s
                                THEN [copied[c] EXCEPT !.src = "orphan"] ELSE copied[c]]
    BY <1>4 DEF Src!UnbindDataSource
  <2>2. ASSUME NEW c \in Src!DatasetCodes
        PROVE  (copied'[c] # Gone <=> copied[c] # Gone) /\ (c \in Src!Rows => copied'[c].size = copied[c].size)
    <3>1. CASE c \in Src!Rows /\ copied[c].src = s
      <4>1. copied[c] \in DatasetRow /\ copied'[c] = [copied[c] EXCEPT !.src = "orphan"]
        BY <2>1, <3>1 DEF Src!Rows, GaugeInv, RefreshInv, SourceShapes
      <4>2. copied'[c] \in DatasetRow /\ copied'[c].size = copied[c].size
        BY <4>1 DEF DatasetRow
      <4> QED  BY <4>1, <4>2, GoneIsNoDataset DEF DatasetRow
    <3>2. CASE ~(c \in Src!Rows /\ copied[c].src = s)
      BY <2>1, <2>2, <3>2
    <3> QED  BY <3>1, <3>2
  <2>3. Src!Sizes' = Src!Sizes
    BY <2>1, <2>2, SizesKept DEF Src!Rows
  <2> QED  BY <1>1, <1>2, <2>3, QuietGaugeStep
<1>5. CASE Src!ApiCreate
  <2>1. excuse' # {}
    BY <1>5 DEF Src!ApiCreate
  <2> QED  BY <1>1, <1>2, <2>1, QuietGaugeStep
<1> QED  BY <1>3, <1>4, <1>5 DEF Src!CountSources, Src!RegisterDataSource, Src!sourceVars, Src!gaugeVars

\* The invariant of the gauge: once nobody has sizes to tell, the report with the latest stamp
\* carries their sum, and is on its way or has arrived, unless there is an excuse (gauge.ts).
THEOREM GaugeInductive == WorkspaceSpec => [](part = "sources" => GaugeInv)
<1>1. WorkspaceInit => (part = "sources" => GaugeInv)
  BY GaugeBegins DEF WorkspaceInit, SourcesBegin
<1>2. (part = "sources" => GaugeInv) /\ (part = "sources" => RefreshInv)'
      /\ [WorkspaceNext]_workspaceVars => (part = "sources" => GaugeInv)'
  <2> SUFFICES ASSUME GaugeInv, RefreshInv', [Src!SourcesNext]_Src!sourceVars PROVE GaugeInv'
    BY SourcesFrame
  <2> QED  BY GaugeSyncStep, GaugeCommitStep, GaugeBeginStep, ReadSizesStep, SendReportStep,
              ArrivalStep, GaugeAroundStep DEF Src!SourcesNext
<1> QED  BY <1>1, <1>2, RefreshInductive, PTL DEF WorkspaceSpec

\* The gauge heals: once no sync or report is under way, the platform holds the sum of the
\* sizes, whatever order the reports came in, unless there is a named excuse (gauge.ts:46).
THEOREM GaugeTheorem == WorkspaceSpec => []GaugeHeals
<1>1. GaugeInv => Src!GaugeHeals
  BY DEF GaugeInv, LatestTells, Settled, ToTell, AtSource, Src!Idle, Src!GaugeHeals
<1> QED  BY <1>1, GaugeInductive, PTL DEF GaugeHeals
-----------------------------------------------------------------------------
(* The caps of the plan: what a create had room for when it counted, it has until a row moves. *)

\* What is left of a quota.
LEMMA RoomIsLeft == ASSUME NEW n \in Int PROVE Max({0, n}) = IF n > 0 THEN n ELSE 0
  BY DEF Max

\* What a sync plans to create has room: its rank among what is new is below it.
LEMMA PlanFits ==
    ASSUME NEW discovered \in SUBSET Codes, NEW known, NEW count \in Nat
    PROVE  /\ IsFiniteSet(PlanSync(discovered, known, count))
           /\ PlanSync(discovered, known, count) # {} =>
                  count + Cardinality(PlanSync(discovered, known, count)) <= DatasetMax
<1> DEFINE new == discovered \ known
           Before(c) == {d \in new : d < c}
           rank == [c \in new |-> Cardinality(Before(c))]
           room == Max({0, DatasetMax - count})
           P == {c \in new : Cardinality(Before(c)) < room}
<1>1. IsFiniteSet(new) /\ new \subseteq Nat
  BY CatalogAssumption, FS_Subset
<1>2. room \in Nat /\ (room > 0 => count + room = DatasetMax)
  BY RoomIsLeft, CatalogAssumption
<1>3. \A c \in new : IsFiniteSet(Before(c)) /\ rank[c] \in Nat
  BY <1>1, FS_Subset, FS_CardinalityType
<1>4. ASSUME NEW c \in new, NEW d \in new, c < d PROVE rank[c] # rank[d]
  <2>1. Before(c) \in SUBSET Before(d) /\ c \in Before(d) /\ c \notin Before(c)
    BY <1>1, <1>4
  <2> HIDE DEF Before
  <2> QED  BY <2>1, <1>3, FS_Subset
<1>5. PlanSync(discovered, known, count) = P
  BY DEF PlanSync
<1> HIDE DEF Before, room, P, new
<1>6. P \subseteq new /\ \A c \in P : rank[c] < room
  BY DEF P
<1>7. IsFiniteSet(P) /\ Cardinality(P) \in Nat
  BY <1>1, <1>6, FS_Subset, FS_CardinalityType
<1>8. Cardinality(P) <= room
  <2> DEFINE places == [c \in P |-> rank[c]]
  <2>1. \A c \in P : places[c] \in 0..(room - 1)
    BY <1>2, <1>3, <1>6
  <2>2. \A c, d \in P : places[c] = places[d] => c = d
    BY <1>1, <1>4, <1>6
  <2>3. places \in Injection(P, 0..(room - 1))
    BY <2>1, <2>2 DEF Injection, IsInjective
  <2>4. IsFiniteSet(0..(room - 1)) /\ Cardinality(0..(room - 1)) = room
    BY <1>2, FS_Interval
  <2> HIDE DEF places
  <2> QED  BY <2>3, <2>4, FS_Injection
<1>9. P # {} => room > 0
  <2>1. ASSUME NEW c \in P PROVE room > 0
    <3>1. rank[c] \in Nat /\ rank[c] < room
      BY <1>3, <1>6
    <3> HIDE DEF rank
    <3> QED  BY <1>2, <3>1
  <2> QED  BY <2>1
<1> QED  BY <1>2, <1>5, <1>7, <1>8, <1>9, CatalogAssumption

WriterKind == {"dataset", "edge", "action", "request", "sync"}
Bulk == {"dataset", "sync"}

\* What a writer at work looks like, as far as the quota goes; all that a sync has found, and
\* all that it plans to create, are codes.
IsWriter(q) ==
    \/ q.pc \in {"idle", "done"}
    \/ /\ q = [pc |-> q.pc, kind |-> q.kind, body |-> q.body, key |-> q.key, late |-> q.late,
               moved |-> q.moved, plan |-> q.plan]
       /\ q.kind \in WriterKind /\ q.moved \in BOOLEAN /\ q.plan \in SUBSET Codes
       /\ q.kind = "sync" => q.body \in SUBSET Codes

\* A writer that has made its checks has room for what it will create, unless a row has moved.
HasRoom(w) == writer[w].pc = "create" =>
    /\ IsFiniteSet(NewDatasets(writer[w], w))
    /\ ~writer[w].moved /\ NewDatasets(writer[w], w) # {} =>
           Cardinality(dataset) + Cardinality(NewDatasets(writer[w], w)) <= DatasetMax
CapInv ==
    /\ kinds \subseteq WriterKind
    /\ IsFiniteSet(dataset) /\ excess \in Nat
    /\ writer = [w \in Writers |-> writer[w]]
    /\ \A w \in Writers : IsWriter(writer[w]) /\ HasRoom(w)
    /\ CapExceededOnlyByRace

LEMMA CapBegins == CatalogInit => CapInv
<1> SUFFICES ASSUME CatalogInit PROVE CapInv
  OBVIOUS
<1>1. PICK s \in Kinds :
        /\ kinds = s.kinds /\ dataset = {<<c, "old">> : c \in s.codes}
        /\ excess = Max({0, Cardinality(s.codes) - DatasetMax})
        /\ writer = [w \in Writers |-> [pc |-> "idle"]]
  BY DEF CatalogInit
<1>2. IsFiniteSet(s.codes) /\ Cardinality(s.codes) \in Nat /\ s.kinds \subseteq WriterKind
  BY CatalogAssumption, FS_Subset, FS_CardinalityType DEF WriterKind
<1>3. IsFiniteSet(dataset) /\ Cardinality(dataset) <= Cardinality(s.codes)
  <2> DEFINE row1 == [c \in s.codes |-> <<c, "old">>]
  <2>1. row1 \in Surjection(s.codes, dataset)
    BY <1>1 DEF Surjection
  <2> QED  BY <1>2, <2>1, FS_Surjection
<1>4. excess \in Nat /\ Cardinality(dataset) <= DatasetMax + excess
  BY <1>1, <1>2, <1>3, RoomIsLeft, CatalogAssumption, FS_CardinalityType
<1> QED  BY <1>1, <1>2, <1>3, <1>4 DEF CapInv, IsWriter, HasRoom, CapExceededOnlyByRace

\* A writer goes on, or ends.
LEMMA CapGoesOn ==
    ASSUME CapInv, UNCHANGED <<kinds, dataset, excess>>, NEW w \in Writers, NEW new,
           writer' = [writer EXCEPT ![w] = new], IsWriter(new),
           new.pc = "create" =>
               /\ IsFiniteSet(NewDatasets(new, w))
               /\ ~new.moved /\ NewDatasets(new, w) # {} =>
                      Cardinality(dataset) + Cardinality(NewDatasets(new, w)) <= DatasetMax
    PROVE  CapInv'
<1>1. /\ writer'[w] = new /\ \A v \in Writers \ {w} : writer'[v] = writer[v]
      /\ writer' = [v \in Writers |-> writer'[v]]
  BY DEF CapInv
<1>2. \A v \in Writers : IsWriter(writer[v])' /\ HasRoom(v)'
  <2>1. ASSUME NEW v \in Writers PROVE IsWriter(writer'[v]) /\ HasRoom(v)'
    <3>1. CASE v = w
      BY <1>1, <3>1 DEF HasRoom
    <3>2. CASE v # w
      <4>1. IsWriter(writer[v]) /\ HasRoom(v)
        BY DEF CapInv
      <4> QED  BY <1>1, <3>2, <4>1 DEF HasRoom
    <3> QED  BY <3>1, <3>2
  <2> QED  BY <2>1
<1> QED  BY <1>1, <1>2 DEF CapInv, CapExceededOnlyByRace

LEMMA CapFinishes ==
    ASSUME CapInv, UNCHANGED <<kinds, Rows>>, NEW w \in Writers, NEW answer, Finish(w, answer)
    PROVE  CapInv'
<1>1. PICK new : /\ writer' = [writer EXCEPT ![w] = new] /\ new.pc = "done"
                 /\ UNCHANGED <<kinds, dataset, excess>>
  BY DEF Finish, Rows
<1> QED  BY <1>1, CapGoesOn DEF IsWriter

\* A writer at work moves to another step, and keeps the rest.
LEMMA CapMovesOn ==
    ASSUME CapInv, UNCHANGED <<kinds, Rows>>, NEW w \in Writers, NEW pc \in {"check", "catch"},
           writer[w].pc \notin {"idle", "done"}, writer' = [writer EXCEPT ![w].pc = pc]
    PROVE  CapInv'
<1> DEFINE new == [writer[w] EXCEPT !.pc = pc]
<1>1. IsWriter(writer[w])
  BY DEF CapInv
<1>2. new = [pc |-> pc, kind |-> writer[w].kind, body |-> writer[w].body, key |-> writer[w].key,
             late |-> writer[w].late, moved |-> writer[w].moved, plan |-> writer[w].plan]
  BY <1>1 DEF IsWriter
<1>3. IsWriter(new) /\ new.pc # "create"
  BY <1>1, <1>2 DEF IsWriter
<1>4. writer' = [writer EXCEPT ![w] = new]
  BY DEF CapInv
<1> HIDE DEF new
<1> QED  BY <1>3, <1>4, CapGoesOn DEF Rows

LEMMA CapBeginStep == ASSUME CapInv, NEW w \in Writers, Begin(w) PROVE CapInv'
<1>1. PICK kind \in kinds : \E body \in Bodies(kind) :
      \E k \in {None} \cup (IF kind \in {"action", "sync"} THEN {} ELSE Keys) :
        writer' = [writer EXCEPT ![w] =
          [pc |-> IF k = None THEN "check" ELSE "lookup", kind |-> kind, body |-> body,
           key |-> k, late |-> k # None /\ ledger[k] # Unused, moved |-> FALSE, plan |-> {}]]
  BY DEF Begin
<1>2. PICK body \in Bodies(kind), k \in {None} \cup Keys :
        writer' = [writer EXCEPT ![w] =
          [pc |-> IF k = None THEN "check" ELSE "lookup", kind |-> kind, body |-> body,
           key |-> k, late |-> k # None /\ ledger[k] # Unused, moved |-> FALSE, plan |-> {}]]
  BY <1>1
<1>3. PICK new :
        /\ new = [pc |-> IF k = None THEN "check" ELSE "lookup", kind |-> kind, body |-> body,
                  key |-> k, late |-> k # None /\ ledger[k] # Unused, moved |-> FALSE, plan |-> {}]
        /\ writer' = [writer EXCEPT ![w] = new]
  BY <1>2
<1>4. kind \in WriterKind /\ (kind = "sync" => body \in SUBSET Codes)
  BY DEF CapInv, Bodies
<1>5. new.pc \in {"check", "lookup"}
  BY <1>3
<1>6. IsWriter(new)
  BY <1>3, <1>4 DEF IsWriter
<1>7. UNCHANGED <<kinds, dataset, excess>>
  BY DEF Begin, Rows
<1> QED  BY <1>3, <1>5, <1>6, <1>7, CapGoesOn

LEMMA CapLookupStep == ASSUME CapInv, NEW w \in Writers, Lookup(w) PROVE CapInv'
<1>1. CASE writer' = [writer EXCEPT ![w].pc = "check"]
  BY <1>1, CapMovesOn DEF Lookup
<1>2. CASE Finish(w, Replay(writer[w].kind, writer[w].key))
  BY <1>2, CapFinishes DEF Lookup
<1> QED  BY <1>1, <1>2 DEF Lookup

\* A sync inserts a row for each code that it plans to create.
LEMMA RowsOfPlan ==
    ASSUME NEW P, IsFiniteSet(P), NEW made1, made1 = {<<c, "source">> : c \in P}
    PROVE  IsFiniteSet(made1) /\ Cardinality(made1) <= Cardinality(P) /\ (P = {} => made1 = {})
<1> DEFINE rowOf == [c \in P |-> <<c, "source">>]
<1>1. rowOf \in Surjection(P, made1)
  BY DEF Surjection
<1> QED  BY <1>1, FS_Surjection

LEMMA CapCheckStep == ASSUME CapInv, NEW w \in Writers, Check(w) PROVE CapInv'
<1> DEFINE q == writer[w]
           known == {d[1] : d \in {e \in dataset : e[2] = "source"}}
<1>1. UNCHANGED <<kinds, Rows>> /\ UNCHANGED <<dataset, excess>> /\ q.pc = "check"
  BY DEF Check, Rows
<1>2. CASE Refusal(q.kind, q.body) # "ok"
  BY <1>1, <1>2, CapFinishes DEF Check
<1>3. CASE Refusal(q.kind, q.body) = "ok"
  <2>1. IsWriter(q) /\ Cardinality(dataset) \in Nat
    BY FS_CardinalityType DEF CapInv
  <2>2. PICK P : P = IF q.kind # "sync" THEN {} ELSE PlanSync(q.body, known, Cardinality(dataset))
    OBVIOUS
  <2>3. writer' = [writer EXCEPT ![w] = [q EXCEPT !.pc = "create", !.plan = P]]
    BY <1>3, <2>2 DEF Check
  <2>4. /\ P \in SUBSET Codes /\ IsFiniteSet(P)
        /\ P # {} => Cardinality(dataset) + Cardinality(P) <= DatasetMax
    <3>1. CASE q.kind # "sync"
      BY <2>2, <3>1, FS_EmptySet
    <3>2. CASE q.kind = "sync"
      <4>1. q.body \in SUBSET Codes
        BY <1>1, <2>1, <3>2 DEF IsWriter
      <4>2. PlanSync(q.body, known, Cardinality(dataset)) \subseteq q.body
        BY DEF PlanSync
      <4> QED  BY <2>1, <2>2, <3>2, <4>1, <4>2, PlanFits
    <3> QED  BY <3>1, <3>2
  <2>5. PICK new : /\ new = [q EXCEPT !.pc = "create", !.plan = P]
                   /\ writer' = [writer EXCEPT ![w] = new]
    BY <2>3
  <2>6. /\ new = [pc |-> "create", kind |-> q.kind, body |-> q.body, key |-> q.key,
                  late |-> q.late, moved |-> q.moved, plan |-> P]
        /\ q.kind \in WriterKind /\ q.moved \in BOOLEAN /\ (q.kind = "sync" => q.body \in SUBSET Codes)
    BY <1>1, <2>1, <2>5 DEF IsWriter
  <2>7. IsWriter(new)
    BY <2>4, <2>6 DEF IsWriter
  <2>8. /\ IsFiniteSet(NewDatasets(new, w))
        /\ NewDatasets(new, w) # {} =>
               Cardinality(dataset) + Cardinality(NewDatasets(new, w)) <= DatasetMax
    <3>1. CASE q.kind = "dataset"
      <4>1. NewDatasets(new, w) = {<<q.body, w>>}
        BY <2>6, <3>1 DEF NewDatasets
      <4>2. Cardinality(dataset) < DatasetMax
        BY <1>3, <2>1, <3>1, CatalogAssumption DEF Refusal, RefusalOfDataset
      <4>3. IsFiniteSet(NewDatasets(new, w)) /\ Cardinality(NewDatasets(new, w)) = 1
        BY <4>1, FS_Singleton
      <4> QED  BY <2>1, <4>2, <4>3, CatalogAssumption
    <3>2. CASE q.kind = "sync"
      <4>1. NewDatasets(new, w) = {<<c, "source">> : c \in P}
        BY <2>6, <3>2 DEF NewDatasets
      <4>2. /\ IsFiniteSet(NewDatasets(new, w))
            /\ Cardinality(NewDatasets(new, w)) <= Cardinality(P)
            /\ P = {} => NewDatasets(new, w) = {}
        BY <2>4, <4>1, RowsOfPlan
      <4>3. Cardinality(P) \in Nat /\ Cardinality(NewDatasets(new, w)) \in Nat
        BY <2>4, <4>2, FS_CardinalityType
      <4> QED  BY <2>1, <2>4, <4>2, <4>3, CatalogAssumption
    <3>3. CASE q.kind \notin Bulk
      BY <2>6, <3>3, FS_EmptySet DEF NewDatasets, Bulk
    <3> QED  BY <3>1, <3>2, <3>3 DEF Bulk
  <2> QED  BY <1>1, <2>5, <2>7, <2>8, CapGoesOn
<1> QED  BY <1>2, <1>3

\* A commit: the rows of a writer that nobody outdated had room, those of the others are excess.
LEMMA CapCommitStep ==
    ASSUME CapInv, NEW w \in Writers, Create(w), Violation(w) = "none" PROVE CapInv'
<1> DEFINE q == writer[w]
           N == NewDatasets(q, w)
           done == [pc |-> "done", kind |-> q.kind, key |-> q.key, late |-> q.late,
                    answer |-> Answer("created", w)]
           to == [v \in Writers |-> IF v = w THEN done
                    ELSE IF writer[v].pc = "create" /\ Outdates(q.kind, writer[v].kind)
                         THEN [writer[v] EXCEPT !.moved = TRUE] ELSE writer[v]]
<1>1. /\ q.pc = "create" /\ UNCHANGED kinds /\ dataset' = dataset \cup N /\ writer' = to
      /\ excess' = IF q.moved THEN excess + Cardinality(dataset') - Cardinality(dataset) ELSE excess
  BY DEF Create
<1>2. done.pc = "done"
  OBVIOUS
<1> HIDE DEF done
<1>3. IsWriter(q) /\ q.kind \in WriterKind /\ q.moved \in BOOLEAN /\ HasRoom(w)
  BY <1>1 DEF CapInv, IsWriter
<1>4. /\ IsFiniteSet(dataset) /\ IsFiniteSet(N) /\ IsFiniteSet(dataset')
      /\ Cardinality(dataset) \in Nat /\ Cardinality(N) \in Nat /\ Cardinality(dataset') \in Nat
      /\ Cardinality(dataset) <= Cardinality(dataset')
      /\ Cardinality(dataset') <= Cardinality(dataset) + Cardinality(N)
  <2>1. IsFiniteSet(dataset) /\ IsFiniteSet(N)
    BY <1>1, <1>3 DEF CapInv, HasRoom
  <2>2. /\ IsFiniteSet(dataset \cup N) /\ IsFiniteSet(dataset \cap N)
        /\ Cardinality(dataset \cup N) =
               Cardinality(dataset) + Cardinality(N) - Cardinality(dataset \cap N)
    BY <2>1, FS_Union, FS_Intersection
  <2>3. Cardinality(dataset) <= Cardinality(dataset \cup N)
    BY <2>2, FS_Subset
  <2> HIDE DEF N
  <2> QED  BY <1>1, <2>1, <2>2, <2>3, FS_CardinalityType
<1>5. excess' \in Nat /\ CapExceededOnlyByRace'
  <2>1. excess \in Nat /\ Cardinality(dataset) <= DatasetMax + excess /\ DatasetMax \in Nat
    BY CatalogAssumption DEF CapInv, CapExceededOnlyByRace
  <2>2. CASE q.moved
    BY <1>1, <1>4, <2>1, <2>2 DEF CapExceededOnlyByRace
  <2>3. CASE ~q.moved /\ N # {}
    <3>1. Cardinality(dataset) + Cardinality(N) <= DatasetMax
      BY <1>1, <1>3, <2>3 DEF HasRoom
    <3> QED  BY <1>1, <1>4, <2>1, <2>3, <3>1 DEF CapExceededOnlyByRace
  <2>4. CASE ~q.moved /\ N = {}
    BY <1>1, <2>1, <2>4 DEF CapExceededOnlyByRace
  <2> QED  BY <1>3, <2>2, <2>3, <2>4
<1>6. ASSUME NEW v \in Writers PROVE IsWriter(writer'[v]) /\ HasRoom(v)'
  <2>1. IsWriter(writer[v]) /\ HasRoom(v)
    BY DEF CapInv
  <2>2. CASE v = w
    BY <1>1, <1>2, <2>2 DEF IsWriter, HasRoom
  <2>3. CASE v # w /\ writer[v].pc = "create" /\ Outdates(q.kind, writer[v].kind)
    <3>1. PICK r : r = writer[v]
      OBVIOUS
    <3>2. r = [pc |-> r.pc, kind |-> r.kind, body |-> r.body, key |-> r.key, late |-> r.late,
               moved |-> r.moved, plan |-> r.plan]
      BY <2>1, <2>3, <3>1 DEF IsWriter
    <3>3. writer'[v] = [pc |-> r.pc, kind |-> r.kind, body |-> r.body, key |-> r.key,
                        late |-> r.late, moved |-> TRUE, plan |-> r.plan]
      BY <1>1, <2>3, <3>1, <3>2
    <3>4. IsWriter(writer'[v]) /\ writer'[v].moved
      BY <2>1, <2>3, <3>1, <3>3 DEF IsWriter
    <3>5. NewDatasets(writer'[v], v) = NewDatasets(writer[v], v)
      BY <3>1, <3>3 DEF NewDatasets
    <3> QED  BY <2>1, <2>3, <3>4, <3>5 DEF HasRoom
  <2>4. CASE v # w /\ ~(writer[v].pc = "create" /\ Outdates(q.kind, writer[v].kind))
    <3>1. writer'[v] = writer[v]
      BY <1>1, <2>4
    <3>2. writer[v].pc = "create" => dataset' = dataset \/ NewDatasets(writer[v], v) = {}
      <4>1. q.kind \in Bulk \/ N = {}
        BY DEF Bulk, NewDatasets
      <4>2. writer[v].kind \in Bulk \/ NewDatasets(writer[v], v) = {}
        BY DEF Bulk, NewDatasets
      <4> QED  BY <1>1, <2>4, <4>1, <4>2 DEF Outdates, Bulk
    <3> QED  BY <2>1, <3>1, <3>2 DEF HasRoom
  <2> QED  BY <2>2, <2>3, <2>4
<1>7. writer' = [v \in Writers |-> writer'[v]] /\ kinds' \subseteq WriterKind
  BY <1>1 DEF CapInv
<1> QED  BY <1>4, <1>5, <1>6, <1>7 DEF CapInv

LEMMA CapCreateStep == ASSUME CapInv, NEW w \in Writers, Create(w) PROVE CapInv'
<1>1. CASE Violation(w) = "none"
  BY <1>1, CapCommitStep
<1>2. CASE Violation(w) = "key"
  BY <1>2, CapMovesOn DEF Create
<1>3. CASE Violation(w) \notin {"none", "key"}
  BY <1>3, CapFinishes DEF Create
<1> QED  BY <1>1, <1>2, <1>3

LEMMA CapSweepStep == ASSUME CapInv, Sweep PROVE CapInv'
<1>1. dataset' = {} /\ excess' = 0 /\ UNCHANGED <<kinds, writer>>
      /\ \A w \in Writers : writer[w].pc # "create"
  BY DEF Sweep
<1> QED  BY <1>1, FS_EmptySet, CatalogAssumption DEF CapInv, HasRoom, CapExceededOnlyByRace

LEMMA CapStutter == ASSUME CapInv, UNCHANGED catalogVars PROVE CapInv'
  BY DEF CapInv, catalogVars, HasRoom, CapExceededOnlyByRace

\* The invariant of the quota of datasets: a create on a count that has not moved still has
\* the room that it counted (api/v1/datasets/route.ts:102, sources/sync-core.ts:42).
THEOREM CapInductive == CatalogSpec => []CapInv
<1>1. CapInv /\ CatalogNext => CapInv'
  <2> SUFFICES ASSUME CapInv, CatalogNext PROVE CapInv'
    OBVIOUS
  <2>1. ASSUME NEW w \in Writers, Catch(w) PROVE CapInv'
    BY <2>1, CapFinishes DEF Catch
  <2> QED  BY <2>1, CapBeginStep, CapLookupStep, CapCheckStep, CapCreateStep, CapSweepStep
           DEF CatalogNext
<1>2. CapInv /\ [CatalogNext]_catalogVars => CapInv'
  BY <1>1, CapStutter
<1> QED  BY <1>2, CapBegins, PTL DEF CatalogSpec

\* The workspace implements the catalogue, so that what is proved of its writers and their keys
\* holds in a workspace: no step of another part works on the catalogue.
THEOREM CatalogInWorkspace == WorkspaceSpec => CatalogSpec
<1>1. WorkspaceInit => CatalogInit
  BY DEF WorkspaceInit
<1>2. [WorkspaceNext]_workspaceVars => [CatalogNext]_catalogVars
  BY DEF WorkspaceNext, workspaceVars, Around1, CatalogRuns, PublishingRuns, GatewayRuns,
         SourcesRun, AdmissionRuns, ReadsRun, AccessRuns, ScreensRun, ApprovalsRun, FirstEntryRuns
<1> QED  BY <1>1, <1>2, PTL DEF WorkspaceSpec, CatalogSpec

-----------------------------------------------------------------------------
(* The cap on sources: a registration that counted has its place until another one commits. *)

IsRegistrar(q) == q = Src!Idle \/ (q = [pc |-> "create", moved |-> q.moved] /\ q.moved \in BOOLEAN)
PlaceInv ==
    /\ overbooked \in Nat
    /\ registrar = [r \in Registrars |-> registrar[r]]
    /\ \A r \in Registrars : IsRegistrar(registrar[r])
    /\ \A r \in Registrars : registrar[r].pc = "create" /\ ~registrar[r].moved =>
           Cardinality(Src!Here) < DatasourceMax
    /\ Cardinality(Src!Here) <= DatasourceMax + overbooked

SourceCapInv == RefreshInv /\ PlaceInv

LEMMA HereIsFinite ==
    ASSUME RefreshInv
    PROVE  IsFiniteSet(Src!Here) /\ Cardinality(Src!Here) \in Nat
  BY FS_CardinalityType DEF RefreshInv

LEMMA PlacesBegin == Src!SourcesInit => PlaceInv
<1> SUFFICES ASSUME Src!SourcesInit PROVE PlaceInv
  OBVIOUS
<1>1. /\ source = [s \in SourceIds |-> Gone] /\ overbooked = 0
      /\ registrar = [r \in Registrars |-> Src!Idle]
  BY DEF Src!SourcesInit
<1>2. Src!Here = {}
  BY <1>1 DEF Src!Here
<1>3. Cardinality(Src!Here) = 0 /\ Src!Idle.pc # "create"
  BY <1>2, FS_EmptySet DEF Src!Idle
<1> QED  BY <1>1, <1>3, SourcesAssumption DEF PlaceInv, IsRegistrar

\* The sources stay, and nobody counts them.
LEMMA PlacesKept ==
    ASSUME PlaceInv, UNCHANGED <<registrar, overbooked>>, Src!Here' = Src!Here PROVE PlaceInv'
  BY DEF PlaceInv, IsRegistrar

LEMMA CountStep == ASSUME PlaceInv, NEW r \in Registrars, Src!CountSources(r) PROVE PlaceInv'
<1>1. /\ Cardinality(Src!Here) < DatasourceMax /\ UNCHANGED <<source, overbooked>>
      /\ registrar' = [registrar EXCEPT ![r] = [pc |-> "create", moved |-> FALSE]]
  BY SameCardinality DEF Src!CountSources
<1>2. Src!Here' = Src!Here
  BY <1>1 DEF Src!Here
<1> QED  BY <1>1, <1>2 DEF PlaceInv, IsRegistrar

LEMMA MovedOn ==
    ASSUME NEW m, NEW n
    PROVE  [[pc |-> "create", moved |-> m] EXCEPT !.moved = n] = [pc |-> "create", moved |-> n]
  OBVIOUS

LEMMA PlaceTakenStep ==
    ASSUME SourceCapInv, RefreshInv', NEW r \in Registrars, Src!RegisterDataSource(r) PROVE PlaceInv'
<1> DEFINE to == [q \in Registrars |-> IF q = r THEN Src!Idle ELSE
              IF registrar[q].pc = "create" THEN [registrar[q] EXCEPT !.moved = TRUE]
              ELSE registrar[q]]
<1>1. PICK n \in Names, s \in Src!Free :
        /\ source' = [source EXCEPT ![s] = [name |-> n, status |-> "connected", held |-> FALSE]]
        /\ registrar[r].pc = "create" /\ registrar' = to
        /\ overbooked' = overbooked + (IF registrar[r].moved THEN 1 ELSE 0)
  BY DEF Src!RegisterDataSource
<1>2. s \notin Src!Here /\ \A t \in SourceIds \ {s} : source'[t] = source[t]
  BY <1>1 DEF Src!Free, SourceCapInv, RefreshInv, SourceShapes
<1>3. Src!Here' \subseteq Src!Here \cup {s}
  BY <1>2 DEF Src!Here
<1>4. /\ Cardinality(Src!Here) \in Nat /\ Cardinality(Src!Here') \in Nat
      /\ Cardinality(Src!Here') <= Cardinality(Src!Here) + 1
  <2>1. IsFiniteSet(Src!Here) /\ IsFiniteSet(Src!Here')
    BY DEF SourceCapInv, RefreshInv
  <2>2. /\ IsFiniteSet(Src!Here \cup {s})
        /\ Cardinality(Src!Here \cup {s}) <= Cardinality(Src!Here) + 1
    <3>1. Cardinality(Src!Here) \in Nat
      BY <2>1, FS_CardinalityType
    <3>2. /\ IsFiniteSet(Src!Here \cup {s})
          /\ Cardinality(Src!Here \cup {s}) =
                 IF s \in Src!Here THEN Cardinality(Src!Here) ELSE Cardinality(Src!Here) + 1
      BY <2>1, FS_AddElement
    <3> QED  BY <3>1, <3>2
  <2>3. Cardinality(Src!Here') <= Cardinality(Src!Here \cup {s})
    BY <1>3, <2>2, FS_Subset
  <2> QED  BY <2>1, <2>2, <2>3, FS_CardinalityType
<1>5. registrar[r].moved \in BOOLEAN /\ overbooked \in Nat
  BY <1>1 DEF SourceCapInv, PlaceInv, IsRegistrar, Src!Idle
<1>6. Cardinality(Src!Here') <= DatasourceMax + overbooked'
  <2>1. CASE registrar[r].moved
    BY <1>1, <1>4, <1>5, <2>1, SourcesAssumption DEF SourceCapInv, PlaceInv
  <2>2. CASE ~registrar[r].moved
    <3>1. Cardinality(Src!Here) < DatasourceMax
      BY <1>1, <2>2 DEF SourceCapInv, PlaceInv
    <3> QED  BY <1>1, <1>4, <1>5, <2>2, <3>1, SourcesAssumption
  <2> QED  BY <2>1, <2>2
<1>7. ASSUME NEW q \in Registrars
      PROVE  IsRegistrar(registrar'[q]) /\ (registrar'[q].pc = "create" => registrar'[q].moved)
  <2>1. IsRegistrar(registrar[q])
    BY DEF SourceCapInv, PlaceInv
  <2>2. CASE q # r /\ registrar[q].pc = "create"
    <3>1. registrar'[q] = [registrar[q] EXCEPT !.moved = TRUE]
      BY <1>1, <2>2
    <3>2. PICK m \in BOOLEAN : registrar[q] = [pc |-> "create", moved |-> m]
      BY <2>1, <2>2 DEF IsRegistrar, Src!Idle
    <3>3. [[pc |-> "create", moved |-> m] EXCEPT !.moved = TRUE] = [pc |-> "create", moved |-> TRUE]
      BY MovedOn
    <3>4. registrar'[q] = [pc |-> "create", moved |-> TRUE]
      BY <3>1, <3>2, <3>3
    <3> QED  BY <3>4 DEF IsRegistrar
  <2>3. CASE ~(q # r /\ registrar[q].pc = "create")
    <3>1. registrar'[q] = Src!Idle \/ (registrar'[q] = registrar[q] /\ registrar[q].pc # "create")
      BY <1>1, <2>3
    <3> QED  BY <2>1, <3>1 DEF IsRegistrar, Src!Idle
  <2> QED  BY <2>2, <2>3
<1>8. registrar' = [q \in Registrars |-> registrar'[q]]
  BY <1>1
<1>9. overbooked' \in Nat
  BY <1>1, <1>5
<1> HIDE DEF to
<1> QED  BY <1>6, <1>7, <1>8, <1>9 DEF PlaceInv

LEMMA PlaceLeftStep ==
    ASSUME SourceCapInv, NEW s \in SourceIds, Src!UnbindDataSource(s) PROVE PlaceInv'
<1>1. /\ s \in Src!Here /\ source' = [source EXCEPT ![s] = Gone] /\ UNCHANGED registrar
      /\ overbooked' = Src!Max({0, overbooked - 1})
  BY DEF Src!UnbindDataSource
<1>2. Src!Here' = Src!Here \ {s}
  BY <1>1 DEF SourceCapInv, RefreshInv, SourceShapes, Src!Here
<1>3. Cardinality(Src!Here) \in Nat /\ Cardinality(Src!Here') = Cardinality(Src!Here) - 1
  BY <1>1, <1>2, HereIsFinite, FS_RemoveElement DEF SourceCapInv
<1>4. /\ overbooked \in Nat
      /\ overbooked' = IF overbooked > 0 THEN overbooked - 1 ELSE 0
  <2>1. overbooked \in Nat
    BY DEF SourceCapInv, PlaceInv
  <2> QED  BY <1>1, <2>1 DEF Src!Max
<1>5. /\ Cardinality(Src!Here) <= DatasourceMax + overbooked /\ DatasourceMax \in Nat
      /\ \A r \in Registrars : registrar[r].pc = "create" /\ ~registrar[r].moved =>
             Cardinality(Src!Here) < DatasourceMax
  BY SourcesAssumption DEF SourceCapInv, PlaceInv
<1>6. /\ overbooked' \in Nat /\ Cardinality(Src!Here') <= DatasourceMax + overbooked'
      /\ \A r \in Registrars : registrar[r].pc = "create" /\ ~registrar[r].moved =>
             Cardinality(Src!Here') < DatasourceMax
  BY <1>3, <1>4, <1>5
<1> QED  BY <1>1, <1>6 DEF SourceCapInv, PlaceInv, IsRegistrar

\* The steps of the syncs register nothing and unbind nothing.
LEMMA SyncsKeepSources ==
    ASSUME RefreshInv, NEW a \in Src!Actors,
           \/ Src!Pull(a) \/ Src!SyncCommits(a) \/ Src!SyncThrows(a) \/ Src!Catch(a)
           \/ Src!CatchThrows(a) \/ Src!ReadSizes(a) \/ Src!SendReport(a)
    PROVE  UNCHANGED <<registrar, overbooked>> /\ Src!Here' = Src!Here
<1> USE DEF Src!gaugeVars
<1>1. CASE Src!SyncCommits(a)
  <2>1. /\ sync[a].id \in Src!Here /\ UNCHANGED <<registrar, overbooked>>
        /\ source' = [source EXCEPT ![sync[a].id].status = "connected", ![sync[a].id].held = FALSE]
    BY <1>1 DEF Src!SyncCommits, Src!Commits
  <2> QED  BY <2>1, MarkKeepsSources
<1>2. CASE Src!Catch(a)
  <2>1. /\ sync[a].id \in Src!Here /\ UNCHANGED <<registrar, overbooked>>
        /\ source' = [source EXCEPT ![sync[a].id].status = "disconnected",
                                    ![sync[a].id].held = sync[a].held]
    BY <1>2 DEF Src!Catch
  <2>2. sync[a] \in SyncRow
    BY <1>2 DEF Src!Catch, RefreshInv, SourceShapes, IsSync, Src!Idle
  <2>3. PICK held \in BOOLEAN : held = sync[a].held
    BY <2>2 DEF SyncRow
  <2>4. source' = [source EXCEPT ![sync[a].id].status = "disconnected", ![sync[a].id].held = held]
    BY <2>1, <2>3
  <2> QED  BY <2>1, <2>4, MarkKeepsSources
<1>3. CASE ~Src!SyncCommits(a) /\ ~Src!Catch(a)
  BY <1>3 DEF Src!Pull, Src!SyncThrows, Src!CatchThrows, Src!ReadSizes, Src!SendReport, Src!Here
<1> QED  BY <1>1, <1>2, <1>3

LEMMA PlaceStep ==
    ASSUME SourceCapInv, RefreshInv', [Src!SourcesNext]_Src!sourceVars PROVE PlaceInv'
<1>1. ASSUME \/ UNCHANGED Src!sourceVars \/ Src!StartJob \/ Src!EndTick \/ Src!ReportArrives
             \/ Src!ReportLost \/ Src!ApiCreate \/ \E a \in Syncers : Src!StartSync(a)
      PROVE  PlaceInv'
  <2>1. UNCHANGED <<registrar, overbooked, source>>
    BY <1>1 DEF Src!sourceVars, Src!StartJob, Src!EndTick, Src!ReportArrives, Src!ReportLost,
                Src!ApiCreate, Src!StartSync
  <2>2. Src!Here' = Src!Here
    BY <2>1 DEF Src!Here
  <2> QED  BY <2>1, <2>2, PlacesKept DEF SourceCapInv
<1> QED  BY <1>1, CountStep, PlaceTakenStep, PlaceLeftStep, SyncsKeepSources, PlacesKept
         DEF Src!SourcesNext, SourceCapInv

THEOREM SourceCapInductive == WorkspaceSpec => [](part = "sources" => SourceCapInv)
<1>1. WorkspaceInit => (part = "sources" => PlaceInv)
  BY PlacesBegin DEF WorkspaceInit, SourcesBegin
<1>2. (part = "sources" => RefreshInv) /\ (part = "sources" => RefreshInv)'
      /\ (part = "sources" => PlaceInv) /\ [WorkspaceNext]_workspaceVars
      => (part = "sources" => PlaceInv)'
  BY SourcesFrame, PlaceStep DEF SourceCapInv
<1>3. (part = "sources" => RefreshInv) /\ (part = "sources" => PlaceInv)
      => (part = "sources" => SourceCapInv)
  BY DEF SourceCapInv
<1> QED  BY <1>1, <1>2, <1>3, RefreshInductive, PTL DEF WorkspaceSpec

\* The plan's caps hold: the datasets and the sources outgrow them by no more than what was
\* created on a count that had moved (sources/actions.ts:57, sources/sync-core.ts:42).
THEOREM CapsTheorem == WorkspaceSpec => []CapsHold
<1>1. CapInv => CapExceededOnlyByRace
  BY DEF CapInv
<1>2. SourceCapInv => Src!SourceCapHolds
  BY SameCardinality DEF SourceCapInv, PlaceInv, Src!SourceCapHolds
<1> QED  BY <1>1, <1>2, CapInductive, CatalogInWorkspace, SourceCapInductive, PTL DEF CapsHold

\* The types of sources, their datasets and the gauge; a stamp is within the bound of reports.
THEOREM SourcesTypes == WorkspaceSpec => [](part = "sources" => Src!SourcesTypeOK)
<1> DEFINE J == part = "sources" => extra \in 0..1
           K == part = "sources" => Src!SourcesTypeOK
<1>1. WorkspaceInit => J
  BY DEF WorkspaceInit, SourcesBegin, Src!SourcesInit
<1>2. J /\ [WorkspaceNext]_workspaceVars => J'
  <2> SUFFICES ASSUME extra \in 0..1, [Src!SourcesNext]_Src!sourceVars PROVE extra' \in 0..1
    BY SourcesFrame
  <2>1. ASSUME NEW r \in Registrars, Src!CountSources(r) \/ Src!RegisterDataSource(r) PROVE extra' = extra
    BY <2>1 DEF Src!CountSources, Src!RegisterDataSource
  <2>2. ASSUME NEW s \in SourceIds, Src!UnbindDataSource(s) PROVE extra' = extra
    BY <2>2 DEF Src!UnbindDataSource
  <2>3. ASSUME NEW a \in Src!Actors,
               Src!StartSync(a) \/ Src!StartJob \/ Src!EndTick \/ Src!Pull(a) \/ Src!SyncThrows(a)
        PROVE  extra' = extra
    BY <2>3 DEF Src!StartSync, Src!StartJob, Src!EndTick, Src!Pull, Src!SyncThrows
  <2>4. ASSUME NEW a \in Src!Actors,
               Src!SyncCommits(a) \/ Src!Catch(a) \/ Src!CatchThrows(a) \/ Src!ReadSizes(a)
               \/ Src!SendReport(a)
        PROVE  extra' = extra
    BY <2>4 DEF Src!SyncCommits, Src!Catch, Src!CatchThrows, Src!ReadSizes, Src!SendReport
  <2>5. CASE Src!ReportArrives \/ Src!ReportLost \/ UNCHANGED Src!sourceVars
    BY <2>5 DEF Src!ReportArrives, Src!ReportLost, Src!sourceVars
  <2>6. CASE Src!ApiCreate
    BY <2>6 DEF Src!ApiCreate
  <2> QED  BY <2>1, <2>2, <2>3, <2>4, <2>5, <2>6, ActorsAreFinite DEF Src!SourcesNext, Src!Actors
<1>3. GaugeInv /\ PlaceInv /\ extra \in 0..1 => Src!SourcesTypeOK
  <2> SUFFICES ASSUME GaugeInv, PlaceInv, extra \in 0..1 PROVE Src!SourcesTypeOK
    OBVIOUS
  <2>1. \A s \in Src!Here : source[s] \in SourceRow
    BY DEF GaugeInv, RefreshInv, SourceShapes, Src!Here
  <2>2. \A c \in Src!Rows : copied[c] \in DatasetRow
    BY DEF GaugeInv, RefreshInv, SourceShapes, Src!Rows
  <2>3. Src!Stamping \subseteq Src!Actors /\ Cardinality(Src!Stamping) \in Nat
    BY ActorsAreFinite DEF Src!Stamping
  <2>4. scenario.reports \in Nat
    BY SourcesAssumption DEF GaugeInv, RefreshInv, SourceShapes
  <2>5. stamps \in 0..scenario.reports
    BY <2>3, <2>4 DEF GaugeInv, StampsAreBounded, ReportsAreStamped
  <2> QED  BY <2>1, <2>2, <2>5 DEF SourceRow, DatasetRow, GaugeInv, ReportsAreStamped, PlaceInv,
                                  Src!SourcesTypeOK
<1>4. (part = "sources" => GaugeInv) /\ (part = "sources" => SourceCapInv) /\ J => K
  BY <1>3 DEF SourceCapInv
<1> QED  BY <1>1, <1>2, <1>4, GaugeInductive, SourceCapInductive, PTL DEF WorkspaceSpec
=============================================================================
