----------------------------- MODULE UsageFlush -----------------------------
(***************************************************************************)
(* The usage buffer (UsageRaw) and the flush job that reports its rows to  *)
(* the platform's consume endpoint.                                        *)
(*                                                                         *)
(* A flush reads its batch once; for each row of it the POST, the update   *)
(* of the row and the eviction that follows a refusal are awaited one      *)
(* after the other, so each is a step.  The update writes the attempts of  *)
(* the row as the batch was read, plus one.  The platform is external: it  *)
(* settles an idempotency key once and repeats the outcome afterwards.     *)
(***************************************************************************)
EXTENDS Integers, FiniteSets

CONSTANTS
    Rows,          \* the rows that can be recorded, numbered in createdAt order
    Jobs,          \* flush requests that may run at the same time
    MaxAttempts,   \* MAX_ATTEMPTS
    Batch,         \* FLUSH_BATCH
    MaxMishaps     \* bound: process restarts and failing updates

ASSUME RowsAssumption == Rows \subseteq Nat /\ IsFiniteSet(Rows)
ASSUME FlushBounds ==
    /\ MaxAttempts \in Nat \ {0} /\ Batch \in Nat \ {0}
    /\ MaxMishaps \in Nat

VARIABLES
    raw,        \* the UsageRaw row of each number
    job,        \* what each flush is doing
    settled,    \* the platform's outcome for each idempotency key
    open,       \* whether the platform's pool still has quota
    shared,     \* history: rows that two flushes had in their batches at once
    uncounted,  \* history: rows whose update was lost to a restart or a fault
    posts,      \* history: POSTs made for each row, until it is one of those
    mishaps     \* restarts and failed updates so far

platform  == <<settled, open>>
flushVars == <<raw, job, settled, open, shared, uncounted, posts, mishaps>>

Raw == [state: {"absent", "pending", "flushed", "deleted"}, attempts: Nat]

\* An entry of a batch: the row as findMany returned it.
Entry == [row: Rows, attempts: Nat]
Idle  == [pc |-> "idle"]
Busy  == [pc: {"post", "count"}, batch: SUBSET Entry]
         \cup [pc: {"mark", "evict"}, batch: SUBSET Entry, status: {200, 409}]

TypeOK ==
    /\ raw \in [Rows -> Raw]
    /\ job \in [Jobs -> Busy \cup {Idle}]
    /\ settled \in [Rows -> {"no", "consumed", "refused"}]
    /\ open \in BOOLEAN
    /\ posts \in [Rows -> Nat]
    /\ shared \subseteq Rows
    /\ uncounted \subseteq Rows
    /\ mishaps \in Nat

FlushInit ==
    /\ raw = [r \in Rows |-> [state |-> "absent", attempts |-> 0]]
    /\ job = [j \in Jobs |-> Idle]
    /\ settled = [r \in Rows |-> "no"]
    /\ open = TRUE
    /\ posts = [r \in Rows |-> 0]
    /\ shared = {}
    /\ uncounted = {}
    /\ mishaps = 0

-----------------------------------------------------------------------------
(* The buffer. *)

\* recordUsage: an upsert that leaves an existing row alone; every caller draws a
\* fresh key, so the rows come in the order of their creation.
Record(r) ==
    /\ raw[r].state = "absent"
    /\ \A q \in Rows : q < r => raw[q].state # "absent"
    /\ raw' = [raw EXCEPT ![r].state = "pending"]
    /\ UNCHANGED <<job, platform, posts, shared, uncounted, mishaps>>

\* The hard-delete sweep clears the rows of the workspace, reported or not.
DeleteRows ==
    /\ \E r \in Rows : raw[r].state \in {"pending", "flushed"}
    /\ raw' = [r \in Rows |-> IF raw[r].state = "absent"
                              THEN raw[r]
                              ELSE [raw[r] EXCEPT !.state = "deleted"]]
    /\ UNCHANGED <<job, platform, posts, shared, uncounted, mishaps>>

-----------------------------------------------------------------------------
(* The flush. *)

EligibleFlushedToo(r) ==      \* mutant: the query forgets flushed = false
    raw[r].state \in {"pending", "flushed"} /\ raw[r].attempts < MaxAttempts
Eligible(r) == raw[r].state = "pending" /\ raw[r].attempts < MaxAttempts

\* The oldest eligible rows, at most Batch of them.
NextBatch ==
    LET due == {r \in Rows : Eligible(r)}
        first == {r \in due : Cardinality({q \in due : q < r}) < Batch}
    IN  {[row |-> r, attempts |-> raw[r].attempts] : r \in first}

InBatch(j, r) == job[j] # Idle /\ \E e \in job[j].batch : e.row = r
Current(j) == CHOOSE e \in job[j].batch : \A f \in job[j].batch : e.row <= f.row

\* The flush goes on with the rest of its batch, or is over.
Rest(j) == LET rest == job[j].batch \ {Current(j)}
           IN  IF rest = {} THEN Idle ELSE [pc |-> "post", batch |-> rest]

\* The query at the start of a flush; with nothing to do the flush is over.
Select(j) ==
    /\ job[j] = Idle
    /\ NextBatch # {}
    /\ job' = [job EXCEPT ![j] = [pc |-> "post", batch |-> NextBatch]]
    /\ shared' = shared \cup {r \in Rows : /\ \E e \in NextBatch : e.row = r
                                           /\ \E i \in Jobs : InBatch(i, r)}
    /\ UNCHANGED <<raw, platform, posts, uncounted, mishaps>>

\* The platform's answer to a key it has settled, or settles now.
Consume(r) ==
    \/ /\ settled[r] = "no" /\ open
       /\ settled' = [settled EXCEPT ![r] = "consumed"]
       /\ UNCHANGED open
    \/ /\ settled[r] = "no" /\ ~open
       /\ settled' = [settled EXCEPT ![r] = "refused"]
       /\ UNCHANGED open
    \/ settled[r] # "no" /\ UNCHANGED platform

StatusOf(outcome) == IF outcome = "consumed" THEN 200 ELSE 409
NoAnswer == 0

\* 200 and 409 are final; every other status, and a failed fetch, is transient.
SettlesAnyAnswer(status) == status # NoAnswer   \* mutant: res.ok is not looked at
Settles(status) == status \in {200, 409}

\* The POST of the current row: the platform settles it and answers, or the answer
\* is lost; or it answers an error, or is not reached.
Post(j) ==
    /\ job[j].pc = "post"
    /\ LET r == Current(j).row
           Answered(status) ==
               job' = [job EXCEPT ![j] =
                   IF Settles(status)
                   THEN [pc |-> "mark", batch |-> @.batch, status |-> IF status = 409 THEN 409 ELSE 200]
                   ELSE [pc |-> "count", batch |-> @.batch]]
       IN  /\ posts' = IF r \in shared \cup uncounted THEN posts ELSE [posts EXCEPT ![r] = @ + 1]
           /\ \/ /\ Consume(r)
                 /\ Answered(StatusOf(settled'[r])) \/ Answered(NoAnswer)
              \/ /\ UNCHANGED platform
                 /\ Answered(500) \/ Answered(NoAnswer)
    /\ UNCHANGED <<raw, shared, uncounted, mishaps>>

\* flushAttempts of the row as it was read, plus one.
AttemptsLeft(e) == e.attempts - 1      \* mutant: counted down, as if from MAX_ATTEMPTS
AttemptsKept(e) == e.attempts          \* mutant: the attempt is not counted
AttemptsAfter(e) == e.attempts + 1

\* The database is away, or restarts.
Fault == mishaps < MaxMishaps /\ mishaps' = mishaps + 1

\* Only a refusal evicts the cached entitlement.
RefusedNever(status) == FALSE          \* mutant: a 409 is treated like a 200
Refused(status) == status = 409

\* The update after a final answer.  A refusal is followed by the eviction; an
\* update that throws lands in the catch, whose update comes next.
Mark(j) ==
    /\ job[j].pc = "mark"
    /\ LET e == Current(j)
       IN  \/ /\ raw[e.row].state # "deleted"
              /\ raw' = [raw EXCEPT ![e.row] =
                            [state |-> "flushed", attempts |-> AttemptsAfter(e)]]
              /\ job' = [job EXCEPT ![j] =
                            IF Refused(@.status) THEN [@ EXCEPT !.pc = "evict"] ELSE Rest(j)]
              /\ UNCHANGED mishaps
           \/ /\ (raw[e.row].state = "deleted" /\ UNCHANGED mishaps) \/ Fault
              /\ job' = [job EXCEPT ![j] = [pc |-> "count", batch |-> @.batch]]
              /\ UNCHANGED raw
    /\ UNCHANGED <<platform, posts, shared, uncounted>>

\* The update after a transient failure leaves flushed alone.  If it throws, the
\* whole flush is over and the rest of its batch is not tried.
Count(j) ==
    /\ job[j].pc = "count"
    /\ LET e == Current(j)
       IN  \/ /\ raw[e.row].state # "deleted"
              /\ raw' = [raw EXCEPT ![e.row].attempts = AttemptsAfter(e)]
              /\ job' = [job EXCEPT ![j] = Rest(j)]
              /\ UNCHANGED <<uncounted, mishaps>>
           \/ /\ (raw[e.row].state = "deleted" /\ UNCHANGED mishaps) \/ Fault
              /\ uncounted' = uncounted \cup {e.row}
              /\ job' = [job EXCEPT ![j] = Idle]
              /\ UNCHANGED raw
    /\ UNCHANGED <<platform, posts, shared>>

\* invalidateCache, in the continuation of the update.
Evict(j) ==
    /\ job[j].pc = "evict"
    /\ job' = [job EXCEPT ![j] = Rest(j)]
    /\ UNCHANGED <<raw, platform, posts, shared, uncounted, mishaps>>

-----------------------------------------------------------------------------
(* The platform and the process. *)

\* Somebody else who reports to the pool exhausts it.
DrainPool ==
    /\ open
    /\ open' = FALSE
    /\ UNCHANGED <<raw, job, settled, posts, shared, uncounted, mishaps>>

\* A new period refills the pool.
ResetPool ==
    /\ ~open
    /\ open' = TRUE
    /\ UNCHANGED <<raw, job, settled, posts, shared, uncounted, mishaps>>

\* The row a flush has posted and not yet updated.
Unwritten(j) == IF job[j].pc \in {"mark", "count"} THEN {Current(j).row} ELSE {}

FlushCrash ==
    /\ mishaps < MaxMishaps
    /\ mishaps' = mishaps + 1
    /\ job' = [j \in Jobs |-> Idle]
    /\ uncounted' = uncounted \cup UNION {Unwritten(j) : j \in Jobs}
    /\ UNCHANGED <<raw, platform, posts, shared>>

JobStep(j) == Select(j) \/ Post(j) \/ Mark(j) \/ Count(j) \/ Evict(j)

FlushNext ==
    \/ \E r \in Rows : Record(r)
    \/ \E j \in Jobs : JobStep(j)
    \/ DeleteRows
    \/ DrainPool   \* the refill is Metering's: this specification is about one period
    \/ FlushCrash

FlushSpec == FlushInit /\ [][FlushNext]_flushVars

\* The scheduler calls the flush again and again, and a call runs to its end: a
\* fetch that hangs is ended by the runtime.  Nothing is assumed of the platform.
FlushFairness == \A j \in Jobs : WF_flushVars(JobStep(j))

FairFlushSpec == FlushSpec /\ FlushFairness

-----------------------------------------------------------------------------
(* Properties. *)

\* The buffer reports what was recorded, each row under one outcome: a row is marked flushed only
\* if the platform has settled its key, whatever answers were lost and whoever else was flushing,
\* and stays so until it is erased (usage/flush.ts).
Ledger == INSTANCE UsageLedger WITH Row <- Rows, stage <- [r \in Rows |-> raw[r].state]
RowsAreReportedOnce == Ledger!Spec

\* flushAttempts counts the POSTs of the row, the one in flight apart: retries of
\* a row end after MaxAttempts of them.  Excepted are rows that two flushes had in
\* hand, and rows whose update was lost to a restart or a fault.
AttemptsCountPosts ==
    \A r \in Rows \ (shared \cup uncounted) :
        posts[r] = raw[r].attempts + Cardinality({j \in Jobs : r \in Unwritten(j)})

\* A row marked flushed, consumed or refused, is final: no flush is about to post
\* it, unless two flushes had read it at once.
FlushedNotPosted ==
    \A j \in Jobs :
        job[j].pc = "post" =>
            LET r == Current(j).row IN raw[r].state = "flushed" => r \in shared

\* No row waits for ever behind rows that keep failing: each is flushed, deleted,
\* or has used up its attempts.
RowLeavesQueue ==
    \A r \in Rows :
        raw[r].state = "pending" ~> raw[r].state # "pending" \/ raw[r].attempts = MaxAttempts

\* A row that has used up its attempts is marked flushed, with an error.
GivenUpIsMarked ==
    \A r \in Rows :
        raw[r].state = "pending" /\ raw[r].attempts = MaxAttempts ~> raw[r].state # "pending"
=============================================================================
