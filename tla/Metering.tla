------------------------------ MODULE Metering ------------------------------
(***************************************************************************)
(* Metering end to end, for one workspace: a quality run asks the          *)
(* entitlement resolver whether the pool has quota left, records its usage *)
(* in the buffer, the flush reports it, and a refusal by the platform      *)
(* evicts the cached entitlement, so that the next run is turned away.     *)
(*                                                                         *)
(* The envelope's version changes whenever the pool is exhausted or        *)
(* refilled, so an even version says that there is quota and an odd one    *)
(* that there is none.                                                     *)
(***************************************************************************)
EXTENDS UsageFlush

CONSTANTS Workspace, Resolvers, Ttl, None, MaxVersion

VARIABLES
    envelope, cache, resolver, answer, floor,
    refusedAt,  \* history: the version at which each flush was last refused
    refusal,    \* history: the newest of those that a flush is through with
    known       \* history: what refusal was when each resolve began

Entitlement == INSTANCE Entitlement WITH Workspaces <- {Workspace}

cacheVars == <<envelope, cache, resolver, answer, floor>>
history   == <<refusedAt, refusal, known>>
vars      == <<flushVars, cacheVars, history>>

ASSUME MeteringBounds == Ttl \in Nat \ {0} /\ MaxVersion \in Nat
ASSUME MeteringNone == None \notin Entitlement!CacheEntry \cup Entitlement!Answer

NoRefusal == -1
HasQuota(version) == version % 2 = 0

MeteringTypeOK ==
    /\ TypeOK
    /\ Entitlement!CacheTypeOK
    /\ refusedAt \in [Jobs -> Nat \cup {NoRefusal}]
    /\ refusal \in Nat \cup {NoRefusal}
    /\ known \in [Resolvers -> Nat \cup {NoRefusal}]

Init ==
    /\ FlushInit
    /\ Entitlement!CacheInit
    /\ refusedAt = [j \in Jobs |-> NoRefusal]
    /\ refusal = NoRefusal
    /\ known = [r \in Resolvers |-> NoRefusal]

-----------------------------------------------------------------------------
(* A quality run: the gate, then the usage of the checks it ran. *)

BeginRun(r) ==
    /\ Entitlement!Resolve(r, Workspace)
    /\ known' = [known EXCEPT ![r] = refusal]
    /\ UNCHANGED <<flushVars, refusedAt, refusal>>

\* No pool, as in the free plan's fallback, or something left in it.
Admits(a) == a.kind = "fallback" \/ HasQuota(a.version)

\* A run that is let in records its usage, if the checks ran at all.
AdmitRun(r, u) ==
    /\ answer[r] # None /\ Admits(answer[r])
    /\ Entitlement!Use(r)
    /\ Record(u)
    /\ UNCHANGED history

EndRun(r) ==
    /\ Entitlement!Use(r)
    /\ UNCHANGED <<flushVars, history>>

-----------------------------------------------------------------------------
(* The flush and the platform. *)

\* The flush is through with a row that was refused.
Passed(j) ==
    /\ job[j].pc \in {"mark", "evict"} /\ job[j].status = 409
    /\ job'[j].pc \notin {"evict", "count"}

NewerOf(a, b) == IF a > b THEN a ELSE b

Remember(j) ==
    /\ refusal' = IF Passed(j) THEN NewerOf(refusal, refusedAt[j]) ELSE refusal
    /\ UNCHANGED <<refusedAt, known>>

\* A refusal is remembered if it is not a repeat from an earlier period.
Report(j) ==
    /\ Post(j)
    /\ UNCHANGED cacheVars
    /\ refusedAt' = IF job'[j].pc = "mark" /\ job'[j].status = 409 /\ ~open
                    THEN [refusedAt EXCEPT ![j] = envelope[Workspace]]
                    ELSE refusedAt
    /\ UNCHANGED <<refusal, known>>

\* The update, and on a refusal the eviction after it.
Settle(j) ==
    /\ \/ (Select(j) \/ Mark(j) \/ Count(j)) /\ UNCHANGED cacheVars
       \/ Evict(j) /\ Entitlement!Invalidate(Workspace)
    /\ Remember(j)

\* The pool and the envelope that reports it change together.
PoolMoves ==
    /\ DrainPool \/ ResetPool
    /\ Entitlement!Change(Workspace)
    /\ UNCHANGED history

-----------------------------------------------------------------------------
(* The rest of the process. *)

Answering(r) ==
    /\ Entitlement!ResolverStep(r)
    /\ UNCHANGED <<flushVars, history>>

\* The webhook handler evicts on a subscription change.
SubscriptionChanged ==
    /\ Entitlement!Invalidate(Workspace)
    /\ UNCHANGED <<flushVars, history>>

ClockTick ==
    /\ Entitlement!ClockTick
    /\ UNCHANGED <<flushVars, history>>

Sweep ==
    /\ DeleteRows
    /\ UNCHANGED <<cacheVars, history>>

\* Buffer and platform survive a restart, the cache and all requests do not.
Crash ==
    /\ FlushCrash
    /\ Entitlement!Restart
    /\ UNCHANGED history

Next ==
    \/ \E r \in Resolvers : BeginRun(r) \/ Answering(r) \/ EndRun(r)
    \/ \E r \in Resolvers, u \in Rows : AdmitRun(r, u)
    \/ \E j \in Jobs : Report(j) \/ Settle(j)
    \/ PoolMoves
    \/ SubscriptionChanged
    \/ ClockTick
    \/ Sweep
    \/ Crash

Spec == Init /\ [][Next]_vars

-----------------------------------------------------------------------------
(* Properties. *)

\* A run that asks after the flush has dealt with a refusal is let in only on an
\* envelope newer than the refused one, or on the fallback; an entry stored by a
\* fetch that the eviction had overtaken is excepted.
GateAfterRefusal ==
    \A r \in Resolvers :
        LET a == answer[r]
        IN  a # None => (a.kind # "fallback" /\ ~a.late /\ Admits(a) => a.version > known[r])
=============================================================================
