---------------------------- MODULE Entitlement -----------------------------
(***************************************************************************)
(* The entitlement resolver of the process: a cache of the platform's C2   *)
(* envelope per workspace, with a time to live, an eviction, and the stale *)
(* entry served when the platform fails.                                   *)
(*                                                                         *)
(* A resolve that misses reads the cache, awaits the platform and stores;  *)
(* the await is where other resolves, evictions and changes come between.  *)
(* An envelope is known by its version: the platform's counts the changes  *)
(* made to it.                                                             *)
(***************************************************************************)
EXTENDS Integers

CONSTANTS
    Workspaces,   \* workspace ids
    Resolvers,    \* resolves that may run at the same time
    Ttl,          \* TTL_MS, in ticks of the clock
    None,         \* no value: a missing entry, no answer yet
    MaxVersion    \* bound: changes of an envelope

ASSUME EntitlementBounds == Ttl \in Nat \ {0} /\ MaxVersion \in Nat

VARIABLES
    envelope,   \* the platform's current version per workspace
    cache,      \* the cached entry per workspace
    resolver,   \* what each resolve is doing
    answer,     \* what it returned, until its caller has used it
    floor       \* history: the platform's version at the last eviction

cacheVars == <<envelope, cache, resolver, answer, floor>>

\* ttl is what is left of the entry's time.  History: late, it was stored by a fetch
\* that an eviction had overtaken; stale, the ticks since its version was superseded.
CacheEntry == [version: Nat, ttl: 0..Ttl, late: BOOLEAN, stale: 0..Ttl]

ResolverIdle == [pc |-> "idle"]
Resolving == [pc: {"fetch", "store"}, w: Workspaces, cached: CacheEntry \cup {None},
              got: Nat, ttl: 0..Ttl, stale: 0..Ttl, floor: Nat, evicted: BOOLEAN]
Answer == [w: Workspaces, kind: {"hit", "fetched", "stale", "fallback"},
           version: Nat, late: BOOLEAN, floor: Nat]

\* No value can be told from an entry and from an answer.
ASSUME NoneAssumption == None \notin CacheEntry \cup Answer

CacheTypeOK ==
    /\ envelope \in [Workspaces -> Nat]
    /\ cache \in [Workspaces -> CacheEntry \cup {None}]
    /\ resolver \in [Resolvers -> Resolving \cup {ResolverIdle}]
    /\ answer \in [Resolvers -> Answer \cup {None}]
    /\ floor \in [Workspaces -> Nat]

CacheInit ==
    /\ envelope = [w \in Workspaces |-> 0]
    /\ cache = [w \in Workspaces |-> None]
    /\ resolver = [r \in Resolvers |-> ResolverIdle]
    /\ answer = [r \in Resolvers |-> None]
    /\ floor = [w \in Workspaces |-> 0]

-----------------------------------------------------------------------------
\* The time to live counts from the beginning of _fetch, the await included.
LifetimeTwice == 2 * Ttl      \* mutant: the time to live is added twice
Lifetime == Ttl

Fresh(entry) == entry # None /\ entry.ttl > 0

\* A hit leaves the entry as it is.
HitRenews(entry) == [entry EXCEPT !.ttl = Ttl]   \* mutant: a sliding expiry
HitKeeps(entry) == entry

Answered(r, w, kind, version, late, low) ==
    answer' = [answer EXCEPT ![r] = [w |-> w, kind |-> kind, version |-> version,
                                     late |-> late, floor |-> low]]

\* The beginning of _fetch: a fresh entry is the answer, else the platform is asked.
Resolve(r, w) ==
    /\ resolver[r] = ResolverIdle /\ answer[r] = None
    /\ \/ /\ Fresh(cache[w])
          /\ Answered(r, w, "hit", cache[w].version, cache[w].late, floor[w])
          /\ cache' = [cache EXCEPT ![w] = HitKeeps(@)]
          /\ UNCHANGED resolver
       \/ /\ ~Fresh(cache[w])
          /\ resolver' = [resolver EXCEPT ![r] =
                 [pc |-> "fetch", w |-> w, cached |-> cache[w], got |-> 0, ttl |-> Lifetime,
                  stale |-> 0, floor |-> floor[w], evicted |-> FALSE]]
          /\ UNCHANGED <<cache, answer>>
    /\ UNCHANGED <<envelope, floor>>

PlatformAnswers(r) ==
    /\ resolver[r].pc = "fetch"
    /\ resolver' = [resolver EXCEPT ![r].pc = "store", ![r].got = envelope[resolver[r].w]]
    /\ UNCHANGED <<envelope, cache, answer, floor>>

\* Stale-on-error: the entry read at the beginning, or the free plan without one.
PlatformFails(r) ==
    /\ resolver[r].pc = "fetch"
    /\ LET c == resolver[r].cached
           w == resolver[r].w
       IN  IF c = None
           THEN Answered(r, w, "fallback", 0, FALSE, resolver[r].floor)
           ELSE Answered(r, w, "stale", c.version, c.late, resolver[r].floor)
    /\ resolver' = [resolver EXCEPT ![r] = ResolverIdle]
    /\ UNCHANGED <<envelope, cache, floor>>

TtlFromNow(r) == Ttl          \* mutant: the clock is read after the await
TtlLeft(r) == resolver[r].ttl

\* cache.set, without another look at what happened meanwhile.
Store(r) ==
    /\ resolver[r].pc = "store"
    /\ LET w == resolver[r].w
       IN  /\ cache' = [cache EXCEPT ![w] = [version |-> resolver[r].got, ttl |-> TtlLeft(r),
                                             late |-> resolver[r].evicted,
                                             stale |-> resolver[r].stale]]
           /\ Answered(r, w, "fetched", resolver[r].got, resolver[r].evicted,
                       resolver[r].floor)
    /\ resolver' = [resolver EXCEPT ![r] = ResolverIdle]
    /\ UNCHANGED <<envelope, floor>>

\* The caller goes on with the answer.
Use(r) ==
    /\ answer[r] # None
    /\ answer' = [answer EXCEPT ![r] = None]
    /\ UNCHANGED <<envelope, cache, resolver, floor>>

\* invalidateCache.
EvictedToStale(entry) == IF entry = None THEN None ELSE [entry EXCEPT !.ttl = 0]
                              \* mutant: the entry is expired, not deleted
EvictedKept(entry) == entry   \* mutant: another key is deleted
Evicted(entry) == None

Invalidate(w) ==
    /\ cache' = [cache EXCEPT ![w] = Evicted(@)]
    /\ floor' = [floor EXCEPT ![w] = envelope[w]]
    /\ resolver' = [r \in Resolvers |->
           IF resolver[r] # ResolverIdle /\ resolver[r].w = w
           THEN [resolver[r] EXCEPT !.evicted = TRUE]
           ELSE resolver[r]]
    /\ UNCHANGED <<envelope, answer>>

\* The platform changes the envelope: a plan, a limit, a pool.
Change(w) ==
    /\ envelope[w] < MaxVersion
    /\ envelope' = [envelope EXCEPT ![w] = @ + 1]
    /\ UNCHANGED <<cache, resolver, answer, floor>>

\* One tick more of an outdated version.
Older(stale, version, w) ==
    IF version = envelope[w] \/ stale = Ttl THEN stale ELSE stale + 1

Aged(entry, w) ==
    IF Fresh(entry)
    THEN [entry EXCEPT !.ttl = @ - 1, !.stale = Older(@, entry.version, w)]
    ELSE entry

AgedFetch(res) ==
    IF res = ResolverIdle
    THEN res
    ELSE [res EXCEPT !.ttl = IF @ = 0 THEN 0 ELSE @ - 1,
                     !.stale = IF res.pc = "store" THEN Older(@, res.got, res.w) ELSE 0]

ClockTick ==
    /\ \/ \E w \in Workspaces : Fresh(cache[w])
       \/ \E r \in Resolvers : resolver[r] # ResolverIdle /\ resolver[r].ttl > 0
    /\ cache' = [w \in Workspaces |-> Aged(cache[w], w)]
    /\ resolver' = [r \in Resolvers |-> AgedFetch(resolver[r])]
    /\ UNCHANGED <<envelope, answer, floor>>

Restart ==
    /\ cache' = [w \in Workspaces |-> None]
    /\ resolver' = [r \in Resolvers |-> ResolverIdle]
    /\ answer' = [r \in Resolvers |-> None]
    /\ UNCHANGED <<envelope, floor>>

ResolverStep(r) == PlatformAnswers(r) \/ PlatformFails(r) \/ Store(r)

CacheNext ==
    \/ \E r \in Resolvers, w \in Workspaces : Resolve(r, w)
    \/ \E r \in Resolvers : ResolverStep(r) \/ Use(r)
    \/ \E w \in Workspaces : Invalidate(w) \/ Change(w)
    \/ ClockTick
    \/ Restart

CacheSpec == CacheInit /\ [][CacheNext]_cacheVars

\* Time passes, and a resolve that has begun is answered: a fetch that hangs is
\* ended by the runtime.  Nothing is assumed of evictions, nor of the platform.
CacheFairness ==
    /\ WF_cacheVars(ClockTick)
    /\ \A r \in Resolvers : WF_cacheVars(ResolverStep(r))

FairCacheSpec == CacheSpec /\ CacheFairness

-----------------------------------------------------------------------------
(* Properties. *)

\* A resolve that begins after an eviction answers no version from before it,
\* whether from the cache, from the platform or stale on an error.  Excepted is
\* an entry that was stored by a fetch the eviction had overtaken.
EvictionHolds ==
    \A r \in Resolvers :
        answer[r] # None /\ answer[r].kind # "fallback" /\ ~answer[r].late
            => answer[r].version >= answer[r].floor

\* What a hit returns was the platform's answer less than a time to live ago: the
\* version of a fresh entry has not been out of date for that long.
FreshIsRecent ==
    \A w \in Workspaces : Fresh(cache[w]) => cache[w].stale < Ttl

\* The cache heals itself: when the platform's envelope stays as it is, every
\* fresh entry is current in the end, evictions or not.
CacheHeals ==
    <>[](\A w \in Workspaces : Fresh(cache[w]) => cache[w].version = envelope[w])
=============================================================================
