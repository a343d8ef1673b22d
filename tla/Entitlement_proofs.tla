------------------------- MODULE Entitlement_proofs -------------------------
(***************************************************************************)
(* Proofs about Entitlement, for all workspaces, resolves, versions and    *)
(* times to live: what an eviction guarantees to the resolves after it,    *)
(* and how old an answer from the cache can be.                            *)
(***************************************************************************)
EXTENDS Entitlement, TLAPS

Busy(r) == resolver[r] # ResolverIdle

\* The platform only goes forward, so an eviction is never ahead of it.
FloorIsPast == \A w \in Workspaces : floor[w] <= envelope[w]

\* An entry that no eviction had overtaken is from after the last eviction.
CacheIsAfter == \A w \in Workspaces :
    cache[w] # None /\ ~cache[w].late => cache[w].version >= floor[w]

\* So is what a resolve has in hand: the entry it found, and what the platform answered.  As
\* long as it is not overtaken, the last eviction is the one it knows.
ResolverIsAfter == \A r \in Resolvers : Busy(r) =>
    /\ resolver[r].cached # None /\ ~resolver[r].cached.late =>
           resolver[r].cached.version >= resolver[r].floor
    /\ resolver[r].pc = "store" => resolver[r].got >= resolver[r].floor
    /\ ~resolver[r].evicted => floor[resolver[r].w] = resolver[r].floor
    /\ resolver[r].floor <= envelope[resolver[r].w]

\* An entry has aged by the time that its version has been out of date, and may live on for
\* what is left; a fetch counts the same from its beginning.
AgesAddUp ==
    /\ \A w \in Workspaces : cache[w] # None => cache[w].ttl + cache[w].stale <= Ttl
    /\ \A r \in Resolvers : Busy(r) => resolver[r].ttl + resolver[r].stale <= Ttl

IInv == CacheTypeOK /\ FloorIsPast /\ CacheIsAfter /\ ResolverIsAfter /\ AgesAddUp /\ EvictionHolds

USE EntitlementBounds

LEMMA InitIInv == CacheInit => IInv
  BY NoneAssumption DEF CacheInit, IInv, CacheTypeOK, FloorIsPast, CacheIsAfter, ResolverIsAfter, AgesAddUp,
         EvictionHolds, Busy

LEMMA ResolveStep == ASSUME IInv, NEW r \in Resolvers, NEW w \in Workspaces, Resolve(r, w) PROVE IInv'
<1>1. UNCHANGED <<envelope, floor>> /\ ~Busy(r) /\ answer[r] = None
  BY DEF Resolve, Busy
<1>2. CASE Fresh(cache[w])
  <2>1. UNCHANGED resolver /\ cache' = cache
    BY <1>2 DEF Resolve, HitKeeps, IInv, CacheTypeOK
  <2> DEFINE a == [w |-> w, kind |-> "hit", version |-> cache[w].version, late |-> cache[w].late, floor |-> floor[w]]
  <2>2. answer' = [answer EXCEPT ![r] = a]
    BY <1>2 DEF Resolve, Answered
  <2>3. a \in Answer /\ (~a.late => a.version >= a.floor)
    BY <1>2 DEF IInv, CacheTypeOK, Answer, CacheEntry, Fresh, CacheIsAfter
  <2> HIDE DEF a
  <2>4. CacheTypeOK' /\ EvictionHolds'
    BY <1>1, <2>1, <2>2, <2>3 DEF IInv, CacheTypeOK, EvictionHolds
  <2> QED  BY <1>1, <2>1, <2>4 DEF IInv, FloorIsPast, CacheIsAfter, ResolverIsAfter, AgesAddUp, Busy
<1>3. CASE ~Fresh(cache[w])
  <2> DEFINE new == [pc |-> "fetch", w |-> w, cached |-> cache[w], got |-> 0, ttl |-> Lifetime,
                     stale |-> 0, floor |-> floor[w], evicted |-> FALSE]
  <2>1. UNCHANGED <<cache, answer>> /\ resolver' = [resolver EXCEPT ![r] = new]
    BY <1>3 DEF Resolve
  <2>2. /\ new \in Resolving /\ new.pc = "fetch" /\ new.w = w /\ new.cached = cache[w]
        /\ new.floor = floor[w] /\ new.ttl + new.stale <= Ttl
    BY DEF IInv, CacheTypeOK, Resolving, Lifetime
  <2> HIDE DEF new
  <2>3. CacheTypeOK'
    BY <1>1, <2>1, <2>2 DEF IInv, CacheTypeOK
  <2>4. ResolverIsAfter'
    BY <1>1, <2>1, <2>2 DEF IInv, CacheTypeOK, ResolverIsAfter, CacheIsAfter, FloorIsPast, Busy
  <2>5. AgesAddUp'
    BY <1>1, <2>1, <2>2 DEF IInv, CacheTypeOK, AgesAddUp, Busy
  <2> QED  BY <1>1, <2>1, <2>3, <2>4, <2>5 DEF IInv, FloorIsPast, CacheIsAfter, EvictionHolds
<1> QED  BY <1>2, <1>3

\* A resolve that ends with an answer that is not from before its eviction.
LEMMA AnswerIInv ==
    ASSUME IInv, UNCHANGED <<envelope, floor>>, NEW r \in Resolvers, NEW a \in Answer,
           answer' = [answer EXCEPT ![r] = a], resolver' = [resolver EXCEPT ![r] = ResolverIdle],
           a.kind # "fallback" /\ ~a.late => a.version >= a.floor,
           CacheIsAfter', cache' \in [Workspaces -> CacheEntry \cup {None}],
           \A w \in Workspaces : cache'[w] # None => cache'[w].ttl + cache'[w].stale <= Ttl
    PROVE  IInv'
<1>1. CacheTypeOK'
  BY DEF IInv, CacheTypeOK
<1>2. EvictionHolds'
  BY DEF IInv, CacheTypeOK, EvictionHolds
<1>3. ResolverIsAfter' /\ AgesAddUp' /\ FloorIsPast'
  BY DEF IInv, CacheTypeOK, ResolverIsAfter, AgesAddUp, FloorIsPast, Busy
<1> QED  BY <1>1, <1>2, <1>3 DEF IInv

LEMMA PlatformAnswersStep == ASSUME IInv, NEW r \in Resolvers, PlatformAnswers(r) PROVE IInv'
<1> DEFINE new == [resolver[r] EXCEPT !.pc = "store", !.got = envelope[resolver[r].w]]
<1>1. UNCHANGED <<envelope, cache, answer, floor>> /\ Busy(r) /\ resolver[r] \in Resolving
  BY DEF PlatformAnswers, IInv, CacheTypeOK, Busy, ResolverIdle
<1>2. resolver' = [resolver EXCEPT ![r] = new]
  BY DEF PlatformAnswers
<1>3. /\ new \in Resolving /\ new.w = resolver[r].w /\ new.cached = resolver[r].cached
      /\ new.floor = resolver[r].floor /\ new.evicted = resolver[r].evicted
      /\ new.got = envelope[resolver[r].w] /\ new.ttl = resolver[r].ttl
      /\ new.stale = resolver[r].stale
  BY <1>1 DEF IInv, CacheTypeOK, Resolving
<1> HIDE DEF new
<1>4. CacheTypeOK'
  BY <1>1, <1>2, <1>3 DEF IInv, CacheTypeOK
<1>5. ResolverIsAfter'
  BY <1>1, <1>2, <1>3 DEF IInv, CacheTypeOK, ResolverIsAfter, Busy
<1>6. AgesAddUp'
  BY <1>1, <1>2, <1>3 DEF IInv, CacheTypeOK, AgesAddUp, Busy
<1> QED  BY <1>1, <1>4, <1>5, <1>6 DEF IInv, FloorIsPast, CacheIsAfter, EvictionHolds

LEMMA PlatformFailsStep == ASSUME IInv, NEW r \in Resolvers, PlatformFails(r) PROVE IInv'
<1> DEFINE c == resolver[r].cached
           a == IF c = None
                THEN [w |-> resolver[r].w, kind |-> "fallback", version |-> 0, late |-> FALSE,
                      floor |-> resolver[r].floor]
                ELSE [w |-> resolver[r].w, kind |-> "stale", version |-> c.version, late |-> c.late,
                      floor |-> resolver[r].floor]
<1>1. UNCHANGED <<envelope, cache, floor>> /\ resolver' = [resolver EXCEPT ![r] = ResolverIdle]
  BY DEF PlatformFails
<1>2. Busy(r) /\ resolver[r] \in Resolving
  BY DEF PlatformFails, IInv, CacheTypeOK, Busy, ResolverIdle
<1>3. answer' = [answer EXCEPT ![r] = a]
  BY DEF PlatformFails, Answered
<1>4. a \in Answer
  BY <1>2 DEF Resolving, CacheEntry, Answer
<1>5. a.kind # "fallback" /\ ~a.late => a.version >= a.floor
  BY <1>2 DEF IInv, ResolverIsAfter
<1>6. CacheIsAfter' /\ cache' \in [Workspaces -> CacheEntry \cup {None}]
  BY <1>1 DEF IInv, CacheIsAfter, CacheTypeOK
<1>7. \A w \in Workspaces : cache'[w] # None => cache'[w].ttl + cache'[w].stale <= Ttl
  BY <1>1 DEF IInv, AgesAddUp
<1> HIDE DEF a
<1> QED  BY <1>1, <1>3, <1>4, <1>5, <1>6, <1>7, AnswerIInv

\* Store does not look at what happened meanwhile: if an eviction did, the entry is late.
LEMMA StoreStep == ASSUME IInv, NEW r \in Resolvers, Store(r) PROVE IInv'
<1> DEFINE w == resolver[r].w
           e == [version |-> resolver[r].got, ttl |-> TtlLeft(r), late |-> resolver[r].evicted,
                 stale |-> resolver[r].stale]
           a == [w |-> w, kind |-> "fetched", version |-> resolver[r].got,
                 late |-> resolver[r].evicted, floor |-> resolver[r].floor]
<1>1. UNCHANGED <<envelope, floor>> /\ resolver' = [resolver EXCEPT ![r] = ResolverIdle]
  BY DEF Store
<1>2. Busy(r) /\ resolver[r].pc = "store" /\ resolver[r] \in Resolving
  BY DEF Store, IInv, CacheTypeOK, Busy, ResolverIdle
<1>3. answer' = [answer EXCEPT ![r] = a] /\ cache' = [cache EXCEPT ![w] = e]
  BY DEF Store, Answered
<1>4. w \in Workspaces /\ a \in Answer /\ e \in CacheEntry
  BY <1>2 DEF Resolving, CacheEntry, Answer, TtlLeft
<1>5. a.kind # "fallback" /\ ~a.late => a.version >= a.floor
  BY <1>2 DEF IInv, ResolverIsAfter
<1>6. ~e.late => e.version >= floor[w]
  BY <1>2 DEF IInv, ResolverIsAfter
<1>7. e.ttl + e.stale <= Ttl
  BY <1>2 DEF IInv, AgesAddUp, TtlLeft
<1> HIDE DEF e, a, w
<1>8. CacheIsAfter' /\ cache' \in [Workspaces -> CacheEntry \cup {None}]
  BY <1>1, <1>3, <1>4, <1>6 DEF IInv, CacheIsAfter, CacheTypeOK
<1>9. \A v \in Workspaces : cache'[v] # None => cache'[v].ttl + cache'[v].stale <= Ttl
  BY <1>3, <1>4, <1>7 DEF IInv, AgesAddUp, CacheTypeOK
<1> QED  BY <1>1, <1>3, <1>4, <1>5, <1>8, <1>9, AnswerIInv

LEMMA UseStep == ASSUME IInv, NEW r \in Resolvers, Use(r) PROVE IInv'
<1>1. CacheTypeOK' /\ EvictionHolds'
  BY DEF Use, IInv, CacheTypeOK, EvictionHolds
<1> QED  BY <1>1 DEF Use, IInv, FloorIsPast, CacheIsAfter, ResolverIsAfter, AgesAddUp, Busy

\* An eviction leaves no entry behind, and marks the fetches it overtakes.
LEMMA InvalidateStep == ASSUME IInv, NEW w \in Workspaces, Invalidate(w) PROVE IInv'
<1> DEFINE hit(r) == Busy(r) /\ resolver[r].w = w
           new(r) == [resolver[r] EXCEPT !.evicted = TRUE]
<1>1. /\ UNCHANGED <<envelope, answer>> /\ cache' = [cache EXCEPT ![w] = None]
      /\ floor' = [floor EXCEPT ![w] = envelope[w]]
      /\ resolver' = [r \in Resolvers |-> IF hit(r) THEN new(r) ELSE resolver[r]]
  BY DEF Invalidate, Evicted, Busy
<1>2. \A r \in Resolvers : Busy(r) => resolver[r] \in Resolving
  BY DEF IInv, CacheTypeOK, Busy
<1>3. \A r \in Resolvers : hit(r) =>
          /\ new(r) \in Resolving /\ new(r).cached = resolver[r].cached /\ new(r).pc = resolver[r].pc
          /\ new(r).got = resolver[r].got /\ new(r).floor = resolver[r].floor
          /\ new(r).w = resolver[r].w /\ new(r).evicted = TRUE /\ new(r).ttl = resolver[r].ttl
          /\ new(r).stale = resolver[r].stale
  BY <1>2 DEF Resolving
<1> HIDE DEF new
<1>4. CacheTypeOK'
  BY <1>1, <1>3 DEF IInv, CacheTypeOK
<1>5. FloorIsPast' /\ CacheIsAfter' /\ EvictionHolds'
  BY <1>1 DEF IInv, CacheTypeOK, FloorIsPast, CacheIsAfter, EvictionHolds
<1>6. ASSUME NEW r \in Resolvers, Busy(r)' PROVE Busy(r)
  BY <1>1, <1>6 DEF Busy
<1>7. ResolverIsAfter'
  <2>1. SUFFICES ASSUME NEW r \in Resolvers, Busy(r)'
                 PROVE  /\ resolver'[r].cached # None /\ ~resolver'[r].cached.late =>
                                resolver'[r].cached.version >= resolver'[r].floor
                        /\ resolver'[r].pc = "store" => resolver'[r].got >= resolver'[r].floor
                        /\ ~resolver'[r].evicted => floor'[resolver'[r].w] = resolver'[r].floor
                        /\ resolver'[r].floor <= envelope'[resolver'[r].w]
    BY DEF ResolverIsAfter
  <2>2. Busy(r)
    BY <1>6, <2>1
  <2>3. CASE resolver[r].w = w
    BY <1>1, <1>3, <2>2, <2>3 DEF IInv, ResolverIsAfter
  <2>4. CASE resolver[r].w # w
    <3>1. resolver'[r] = resolver[r] /\ floor'[resolver[r].w] = floor[resolver[r].w]
      BY <1>1, <1>2, <2>2, <2>4 DEF IInv, CacheTypeOK, Resolving
    <3> QED  BY <1>1, <2>2, <3>1 DEF IInv, ResolverIsAfter
  <2> QED  BY <2>3, <2>4
<1>8. AgesAddUp'
  BY <1>1, <1>3, <1>6 DEF IInv, CacheTypeOK, AgesAddUp, Busy
<1> QED  BY <1>4, <1>5, <1>7, <1>8 DEF IInv

LEMMA ChangeStep == ASSUME IInv, NEW w \in Workspaces, Change(w) PROVE IInv'
<1>1. /\ UNCHANGED <<cache, resolver, answer, floor>>
      /\ envelope' = [envelope EXCEPT ![w] = @ + 1]
  BY DEF Change
<1>2. envelope' \in [Workspaces -> Nat] /\ \A v \in Workspaces : envelope[v] <= envelope'[v]
  BY <1>1 DEF IInv, CacheTypeOK
<1>3. CacheTypeOK' /\ FloorIsPast'
  BY <1>1, <1>2 DEF IInv, CacheTypeOK, FloorIsPast
<1>4. ResolverIsAfter'
  <2>1. \A r \in Resolvers : Busy(r) => /\ resolver[r].w \in Workspaces /\ resolver[r].floor \in Nat
    BY DEF IInv, CacheTypeOK, Busy, Resolving
  <2>2. \A r \in Resolvers : Busy(r) => resolver[r].floor <= envelope'[resolver[r].w]
    BY <1>2, <2>1 DEF IInv, CacheTypeOK, ResolverIsAfter
  <2> QED  BY <1>1, <2>2 DEF IInv, ResolverIsAfter, Busy
<1> QED  BY <1>1, <1>3, <1>4 DEF IInv, CacheIsAfter, AgesAddUp, EvictionHolds, Busy

\* What a tick does to an entry: one tick less to live, at most one more out of date.
LEMMA AgedEntry ==
    ASSUME IInv, NEW w \in Workspaces, cache[w] # None
    PROVE  /\ Aged(cache[w], w) \in CacheEntry
           /\ Aged(cache[w], w).version = cache[w].version
           /\ Aged(cache[w], w).late = cache[w].late
           /\ Aged(cache[w], w).ttl + Aged(cache[w], w).stale <= Ttl
<1>1. cache[w] \in CacheEntry /\ cache[w].ttl + cache[w].stale <= Ttl
  BY DEF IInv, CacheTypeOK, AgesAddUp
<1>2. CASE cache[w].ttl > 0
  <2> DEFINE t == cache[w].ttl - 1
             s == Older(cache[w].stale, cache[w].version, w)
  <2>1. Aged(cache[w], w) = [cache[w] EXCEPT !.ttl = t, !.stale = s]
    BY <1>2 DEF Aged, Fresh
  <2>2. cache[w].ttl \in 0..Ttl /\ cache[w].stale \in 0..Ttl
    BY <1>1 DEF CacheEntry
  <2>3. t \in 0..Ttl /\ s \in 0..Ttl /\ t + s <= Ttl
    BY <1>1, <1>2, <2>2 DEF Older
  <2> HIDE DEF t, s
  <2> QED  BY <1>1, <2>1, <2>3 DEF CacheEntry
<1>3. CASE ~(cache[w].ttl > 0)
  BY <1>1, <1>3 DEF Aged, Fresh
<1> QED  BY <1>2, <1>3

LEMMA AgedResolver ==
    ASSUME IInv, NEW r \in Resolvers, Busy(r)
    PROVE  LET old == resolver[r]
               new == AgedFetch(old)
           IN  /\ new \in Resolving /\ new.pc = old.pc /\ new.w = old.w /\ new.cached = old.cached
               /\ new.got = old.got /\ new.floor = old.floor /\ new.evicted = old.evicted
               /\ new.ttl + new.stale <= Ttl
<1> DEFINE old == resolver[r]
           t == IF old.ttl = 0 THEN 0 ELSE old.ttl - 1
           s == IF old.pc = "store" THEN Older(old.stale, old.got, old.w) ELSE 0
<1>1. old \in Resolving /\ old.ttl + old.stale <= Ttl
  BY DEF IInv, CacheTypeOK, AgesAddUp, Busy
<1>2. AgedFetch(old) = [old EXCEPT !.ttl = t, !.stale = s]
  BY DEF AgedFetch, Busy
<1>3. old.ttl \in 0..Ttl /\ old.stale \in 0..Ttl
  BY <1>1 DEF Resolving
<1>4. t \in 0..Ttl /\ s \in 0..Ttl /\ t + s <= Ttl
  BY <1>1, <1>3 DEF Older
<1> HIDE DEF t, s
<1> QED  BY <1>1, <1>2, <1>4 DEF Resolving

LEMMA ClockTickStep == ASSUME IInv, ClockTick PROVE IInv'
<1>1. /\ cache' = [w \in Workspaces |-> Aged(cache[w], w)]
      /\ resolver' = [r \in Resolvers |-> AgedFetch(resolver[r])]
      /\ UNCHANGED <<envelope, answer, floor>>
  BY DEF ClockTick
<1>2. \A w \in Workspaces : cache[w] = None => cache'[w] = None
  BY <1>1 DEF Aged, Fresh
<1>3. \A r \in Resolvers : ~Busy(r) => resolver'[r] = ResolverIdle
  BY <1>1 DEF AgedFetch, Busy
<1>4. CacheTypeOK'
  BY <1>1, <1>2, <1>3, AgedEntry, AgedResolver DEF IInv, CacheTypeOK
<1>5. CacheIsAfter'
  BY <1>1, <1>2, AgedEntry DEF IInv, CacheIsAfter
<1>6. ASSUME NEW r \in Resolvers, Busy(r)' PROVE Busy(r)
  BY <1>3, <1>6 DEF Busy
<1>7. ResolverIsAfter'
  <2>1. ASSUME NEW r \in Resolvers, Busy(r)
        PROVE  /\ resolver'[r].pc = resolver[r].pc /\ resolver'[r].w = resolver[r].w
               /\ resolver'[r].cached = resolver[r].cached /\ resolver'[r].got = resolver[r].got
               /\ resolver'[r].floor = resolver[r].floor /\ resolver'[r].evicted = resolver[r].evicted
    BY <1>1, <2>1, AgedResolver
  <2> QED  BY <1>1, <1>6, <2>1 DEF IInv, ResolverIsAfter
<1>8. AgesAddUp'
  <2>1. ASSUME NEW r \in Resolvers, Busy(r) PROVE resolver'[r].ttl + resolver'[r].stale <= Ttl
    BY <1>1, <2>1, AgedResolver
  <2> QED  BY <1>1, <1>2, <1>6, <2>1, AgedEntry DEF AgesAddUp
<1> QED  BY <1>1, <1>4, <1>5, <1>7, <1>8 DEF IInv, FloorIsPast, EvictionHolds

LEMMA RestartStep == ASSUME IInv, Restart PROVE IInv'
  BY DEF Restart, IInv, CacheTypeOK, FloorIsPast, CacheIsAfter, ResolverIsAfter, AgesAddUp,
         EvictionHolds, Busy

LEMMA NextStep == ASSUME IInv, [CacheNext]_cacheVars PROVE IInv'
<1>1. ASSUME NEW r \in Resolvers, NEW w \in Workspaces, Resolve(r, w) PROVE IInv'
  BY <1>1, ResolveStep
<1>2. ASSUME NEW r \in Resolvers, ResolverStep(r) PROVE IInv'
  BY <1>2, PlatformAnswersStep, PlatformFailsStep, StoreStep DEF ResolverStep
<1>3. ASSUME NEW r \in Resolvers, Use(r) PROVE IInv'
  BY <1>3, UseStep
<1>4. ASSUME NEW w \in Workspaces, Invalidate(w) \/ Change(w) PROVE IInv'
  BY <1>4, InvalidateStep, ChangeStep
<1>5. CASE UNCHANGED cacheVars
  BY <1>5 DEF cacheVars, IInv, CacheTypeOK, FloorIsPast, CacheIsAfter, ResolverIsAfter,
              AgesAddUp, EvictionHolds, Busy
<1> QED  BY <1>1, <1>2, <1>3, <1>4, <1>5, ClockTickStep, RestartStep DEF CacheNext

\* Every reachable state of the resolver satisfies the inductive invariant.
THEOREM CacheInductive == CacheSpec => []IInv
<1> QED  BY InitIInv, NextStep, PTL DEF CacheSpec

\* A resolve that begins after an eviction answers no version from before it, if no fetch that
\* the eviction had overtaken stored one.
THEOREM EvictionTheorem == CacheSpec => []EvictionHolds
<1>1. IInv => EvictionHolds
  BY DEF IInv
<1> QED  BY <1>1, CacheInductive, PTL

\* What a hit returns has not been out of date for a time to live.
THEOREM FreshTheorem == CacheSpec => []FreshIsRecent
<1>1. ASSUME IInv PROVE FreshIsRecent
  BY <1>1 DEF IInv, CacheTypeOK, CacheEntry, AgesAddUp, FreshIsRecent, Fresh
<1> QED  BY <1>1, CacheInductive, PTL

\* What the resolvers hold, and the age of what they hold, stays within its bounds.
THEOREM CacheTypes == CacheSpec => [](CacheTypeOK /\ AgesAddUp)
<1>1. IInv => CacheTypeOK /\ AgesAddUp
  BY DEF IInv
<1> QED  BY <1>1, CacheInductive, PTL
=============================================================================
