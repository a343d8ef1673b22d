----------------------------- MODULE Admission ------------------------------
(***************************************************************************)
(* The chain that every request of api/v1 passes (lib/api/auth.ts): who    *)
(* calls, the rate limit (lib/api/rate-limit.ts), the scope of the key,    *)
(* the wipe mark, the entitlement.  A caller is an API key, or a product   *)
(* of the platform with a bearer token (lib/api/bearer.ts).                *)
(*                                                                         *)
(* The limiter counts in Redis, per caller and window; it protects against *)
(* overload and fails open.  The requests here are those of one caller.    *)
(* One that cannot be identified is refused before anything is counted:    *)
(* such a request does not happen.                                         *)
(***************************************************************************)
EXTENDS Integers, FiniteSets

CONSTANTS
    Requests,  \* the requests, in the order they come
    MaxWorking, \* bound: requests in work at the same time
    Limit,     \* limitPerMinute()
    Window,    \* WINDOW_MS, in ticks; also LAST_USED_UPDATE_INTERVAL_MS
    Grace,     \* what KEY_TTL_MS adds to it
    MaxTime,   \* bound: the clock
    Never      \* no expiry; no time

VARIABLES
    caller,   \* who calls: "key" or "service"
    time,     \* the clock
    key,      \* the API key: whether it is revoked and has the scope, lastUsedAt
    wiped,    \* the workspace carries the soft-delete mark
    access,   \* hasDataAccess, by the resolver
    counter,  \* Redis: the counter of each window, n = 0 when there is none
    request,  \* what each request is doing
    passed,   \* history: how many requests each counter has let through
    late,     \* history: counters incremented when they may have expired
    torn      \* history: counters with a fault between INCR and PEXPIRE

admissionVars == <<caller, time, key, wiped, access, counter, request, passed, late, torn>>

Counters == 0..(MaxTime \div Window)
New == [pc |-> "new"]
Ended == [pc |-> "ended"]
ttlWithoutGrace == Window     \* mutant: the counter expires with its window
ttl == Window + Grace

AdmissionInit ==
    /\ caller \in {"key", "service"} /\ time = 0
    /\ key \in [revoked: {FALSE}, scoped: BOOLEAN, used: {Never}]
    /\ wiped = FALSE /\ access = TRUE
    /\ counter = [c \in Counters |-> [n |-> 0, until |-> Never]]
    /\ request = [r \in Requests |-> New]
    /\ passed = [c \in Counters |-> 0] /\ late = {} /\ torn = {}

Goes(r, pc) == request' = [request EXCEPT ![r].pc = pc]
End(r) == request' = [request EXCEPT ![r] = Ended]
Elsewhere == UNCHANGED <<caller, time, key, wiped, access>>
Redis == <<counter, passed, late, torn>>

-----------------------------------------------------------------------------
(* A request. *)

\* The row of the key is read once.
Identify(r) ==
    /\ request[r] = New /\ r = CHOOSE q \in Requests : request[q] = New
    /\ Cardinality({q \in Requests : request[q] \notin {New, Ended}}) < MaxWorking
    /\ caller = "key" => ~key.revoked
    /\ request' = [request EXCEPT ![r] =
           [pc |-> "clock", scoped |-> key.scoped, used |-> key.used, at |-> 0]]
    /\ UNCHANGED Redis /\ Elsewhere

\* The window of the counter is that of the clock before Redis is asked.
ReadClock(r) ==
    /\ request[r].pc = "clock"
    /\ request' = [request EXCEPT ![r].pc = "incr", ![r].at = time \div Window]
    /\ UNCHANGED Redis /\ Elsewhere

\* decide.
Allows(n) == n <= Limit
Decide(r, c, n) ==
    IF Allows(n) THEN Goes(r, "scope") /\ passed' = [passed EXCEPT ![c] = @ + 1]
    ELSE End(r) /\ UNCHANGED passed

\* INCR; the first one of a counter goes on to PEXPIRE.
Incr(r) ==
    /\ request[r].pc = "incr"
    /\ LET c == request[r].at
           n == counter[c].n + 1
       IN  /\ counter' = [counter EXCEPT ![c].n = n]
           /\ late' = IF time >= (c + 1) * Window + Grace THEN late \cup {c} ELSE late
           /\ IF n = 1 THEN Goes(r, "pexpire") /\ UNCHANGED passed ELSE Decide(r, c, n)
    /\ UNCHANGED torn /\ Elsewhere
Pexpire(r) ==
    /\ request[r].pc = "pexpire"
    /\ LET c == request[r].at IN
       /\ counter' = IF counter[c].n = 0 THEN counter ELSE [counter EXCEPT ![c].until = time + ttl]
       /\ Decide(r, c, 1)
    /\ UNCHANGED <<late, torn>> /\ Elsewhere

\* Redis is not configured or does not answer - though it may have counted: the request
\* proceeds.  A counter that is made so, or whose PEXPIRE fails, has no expiry.
FailOpen(r) ==
    /\ request[r].pc \in {"incr", "pexpire"} /\ Goes(r, "scope")
    /\ LET c == request[r].at IN
       \/ request[r].pc = "incr" /\ UNCHANGED <<counter, torn>>
       \/ /\ request[r].pc = "incr" /\ counter' = [counter EXCEPT ![c].n = @ + 1]
          /\ torn' = IF counter[c].n = 0 THEN torn \cup {c} ELSE torn
       \/ request[r].pc = "pexpire" /\ torn' = torn \cup {c} /\ UNCHANGED counter
    /\ UNCHANGED <<passed, late>> /\ Elsewhere
\* The process dies with its requests, between two statements of one of them.
Crash ==
    /\ \E r \in Requests : request[r].pc = "pexpire"
    /\ torn' = torn \cup {request[r].at : r \in {q \in Requests : request[q].pc = "pexpire"}}
    /\ request' = [r \in Requests |-> IF request[r] = New THEN New ELSE Ended]
    /\ UNCHANGED <<counter, passed, late>> /\ Elsewhere

\* A product on the allow-list has all scopes.
CheckScope(r) ==
    /\ request[r].pc = "scope"
    /\ IF caller = "key" /\ ~request[r].scoped THEN End(r) ELSE Goes(r, "wipe")
    /\ UNCHANGED Redis /\ Elsewhere
CheckWipe(r) ==
    /\ request[r].pc = "wipe"
    /\ IF wiped THEN End(r) ELSE Goes(r, "entitlement")
    /\ UNCHANGED Redis /\ Elsewhere

\* The last use of a key is written once per interval, and nobody waits for it.
CheckEntitlement(r) ==
    /\ request[r].pc = "entitlement"
    /\ LET due == access /\ caller = "key" /\
                  (request[r].used = Never \/ time - request[r].used > Window)
       IN  key' \in {key} \cup (IF due THEN {[key EXCEPT !.used = time]} ELSE {})
    /\ End(r)
    /\ UNCHANGED <<Redis, caller, time, wiped, access>>

-----------------------------------------------------------------------------
(* What happens elsewhere. *)

\* Redis drops a counter whose time is over.
Tick ==
    /\ time < MaxTime /\ time' = time + 1
    /\ counter' = [c \in Counters |-> IF counter[c].until = Never \/ counter[c].until > time' THEN counter[c]
                                      ELSE [n |-> 0, until |-> Never]]
    /\ UNCHANGED <<caller, key, wiped, access, request, passed, late, torn>>
\* One of the things that turn the caller away, once (a bound: the first one decides).
Moves ==
    /\ access /\ ~wiped /\ ~key.revoked
    /\ \/ key' = [key EXCEPT !.revoked = TRUE] /\ UNCHANGED <<wiped, access>>
       \/ wiped' = TRUE /\ UNCHANGED <<key, access>>
       \/ access' = FALSE /\ UNCHANGED <<key, wiped>>
    /\ UNCHANGED <<caller, time, request, Redis>>

AdmissionNext ==
    \/ \E r \in Requests :
         \/ Identify(r) \/ ReadClock(r) \/ Incr(r) \/ Pexpire(r) \/ FailOpen(r)
         \/ CheckScope(r) \/ CheckWipe(r) \/ CheckEntitlement(r)
    \/ Crash \/ Tick \/ Moves
AdmissionSpec == AdmissionInit /\ [][AdmissionNext]_admissionVars

-----------------------------------------------------------------------------
(* Properties. *)

AdmissionTypeOK ==
    /\ time \in 0..MaxTime /\ key.used \in (0..MaxTime) \cup {Never}
    /\ \A c \in Counters : /\ counter[c].n \in Nat
                           /\ counter[c].until = Never \/ counter[c].until - time \in 1..ttl
    /\ late \subseteq Counters /\ torn \subseteq Counters

\* A counter lets no more than the limit through: "window keys outlive the window slightly so
\* a clock-edge INCR never resurrects an expired counter mid-decision" (rate-limit.ts:15),
\* unless an increment was under way for longer than that; and a counter stays in Redis for
\* ever only after a fault or a crash between its INCR and its PEXPIRE (rate-limit.ts:65).
RateLimitHolds == \A c \in Counters :
    /\ c \notin late => passed[c] <= Limit
    /\ counter[c].n > 0 /\ counter[c].until = Never /\ c \notin torn =>
           \E r \in Requests : request[r].pc = "pexpire" /\ request[r].at = c
=============================================================================
