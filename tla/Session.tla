------------------------------- MODULE Session ------------------------------
(***************************************************************************)
(* The OIDC relying-party session: the login handshake (authreq record and *)
(* state cookie), the Redis session keys with their sid index, the         *)
(* refresh-on-near-expiry that every request runs, and the two ways out:   *)
(* logout in this application and the back-channel logout of the IdP.      *)
(*                                                                         *)
(* Every awaited Redis command, or MULTI, is one step; so is every call to *)
(* the IdP.  The IdP itself is external: it keeps one refresh generation   *)
(* per session and answers as the code expects it to.                      *)
(***************************************************************************)
EXTENDS Integers, FiniteSets

CONSTANTS
    Browsers,      \* browsers
    States,        \* values the login may draw for `state`
    Callbacks,     \* callback requests that may run at the same time
    Sids,          \* central sessions of the IdP
    Rpsids,        \* values createSession may draw for rpsid
    Requests,      \* requests that resolve a session at the same time
    LogoutTokens,  \* logout_token ids (jti)
    SidOf,         \* SidOf[j]: the central session logout token j names
    None,          \* no value: a missing key or cookie
    MaxGen,        \* bound: refreshes of one session
    MaxCrashes     \* bound: process restarts

ASSUME SidOfAssumption == SidOf \in [LogoutTokens -> Sids]
ASSUME SessionBounds == MaxGen \in Nat /\ MaxCrashes \in Nat

VARIABLES
    authreq,      \* pending authreq:<state> records
    started,      \* started[t]: the browser that drew state t, if any
    stateCookie,  \* the login-state cookie of each browser
    callback,     \* what each callback request is doing
    central,      \* the IdP's central sessions
    family,       \* the refresh generation the IdP honours for each session
    rpsess,       \* rpsess:<rpsid>: the stored identity
    rptok,        \* rptok:<rpsid>: the stored token bundle
    index,        \* sid:<sid>: the RP sessions of a central session
    request,      \* what each resolving request is doing
    seen,         \* bclogout:<jti>: logout tokens recorded as seen
    teardown,     \* what the back-channel receiver does with each token
    crashes,      \* restarts so far
    origin,       \* history: the login each session came from
    torn,         \* history: sessions some teardown has deleted
    missed        \* history: sessions created under a back-channel teardown

login    == <<authreq, started, stateCookie>>
keys     == <<rpsess, rptok, index>>
idp      == <<central, family>>
history  == <<origin, torn, missed>>
vars     == <<authreq, started, stateCookie, callback, central, family, rpsess, rptok,
              index, request, seen, teardown, crashes, origin, torn, missed>>

\* ttl says whether the key carries an expiry; gen is the refresh generation the
\* stored value comes from; near says that the access token is about to expire.
Identity == [sid: Sids, gen: Nat, ttl: BOOLEAN]
Tokens   == [gen: Nat, near: BOOLEAN, ttl: BOOLEAN]

NoCallback == [pc |-> "idle"]
Callback   == [pc: {"exchange"}, t: States, b: Browsers]
              \cup [pc: {"create"}, t: States, b: Browsers, sid: Sids]

\* None is a value of its own.
ASSUME NoneAssumption ==
    None \notin Browsers \cup States \cup Sids \cup Identity \cup Tokens \cup [t: States, b: Browsers]

NoRequest == [pc |-> "idle"]
Request   == [pc: {"tokens", "refresh", "put_identity", "put_tokens", "destroy", "delete"},
              r: Rpsids, sid: Sids \cup {None}, gen: Nat]

TypeOK ==
    /\ authreq \subseteq States
    /\ started \in [States -> Browsers \cup {None}]
    /\ stateCookie \in [Browsers -> States \cup {None}]
    /\ callback \in [Callbacks -> Callback \cup {NoCallback}]
    /\ central \in [Sids -> {"active", "ended"}]
    /\ family \in [Rpsids -> Nat]
    /\ rpsess \in [Rpsids -> Identity \cup {None}]
    /\ rptok \in [Rpsids -> Tokens \cup {None}]
    /\ index \in [Sids -> SUBSET Rpsids]
    /\ request \in [Requests -> Request \cup {NoRequest}]
    /\ seen \subseteq LogoutTokens
    /\ teardown \in [LogoutTokens -> [pc: {"idle", "members"}]
                                     \cup [pc: {"delete"}, rpsids: SUBSET Rpsids]]
    /\ crashes \in Nat
    /\ origin \in [Rpsids -> [t: States, b: Browsers] \cup {None}]
    /\ torn \subseteq Rpsids
    /\ missed \subseteq Rpsids

Init ==
    /\ authreq = {}
    /\ started = [t \in States |-> None]
    /\ stateCookie = [b \in Browsers |-> None]
    /\ callback = [c \in Callbacks |-> NoCallback]
    /\ central = [i \in Sids |-> "active"]
    /\ family = [r \in Rpsids |-> 0]
    /\ rpsess = [r \in Rpsids |-> None]
    /\ rptok = [r \in Rpsids |-> None]
    /\ index = [i \in Sids |-> {}]
    /\ request = [q \in Requests |-> NoRequest]
    /\ seen = {}
    /\ teardown = [j \in LogoutTokens |-> [pc |-> "idle"]]
    /\ crashes = 0
    /\ origin = [r \in Rpsids |-> None]
    /\ torn = {}
    /\ missed = {}

-----------------------------------------------------------------------------
(* Login and callback. *)

\* /auth/login draws a state, records the authreq and binds it to the browser.
Login(b) ==
    \E t \in States :
        /\ started[t] = None
        /\ started' = [started EXCEPT ![t] = b]
        /\ authreq' = authreq \cup {t}
        /\ stateCookie' = [stateCookie EXCEPT ![b] = t]
        /\ UNCHANGED <<callback, idp, keys, request, seen, teardown, crashes, history>>

\* The login-state cookie of the browser matches the state of the callback.
BoundToAny(b, t) == TRUE      \* mutant: the cookie is not compared
Bound(b, t) == stateCookie[b] = t

\* GETDEL: the authreq can be taken once.
TakenKept(t) == authreq       \* mutant: GET instead of GETDEL
Taken(t) == authreq \ {t}

\* The callback of login t arrives in browser b.  Every failure clears the
\* login-state cookie; only a bound callback consumes the authreq.
CallbackTake(c, b, t) ==
    /\ callback[c] = NoCallback
    /\ started[t] # None
    /\ \/ /\ ~Bound(b, t)
          /\ stateCookie' = [stateCookie EXCEPT ![b] = None]
          /\ UNCHANGED <<authreq, callback>>
       \/ /\ Bound(b, t) /\ t \notin authreq
          /\ stateCookie' = [stateCookie EXCEPT ![b] = None]
          /\ UNCHANGED <<authreq, callback>>
       \/ /\ Bound(b, t) /\ t \in authreq
          /\ authreq' = Taken(t)
          /\ callback' = [callback EXCEPT ![c] = [pc |-> "exchange", t |-> t, b |-> b]]
          /\ UNCHANGED stateCookie
    /\ UNCHANGED <<started, idp, keys, request, seen, teardown, crashes, history>>

\* The code exchange: tokens of an active central session, or a failure (an
\* error answer, a timeout, tokens that do not verify).
CallbackExchange(c) ==
    /\ callback[c].pc = "exchange"
    /\ \/ \E i \in Sids :
             /\ central[i] = "active"
             /\ callback' = [callback EXCEPT ![c] =
                    [pc |-> "create", t |-> callback[c].t, b |-> callback[c].b, sid |-> i]]
             /\ UNCHANGED stateCookie
       \/ /\ callback' = [callback EXCEPT ![c] = NoCallback]
          /\ stateCookie' = [stateCookie EXCEPT ![callback[c].b] = None]
    /\ UNCHANGED <<authreq, started, idp, keys, request, seen, teardown, crashes, history>>

Unused == {r \in Rpsids : origin[r] = None}

\* createSession indexes the session it stores, in one MULTI.
IndexedNot(i, r) == index     \* mutant: the SADD is left out
Indexed(i, r) == [index EXCEPT ![i] = @ \cup {r}]

CallbackCreate(c) ==
    /\ callback[c].pc = "create"
    /\ \E r \in Unused :
       LET i == callback[c].sid
       IN  /\ rpsess' = [rpsess EXCEPT ![r] = [sid |-> i, gen |-> 0, ttl |-> TRUE]]
           /\ rptok' = [rptok EXCEPT ![r] = [gen |-> 0, near |-> FALSE, ttl |-> TRUE]]
           /\ index' = Indexed(i, r)
           /\ origin' = [origin EXCEPT ![r] = [t |-> callback[c].t, b |-> callback[c].b]]
           /\ missed' = IF \E j \in LogoutTokens : SidOf[j] = i /\ teardown[j].pc = "delete"
                        THEN missed \cup {r}
                        ELSE missed
    /\ stateCookie' = [stateCookie EXCEPT ![callback[c].b] = None]
    /\ callback' = [callback EXCEPT ![c] = NoCallback]
    /\ UNCHANGED <<authreq, started, idp, request, seen, teardown, crashes, torn>>

\* A pending login is forgotten after AUTHREQ_TTL.
ExpireAuthRequest(t) ==
    /\ t \in authreq
    /\ authreq' = authreq \ {t}
    /\ UNCHANGED <<started, stateCookie, callback, idp, keys, request, seen, teardown,
                   crashes, history>>

-----------------------------------------------------------------------------
(* resolveIdentity, run by /auth/session and by every page and action. *)

\* SET ... KEEPTTL: the expiry survives if there is one; a missing key gets none.
KeptTtlDropped(key) == FALSE  \* mutant: plain SET, which drops the expiry
KeptTtl(key) == key # None /\ key.ttl

ReadIdentity(q, r) ==
    /\ request[q] = NoRequest
    /\ rpsess[r] # None
    /\ request' = [request EXCEPT ![q] =
                      [pc |-> "tokens", r |-> r, sid |-> rpsess[r].sid, gen |-> rpsess[r].gen]]
    /\ UNCHANGED <<login, callback, idp, keys, seen, teardown, crashes, history>>

\* Without tokens, or with a fresh access token, the stored identity is the answer.
NeedsRefreshNever(tokens) == FALSE   \* mutant: the near-expiry test is lost
NeedsRefresh(tokens) == tokens # None /\ tokens.near

ReadTokens(q) ==
    /\ request[q].pc = "tokens"
    /\ LET tokens == rptok[request[q].r]
       IN  IF NeedsRefresh(tokens)
           THEN request' = [request EXCEPT ![q].pc = "refresh", ![q].gen = tokens.gen]
           ELSE request' = [request EXCEPT ![q] = NoRequest]
    /\ UNCHANGED <<login, callback, idp, keys, seen, teardown, crashes, history>>

\* The refresh_token grant.  The IdP honours the newest token of a live session
\* and rotates it; its answer may be lost, and any failure ends in destroySession.
Refresh(q) ==
    /\ request[q].pc = "refresh"
    /\ LET r == request[q].r
       IN  \/ /\ central[request[q].sid] = "active"
              /\ request[q].gen = family[r]
              /\ family[r] < MaxGen
              /\ family' = [family EXCEPT ![r] = @ + 1]
              /\ \/ request' = [request EXCEPT ![q].pc = "put_identity", ![q].gen = @ + 1]
                 \/ request' = [request EXCEPT ![q].pc = "destroy"]
           \/ /\ request' = [request EXCEPT ![q].pc = "destroy"]
              /\ UNCHANGED family
    /\ UNCHANGED <<login, callback, central, keys, seen, teardown, crashes, history>>

\* Both values are written back; a command that fails, applied or not, ends in
\* destroySession like every failure of the refresh.
PutIdentity(q) ==
    /\ request[q].pc = "put_identity"
    /\ \/ /\ LET r == request[q].r
             IN  rpsess' = [rpsess EXCEPT ![r] =
                     [sid |-> request[q].sid, gen |-> request[q].gen, ttl |-> KeptTtl(@)]]
          /\ \E next \in {"put_tokens", "destroy"} : request' = [request EXCEPT ![q].pc = next]
       \/ /\ request' = [request EXCEPT ![q].pc = "destroy"]
          /\ UNCHANGED rpsess
    /\ UNCHANGED <<login, callback, idp, rptok, index, seen, teardown, crashes, history>>

PutTokens(q) ==
    /\ request[q].pc = "put_tokens"
    /\ \/ /\ LET r == request[q].r
             IN  rptok' = [rptok EXCEPT ![r] =
                     [gen |-> request[q].gen, near |-> FALSE, ttl |-> KeptTtl(@)]]
          /\ \/ request' = [request EXCEPT ![q] = NoRequest]
             \/ request' = [request EXCEPT ![q].pc = "destroy"]
       \/ /\ request' = [request EXCEPT ![q].pc = "destroy"]
          /\ UNCHANGED rptok
    /\ UNCHANGED <<login, callback, idp, rpsess, index, seen, teardown, crashes, history>>

\* destroySession, after a failed refresh or a logout, reads the identity for its
\* sid ...
DestroyRead(q) ==
    /\ request[q].pc = "destroy"
    /\ LET r == request[q].r
       IN  request' = [request EXCEPT ![q] =
               [pc |-> "delete", r |-> r, gen |-> 0,
                sid |-> IF rpsess[r] = None THEN None ELSE rpsess[r].sid]]
    /\ UNCHANGED <<login, callback, idp, keys, seen, teardown, crashes, history>>

\* ... and deletes both keys, and the index entry if there was an identity.
DestroyDelete(q) ==
    /\ request[q].pc = "delete"
    /\ LET r == request[q].r
       IN  /\ rpsess' = [rpsess EXCEPT ![r] = None]
           /\ rptok' = [rptok EXCEPT ![r] = None]
           /\ index' = [i \in Sids |-> IF i = request[q].sid THEN index[i] \ {r} ELSE index[i]]
           /\ torn' = torn \cup {r}
    /\ request' = [request EXCEPT ![q] = NoRequest]
    /\ UNCHANGED <<login, callback, idp, seen, teardown, crashes, origin, missed>>

-----------------------------------------------------------------------------
(* The ways out. *)

\* /auth/logout in the browser that holds the cookie of r.
Logout(q, r) ==
    /\ request[q] = NoRequest
    /\ origin[r] # None
    /\ rpsess[r] # None \/ rptok[r] # None   \* else destroySession changes nothing
    /\ request' = [request EXCEPT ![q] = [pc |-> "destroy", r |-> r, sid |-> None, gen |-> 0]]
    /\ UNCHANGED <<login, callback, idp, keys, seen, teardown, crashes, history>>

\* The user signs out at the IdP, from here or from another application.
EndCentral(i) ==
    /\ central[i] = "active"
    /\ central' = [central EXCEPT ![i] = "ended"]
    /\ UNCHANGED <<login, callback, family, keys, request, seen, teardown, crashes, history>>

\* A valid logout_token arrives: its jti is recorded first (SET NX), and only the
\* first receipt goes on; a repeat is acknowledged and changes nothing.
BackChannelReceive(j) ==
    /\ central[SidOf[j]] = "ended"
    /\ j \notin seen
    /\ seen' = seen \cup {j}
    /\ teardown' = [teardown EXCEPT ![j] = [pc |-> "members"]]
    /\ UNCHANGED <<login, callback, idp, keys, request, crashes, history>>

\* destroyBySid reads the members of the index ...
BackChannelMembers(j) ==
    /\ teardown[j].pc = "members"
    /\ teardown' = [teardown EXCEPT ![j] = [pc |-> "delete", rpsids |-> index[SidOf[j]]]]
    /\ UNCHANGED <<login, callback, idp, keys, request, seen, crashes, history>>

\* ... and deletes the keys of every member with the index, in one MULTI; with no
\* member to delete, a DEL of its own still drops the index.
MembersKeyedBySid(rpsids) == Sids                      \* mutant: the sid as the key
MembersOf(rpsids) == rpsids

BackChannelDelete(j) ==
    /\ teardown[j].pc = "delete"
    /\ LET gone == MembersOf(teardown[j].rpsids)
       IN  /\ rpsess' = [r \in Rpsids |-> IF r \in gone THEN None ELSE rpsess[r]]
           /\ rptok' = [r \in Rpsids |-> IF r \in gone THEN None ELSE rptok[r]]
           /\ torn' = torn \cup gone
    /\ index' = [index EXCEPT ![SidOf[j]] = {}]
    /\ teardown' = [teardown EXCEPT ![j] = [pc |-> "idle"]]
    /\ UNCHANGED <<login, callback, idp, request, seen, crashes, origin, missed>>

-----------------------------------------------------------------------------
(* Time and restarts. *)

\* The access token comes within a minute of its expiry.
Age(r) ==
    /\ rptok[r] # None /\ ~rptok[r].near
    /\ rptok' = [rptok EXCEPT ![r].near = TRUE]
    /\ UNCHANGED <<login, callback, idp, rpsess, index, request, seen, teardown, crashes,
                   history>>

\* Redis drops the keys of a session whose time is up.
Expire(r) ==
    /\ rpsess[r] # None /\ rpsess[r].ttl
    /\ rpsess' = [rpsess EXCEPT ![r] = None]
    /\ rptok' = [rptok EXCEPT ![r] = IF KeptTtl(@) THEN None ELSE @]
    /\ torn' = torn \cup {r}
    /\ UNCHANGED <<login, callback, idp, index, request, seen, teardown, crashes, origin, missed>>

\* The index expires with the last of its sessions, never before.
ExpireIndex(i) ==
    /\ index[i] # {}
    /\ \A r \in index[i] : ~KeptTtl(rpsess[r])
    /\ index' = [index EXCEPT ![i] = {}]
    /\ UNCHANGED <<login, callback, idp, rpsess, rptok, request, seen, teardown, crashes,
                   history>>

Crash ==
    /\ crashes < MaxCrashes
    /\ crashes' = crashes + 1
    /\ callback' = [c \in Callbacks |-> NoCallback]
    /\ request' = [q \in Requests |-> NoRequest]
    /\ teardown' = [j \in LogoutTokens |-> [pc |-> "idle"]]
    /\ UNCHANGED <<login, idp, keys, seen, history>>

CallbackStep(c) == CallbackExchange(c) \/ CallbackCreate(c)
RequestStep(q) == ReadTokens(q) \/ Refresh(q) \/ PutIdentity(q) \/ PutTokens(q)
                  \/ DestroyRead(q) \/ DestroyDelete(q)
Visit(r) == \E q \in Requests : ReadIdentity(q, r)

Next ==
    \/ \E b \in Browsers : Login(b)
    \/ \E c \in Callbacks, b \in Browsers, t \in States : CallbackTake(c, b, t)
    \/ \E c \in Callbacks : CallbackStep(c)
    \/ \E t \in States : ExpireAuthRequest(t)
    \/ \E r \in Rpsids : Visit(r) \/ Age(r) \/ Expire(r)
    \/ \E q \in Requests, r \in Rpsids : Logout(q, r)
    \/ \E q \in Requests : RequestStep(q)
    \/ \E i \in Sids : EndCentral(i) \/ ExpireIndex(i)
    \/ \E j \in LogoutTokens :
          BackChannelReceive(j) \/ BackChannelMembers(j) \/ BackChannelDelete(j)
    \/ Crash

Spec == Init /\ [][Next]_vars

\* A request that has begun runs on, access tokens age, and the browser that
\* holds the cookie keeps asking.  Nothing is assumed of the expiry of the keys
\* or of the back-channel: a logout_token may never come.
Fairness ==
    /\ \A q \in Requests : WF_vars(RequestStep(q))
    /\ \A r \in Rpsids : WF_vars(Age(r)) /\ SF_vars(Visit(r))

FairSpec == Spec /\ Fairness

-----------------------------------------------------------------------------
(* Properties. *)

\* A login yields at most one session, and in the browser that began it, however
\* often and wherever its callback is submitted.
OneSessionPerLogin ==
    \A r1, r2 \in Rpsids :
        origin[r1] # None /\ origin[r2] # None /\ origin[r1].t = origin[r2].t => r1 = r2

SessionInItsBrowser ==
    \A r \in Rpsids : origin[r] # None => started[origin[r].t] = origin[r].b

\* A session that can still expire is found by the next back-channel logout of
\* its central session, unless it was created while one was at work.
IndexCoversSessions ==
    \A r \in Rpsids \ missed :
        rpsess[r] # None /\ rpsess[r].ttl => r \in index[rpsess[r].sid]

\* A session without expiry is one that was torn down while a refresh of it was
\* on its way.
NoExpiryOnlyIfTorn ==
    \A r \in Rpsids : rpsess[r] # None /\ ~rpsess[r].ttl => r \in torn

\* When the central session has ended, an RP session that is still being used
\* ends with it, even if no logout_token arrives: its next refresh is refused and
\* destroys it.  Sessions some teardown had deleted before are excepted.
RevokedSessionEnds ==
    \A i \in Sids, r \in Rpsids :
        (central[i] = "ended" /\ r \notin torn /\ rpsess[r] # None /\ rpsess[r].sid = i)
            ~> (rpsess[r] = None)

\* Every stored session expires: a refresh preserves the session's TTL.
EverySessionExpires ==
    \A r \in Rpsids : rpsess[r] # None => rpsess[r].ttl
=============================================================================
