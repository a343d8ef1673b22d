--------------------------- MODULE Session_proofs ---------------------------
(***************************************************************************)
(* Proofs about Session, for all browsers, logins, sessions, requests and  *)
(* logout tokens: that a login yields one session, in its browser; that    *)
(* the index finds every session that can expire; and that a session loses *)
(* its expiry only after a teardown.                                       *)
(***************************************************************************)
EXTENDS Session, TLAPS

CallingBack(c) == callback[c] # NoCallback
Asking(q) == request[q] # NoRequest

\* Only a login that was begun is pending.
PendingStarted == \A t \in authreq : started[t] # None

\* A cookie belongs to the browser whose login drew its state.
CookieIsOwn == \A b \in Browsers : stateCookie[b] # None => started[stateCookie[b]] = b

\* A callback has taken its login away: it is not pending, no session came from it, and no
\* other callback has it.
CallbackOwnsLogin ==
    /\ \A c \in Callbacks : CallingBack(c) =>
           /\ started[callback[c].t] = callback[c].b
           /\ callback[c].t \notin authreq
           /\ \A r \in Rpsids : origin[r] # None => origin[r].t # callback[c].t
    /\ \A c \in Callbacks, d \in Callbacks :
           CallingBack(c) /\ CallingBack(d) /\ callback[c].t = callback[d].t => c = d

\* The login a session came from is used up.
OriginUsed == \A r \in Rpsids : origin[r] # None =>
    origin[r].t \notin authreq /\ started[origin[r].t] = origin[r].b

LoginInv == PendingStarted /\ CookieIsOwn /\ CallbackOwnsLogin /\ OriginUsed /\ OneSessionPerLogin

\* Only a session that was created is asked for, or stored.
KnownSessions ==
    /\ \A q \in Requests : Asking(q) => origin[request[q].r] # None
    /\ \A r \in Rpsids : rpsess[r] # None => origin[r] # None

\* The central session of an RP session is the same for all that have it in hand.
Resolves(v) == v.pc \in {"tokens", "refresh", "put_identity", "put_tokens"}
SidAgrees ==
    /\ \A q \in Requests : Resolves(request[q]) =>
           /\ request[q].sid \in Sids
           /\ rpsess[request[q].r] # None => rpsess[request[q].r].sid = request[q].sid
    /\ \A p \in Requests, q \in Requests :
           Resolves(request[p]) /\ Resolves(request[q]) /\ request[p].r = request[q].r
               => request[p].sid = request[q].sid

\* A session that is no longer stored was torn down, or has expired.
GoneIsTorn == \A r \in Rpsids : origin[r] # None /\ rpsess[r] = None => r \in torn

\* A teardown at work knows every session of the index that it will delete, except those that
\* were created under it.
TeardownCovers == \A j \in LogoutTokens :
    teardown[j].pc = "delete" => index[SidOf[j]] \subseteq teardown[j].rpsids \cup missed

SessionInv == KnownSessions /\ SidAgrees /\ GoneIsTorn /\ TeardownCovers
              /\ NoExpiryOnlyIfTorn /\ IndexCoversSessions

IInv == TypeOK /\ LoginInv /\ SessionInv

USE SidOfAssumption, SessionBounds, NoneAssumption

LEMMA InitIInv == Init => IInv
<1> SUFFICES ASSUME Init PROVE IInv
  OBVIOUS
<1>1. TypeOK
  BY DEF Init, TypeOK, NoRequest
<1>2. LoginInv
  BY DEF Init, LoginInv, PendingStarted, CookieIsOwn, CallbackOwnsLogin, OriginUsed,
         OneSessionPerLogin, CallingBack
<1>3. SessionInv
  BY DEF Init, SessionInv, KnownSessions, SidAgrees, GoneIsTorn, TeardownCovers, Asking, Resolves,
         NoExpiryOnlyIfTorn, IndexCoversSessions, NoRequest
<1> QED  BY <1>1, <1>2, <1>3 DEF IInv

-----------------------------------------------------------------------------
(* The two halves of the invariant. *)

LEMMA LoginRests ==
    ASSUME LoginInv, UNCHANGED <<authreq, started, stateCookie, callback, origin>>
    PROVE  LoginInv'
  BY DEF LoginInv, PendingStarted, CookieIsOwn, CallbackOwnsLogin, OriginUsed, OneSessionPerLogin,
         CallingBack

LEMMA SessionRests ==
    ASSUME SessionInv, UNCHANGED <<rpsess, index, request, teardown, origin, torn, missed>>
    PROVE  SessionInv'
  BY DEF SessionInv, KnownSessions, SidAgrees, GoneIsTorn, TeardownCovers, Asking, Resolves,
         NoExpiryOnlyIfTorn, IndexCoversSessions

\* What a callback has in hand.
LEMMA CallbackFacts ==
    ASSUME TypeOK, NEW c \in Callbacks
    PROVE  /\ callback[c] \in Callback \cup {NoCallback}
           /\ CallingBack(c) => callback[c].t \in States /\ callback[c].b \in Browsers
           /\ callback[c].pc # "idle" => CallingBack(c)
           /\ callback[c].pc = "create" => callback[c].sid \in Sids
<1>1. callback[c] \in Callback \cup {NoCallback}
  BY DEF TypeOK
<1> QED  BY <1>1 DEF Callback, NoCallback, CallingBack

\* Nothing that was begun is drawn again.
LEMMA StartedFacts ==
    ASSUME TypeOK, LoginInv, NEW t \in States, started[t] = None
    PROVE  /\ t \notin authreq
           /\ \A c \in Callbacks : CallingBack(c) => callback[c].t # t
           /\ \A r \in Rpsids : origin[r] # None => origin[r].t # t
           /\ \A b \in Browsers : stateCookie[b] # t
<1>1. \A r \in Rpsids : origin[r] # None => origin[r].b \in Browsers
  BY DEF TypeOK
<1>2. \A b \in Browsers : b # None
  OBVIOUS
<1>3. t # None
  OBVIOUS
<1> QED  BY <1>1, <1>2, <1>3, CallbackFacts DEF LoginInv, PendingStarted, CookieIsOwn, CallbackOwnsLogin, OriginUsed

LEMMA LoginStep == ASSUME IInv, NEW b \in Browsers, Login(b) PROVE IInv'
<1>1. PICK t \in States : /\ started[t] = None /\ started' = [started EXCEPT ![t] = b]
                          /\ authreq' = authreq \cup {t}
                          /\ stateCookie' = [stateCookie EXCEPT ![b] = t]
  BY DEF Login
<1>2. UNCHANGED <<callback, central, family, rpsess, rptok, index, request, seen, teardown, crashes,
                  origin, torn, missed>>
  BY DEF Login, idp, keys, history
<1>3. TypeOK'
  BY <1>1, <1>2 DEF IInv, TypeOK
<1>4. \A u \in States : u # t => started'[u] = started[u]
  BY <1>1 DEF IInv, TypeOK
<1>5. started'[t] = b /\ b # None
  BY <1>1 DEF IInv, TypeOK
<1>6. PendingStarted'
  BY <1>1, <1>4, <1>5 DEF IInv, TypeOK, LoginInv, PendingStarted
<1>7. CookieIsOwn'
  BY <1>1, <1>4, <1>5, StartedFacts DEF IInv, TypeOK, LoginInv, CookieIsOwn
<1>8. CallbackOwnsLogin'
  BY <1>1, <1>2, <1>4, StartedFacts, CallbackFacts DEF IInv, LoginInv, CallbackOwnsLogin, CallingBack
<1>9. OriginUsed'
  <2>1. \A r \in Rpsids : origin[r] # None => origin[r].t \in States
    BY DEF IInv, TypeOK
  <2> QED  BY <1>1, <1>2, <1>4, <2>1, StartedFacts DEF IInv, LoginInv, OriginUsed
<1>10. OneSessionPerLogin'
  BY <1>2 DEF IInv, LoginInv, OneSessionPerLogin
<1> QED  BY <1>2, <1>3, <1>6, <1>7, <1>8, <1>9, <1>10, SessionRests DEF IInv, LoginInv

\* A failing callback clears the cookie.
LEMMA CookieCleared ==
    ASSUME IInv, NEW b \in Browsers, stateCookie' = [stateCookie EXCEPT ![b] = None]
    PROVE  stateCookie' \in [Browsers -> States \cup {None}]
           /\ \A d \in Browsers : stateCookie'[d] # None => started[stateCookie'[d]] = d
  BY DEF IInv, TypeOK, LoginInv, CookieIsOwn

LEMMA CallbackTakeStep ==
    ASSUME IInv, NEW c \in Callbacks, NEW b \in Browsers, NEW t \in States, CallbackTake(c, b, t)
    PROVE  IInv'
<1>1. /\ UNCHANGED <<started, central, family, rpsess, rptok, index, request, seen, teardown, crashes,
                     origin, torn, missed>>
      /\ callback[c] = NoCallback /\ started[t] # None
  BY DEF CallbackTake, idp, keys, history
<1>2. CASE stateCookie' = [stateCookie EXCEPT ![b] = None] /\ UNCHANGED <<authreq, callback>>
  <2>1. TypeOK' /\ CookieIsOwn'
    BY <1>1, <1>2, CookieCleared DEF IInv, TypeOK, CookieIsOwn
  <2>2. PendingStarted' /\ CallbackOwnsLogin' /\ OriginUsed' /\ OneSessionPerLogin'
    BY <1>1, <1>2 DEF IInv, LoginInv, PendingStarted, CallbackOwnsLogin, OriginUsed,
                      OneSessionPerLogin, CallingBack
  <2> QED  BY <1>1, <2>1, <2>2, SessionRests DEF IInv, LoginInv
<1>3. CASE /\ Bound(b, t) /\ t \in authreq /\ authreq' = Taken(t)
           /\ callback' = [callback EXCEPT ![c] = [pc |-> "exchange", t |-> t, b |-> b]]
           /\ UNCHANGED stateCookie
  <2> DEFINE new == [pc |-> "exchange", t |-> t, b |-> b]
  <2>1. new \in Callback /\ new.t = t /\ new.b = b /\ callback' = [callback EXCEPT ![c] = new]
    BY <1>3 DEF Callback
  <2> HIDE DEF new
  <2>2. \A d \in Callbacks : callback'[d] = IF d = c THEN new ELSE callback[d]
    BY <2>1 DEF IInv, TypeOK
  <2>3. authreq' = authreq \ {t} /\ authreq' \subseteq authreq /\ t \notin authreq'
    BY <1>3 DEF Taken
  <2>4. TypeOK'
    BY <1>1, <1>3, <2>1, <2>3 DEF IInv, TypeOK
  <2>5. started[t] = b
    BY <1>3 DEF Bound, IInv, LoginInv, CookieIsOwn
  <2>6. \A d \in Callbacks : CallingBack(d)' => d = c \/ CallingBack(d)
    BY <2>2 DEF CallingBack
  <2>7. \A d \in Callbacks : CallingBack(d) => callback[d].t # t
    BY <1>3 DEF IInv, LoginInv, CallbackOwnsLogin
  <2>8. \A r \in Rpsids : origin[r] # None => origin[r].t # t
    BY <1>3 DEF IInv, LoginInv, OriginUsed
  <2>9. CallbackOwnsLogin'
    BY <1>1, <2>1, <2>2, <2>3, <2>5, <2>6, <2>7, <2>8 DEF IInv, LoginInv, CallbackOwnsLogin
  <2>10. PendingStarted' /\ CookieIsOwn' /\ OriginUsed' /\ OneSessionPerLogin'
    BY <1>1, <1>3, <2>3 DEF IInv, LoginInv, PendingStarted, CookieIsOwn, OriginUsed, OneSessionPerLogin
  <2> QED  BY <1>1, <2>4, <2>9, <2>10, SessionRests DEF IInv, LoginInv
<1> QED  BY <1>2, <1>3 DEF CallbackTake

LEMMA CallbackExchangeStep == ASSUME IInv, NEW c \in Callbacks, CallbackExchange(c) PROVE IInv'
<1>1. /\ UNCHANGED <<authreq, started, central, family, rpsess, rptok, index, request, seen, teardown,
                     crashes, origin, torn, missed>>
      /\ CallingBack(c)
  BY CallbackFacts DEF CallbackExchange, idp, keys, history, IInv
<1>2. PendingStarted' /\ OriginUsed' /\ OneSessionPerLogin'
  BY <1>1 DEF IInv, LoginInv, PendingStarted, OriginUsed, OneSessionPerLogin
<1>3. CASE /\ callback' = [callback EXCEPT ![c] = NoCallback]
           /\ stateCookie' = [stateCookie EXCEPT ![callback[c].b] = None]
  <2>1. callback[c].b \in Browsers
    BY <1>1, CallbackFacts DEF IInv
  <2>2. TypeOK' /\ CookieIsOwn'
    BY <1>1, <1>3, <2>1, CookieCleared DEF IInv, TypeOK, CookieIsOwn
  <2>3. \A d \in Callbacks : CallingBack(d)' => CallingBack(d) /\ callback'[d] = callback[d]
    BY <1>3 DEF IInv, TypeOK, CallingBack
  <2>4. CallbackOwnsLogin'
    BY <1>1, <2>3 DEF IInv, LoginInv, CallbackOwnsLogin
  <2> QED  BY <1>1, <1>2, <2>2, <2>4, SessionRests DEF IInv, LoginInv
<1>4. ASSUME NEW i \in Sids, UNCHANGED stateCookie,
             callback' = [callback EXCEPT ![c] =
                 [pc |-> "create", t |-> callback[c].t, b |-> callback[c].b, sid |-> i]]
      PROVE  IInv'
  <2> DEFINE new == [pc |-> "create", t |-> callback[c].t, b |-> callback[c].b, sid |-> i]
  <2>1. /\ new \in Callback /\ new.t = callback[c].t /\ new.b = callback[c].b
        /\ callback' = [callback EXCEPT ![c] = new]
    BY <1>1, <1>4, CallbackFacts DEF Callback, IInv
  <2> HIDE DEF new
  <2>2. TypeOK' /\ CookieIsOwn'
    BY <1>1, <1>4, <2>1 DEF IInv, TypeOK, LoginInv, CookieIsOwn
  <2>3. \A d \in Callbacks : CallingBack(d)' =>
            CallingBack(d) /\ callback'[d].t = callback[d].t /\ callback'[d].b = callback[d].b
    BY <1>1, <2>1 DEF IInv, TypeOK, CallingBack
  <2>4. CallbackOwnsLogin'
    BY <1>1, <2>3 DEF IInv, LoginInv, CallbackOwnsLogin
  <2> QED  BY <1>1, <1>2, <2>2, <2>4, SessionRests DEF IInv, LoginInv
<1> QED  BY <1>3, <1>4 DEF CallbackExchange

\* The session of a login: stored, indexed and its login used up in one step.
LEMMA CallbackCreateStep == ASSUME IInv, NEW c \in Callbacks, CallbackCreate(c) PROVE IInv'
<1> DEFINE i == callback[c].sid
           o == [t |-> callback[c].t, b |-> callback[c].b]
<1>1. /\ UNCHANGED <<authreq, started, central, family, request, seen, teardown, crashes, torn>>
      /\ stateCookie' = [stateCookie EXCEPT ![callback[c].b] = None]
      /\ callback' = [callback EXCEPT ![c] = NoCallback] /\ callback[c].pc = "create"
  BY DEF CallbackCreate, idp
<1>2. PICK r \in Rpsids :
          /\ origin[r] = None
          /\ rpsess' = [rpsess EXCEPT ![r] = [sid |-> i, gen |-> 0, ttl |-> TRUE]]
          /\ rptok' = [rptok EXCEPT ![r] = [gen |-> 0, near |-> FALSE, ttl |-> TRUE]]
          /\ index' = [index EXCEPT ![i] = @ \cup {r}]
          /\ origin' = [origin EXCEPT ![r] = o]
          /\ missed' = IF \E j \in LogoutTokens : SidOf[j] = i /\ teardown[j].pc = "delete"
                       THEN missed \cup {r} ELSE missed
  BY DEF CallbackCreate, Unused, Indexed
<1>3. /\ CallingBack(c) /\ i \in Sids /\ callback[c].t \in States /\ callback[c].b \in Browsers
      /\ o \in [t: States, b: Browsers] /\ o.t = callback[c].t /\ o.b = callback[c].b /\ o # None
  BY <1>1, CallbackFacts DEF IInv
<1> HIDE DEF o
<1>4. \A q \in Rpsids : origin'[q] = IF q = r THEN o ELSE origin[q]
  BY <1>2 DEF IInv, TypeOK
<1>5. \A d \in Callbacks : CallingBack(d)' => d # c /\ CallingBack(d) /\ callback'[d] = callback[d]
  BY <1>1 DEF IInv, TypeOK, CallingBack
<1>6. CookieIsOwn' /\ stateCookie' \in [Browsers -> States \cup {None}]
  BY <1>1, <1>3, CookieCleared DEF IInv, CookieIsOwn
<1>7. LoginInv'
  <2>1. PendingStarted'
    BY <1>1 DEF IInv, LoginInv, PendingStarted
  <2>2. OriginUsed'
    BY <1>1, <1>3, <1>4 DEF IInv, LoginInv, OriginUsed, CallbackOwnsLogin
  <2>3. OneSessionPerLogin'
    BY <1>3, <1>4 DEF IInv, LoginInv, OneSessionPerLogin, CallbackOwnsLogin
  <2>4. CallbackOwnsLogin'
    BY <1>1, <1>3, <1>4, <1>5 DEF IInv, LoginInv, CallbackOwnsLogin
  <2> QED  BY <1>6, <2>1, <2>2, <2>3, <2>4 DEF LoginInv
<1> DEFINE new == [sid |-> i, gen |-> 0, ttl |-> TRUE]
           tok == [gen |-> 0, near |-> FALSE, ttl |-> TRUE]
<1>8. new \in Identity /\ new.sid = i /\ new.ttl = TRUE /\ tok \in Tokens /\ new # None
  <2>1. new \in Identity /\ new.sid = i /\ new.ttl = TRUE /\ tok \in Tokens
    BY <1>3 DEF Identity, Tokens
  <2> HIDE DEF new, tok
  <2> QED  BY <2>1
<1>9. rpsess' = [rpsess EXCEPT ![r] = new] /\ rptok' = [rptok EXCEPT ![r] = tok]
  BY <1>2
<1> HIDE DEF new, tok, i
<1>10. \A q \in Rpsids : rpsess'[q] = IF q = r THEN new ELSE rpsess[q]
  BY <1>9 DEF IInv, TypeOK
<1>11. \A k \in Sids : index'[k] = IF k = i THEN index[k] \cup {r} ELSE index[k]
  BY <1>2 DEF IInv, TypeOK
<1>12. missed \subseteq missed' /\ missed' \subseteq Rpsids
  BY <1>2 DEF IInv, TypeOK
<1>13. TypeOK'
  <2>1. rpsess' \in [Rpsids -> Identity \cup {None}] /\ rptok' \in [Rpsids -> Tokens \cup {None}]
    BY <1>8, <1>9 DEF IInv, TypeOK
  <2>2. index' \in [Sids -> SUBSET Rpsids] /\ callback' \in [Callbacks -> Callback \cup {NoCallback}]
    BY <1>1, <1>2, <1>3 DEF IInv, TypeOK
  <2>3. origin' \in [Rpsids -> [t: States, b: Browsers] \cup {None}]
    BY <1>2, <1>3 DEF IInv, TypeOK
  <2> QED  BY <1>1, <1>6, <1>12, <2>1, <2>2, <2>3 DEF IInv, TypeOK
<1>14. KnownSessions'
  <2>1. \A q \in Requests : Asking(q) => request[q].r \in Rpsids
    BY DEF IInv, TypeOK, Asking, Request
  <2> QED  BY <1>1, <1>3, <1>4, <1>10, <2>1 DEF IInv, SessionInv, KnownSessions, Asking
<1>15. SidAgrees'
  <2>1. \A q \in Requests : Resolves(request[q]) => request[q].r # r /\ request[q].r \in Rpsids
    BY <1>2 DEF IInv, TypeOK, SessionInv, KnownSessions, Asking, Resolves, NoRequest, Request
  <2> QED  BY <1>1, <1>10, <2>1 DEF IInv, SessionInv, SidAgrees
<1>16. GoneIsTorn' /\ NoExpiryOnlyIfTorn'
  BY <1>1, <1>4, <1>8, <1>10 DEF IInv, SessionInv, GoneIsTorn, NoExpiryOnlyIfTorn
<1>17. IndexCoversSessions'
  <2>1. SUFFICES ASSUME NEW q \in Rpsids \ missed', rpsess'[q] # None /\ rpsess'[q].ttl
                 PROVE  q \in index'[rpsess'[q].sid]
    BY DEF IndexCoversSessions
  <2>2. CASE q = r
    BY <1>3, <1>8, <1>10, <1>11, <2>2
  <2>3. CASE q # r
    <3>1. rpsess'[q] = rpsess[q] /\ rpsess[q] # None /\ q \in Rpsids \ missed
      BY <1>10, <1>12, <2>1, <2>3
    <3>2. rpsess[q].sid \in Sids
      BY <3>1 DEF IInv, TypeOK, Identity
    <3>3. q \in index[rpsess[q].sid]
      BY <2>1, <3>1 DEF IInv, SessionInv, IndexCoversSessions
    <3> QED  BY <1>11, <3>1, <3>2, <3>3
  <2> QED  BY <2>2, <2>3
<1>18. TeardownCovers'
  <2>1. SUFFICES ASSUME NEW j \in LogoutTokens, teardown[j].pc = "delete"
                 PROVE  index'[SidOf[j]] \subseteq teardown[j].rpsids \cup missed'
    BY <1>1 DEF TeardownCovers
  <2>2. SidOf[j] = i => r \in missed'
    BY <1>2, <2>1
  <2> QED  BY <1>11, <1>12, <2>1, <2>2 DEF IInv, SessionInv, TeardownCovers
<1> QED  BY <1>7, <1>13, <1>14, <1>15, <1>16, <1>17, <1>18 DEF IInv, SessionInv

LEMMA ExpireAuthRequestStep == ASSUME IInv, NEW t \in States, ExpireAuthRequest(t) PROVE IInv'
<1>1. /\ UNCHANGED <<started, stateCookie, callback, central, family, rpsess, rptok, index, request,
                     seen, teardown, crashes, origin, torn, missed>>
      /\ authreq' \subseteq authreq
  BY DEF ExpireAuthRequest, idp, keys, history
<1>2. LoginInv'
  BY <1>1 DEF IInv, LoginInv, PendingStarted, CookieIsOwn, CallbackOwnsLogin, OriginUsed,
              OneSessionPerLogin, CallingBack
<1> QED  BY <1>1, <1>2, SessionRests DEF IInv, TypeOK

-----------------------------------------------------------------------------
(* Requests. *)

\* What a request has in hand.
LEMMA RequestFacts ==
    ASSUME IInv, NEW q \in Requests, request[q].pc # "idle"
    PROVE  /\ Asking(q) /\ request[q] \in Request /\ request[q].r \in Rpsids
           /\ request[q].gen \in Nat /\ request[q].sid \in Sids \cup {None}
           /\ origin[request[q].r] # None
           /\ Resolves(request[q]) => request[q].sid \in Sids
<1>1. Asking(q) /\ request[q] \in Request
  BY DEF IInv, TypeOK, Asking, NoRequest
<1> QED  BY <1>1 DEF Request, IInv, SessionInv, KnownSessions, SidAgrees

\* What a request may go on to: another session is in hand only if it is stored, or being
\* destroyed, and the sid comes along or is read.
Follows(q, new) ==
    /\ new \in Request \cup {NoRequest}
    /\ new # NoRequest => origin[new.r] # None
    /\ Resolves(new) =>
           \/ rpsess[new.r] # None /\ new.sid = rpsess[new.r].sid
           \/ Resolves(request[q]) /\ request[q].r = new.r /\ request[q].sid = new.sid

LEMMA NoRequestFollows == ASSUME NEW q PROVE Follows(q, NoRequest)
  BY DEF Follows, NoRequest, Resolves

LEMMA FollowsAgrees ==
    ASSUME IInv, NEW q \in Requests, NEW new, Follows(q, new),
           request' = [request EXCEPT ![q] = new], UNCHANGED <<rpsess, origin>>
    PROVE  /\ request' \in [Requests -> Request \cup {NoRequest}]
           /\ KnownSessions' /\ SidAgrees'
<1>1. \A p \in Requests : request'[p] = IF p = q THEN new ELSE request[p]
  BY DEF IInv, TypeOK
<1>2. request' \in [Requests -> Request \cup {NoRequest}]
  BY DEF IInv, TypeOK, Follows
<1>3. KnownSessions'
  BY <1>1 DEF Follows, IInv, SessionInv, KnownSessions, Asking
<1>4. Resolves(new) => new.r \in Rpsids
  BY DEF Follows, Resolves, NoRequest, Request
<1>5. Resolves(new) =>
          /\ new.sid \in Sids
          /\ rpsess[new.r] # None => rpsess[new.r].sid = new.sid
          /\ \A p \in Requests : Resolves(request[p]) /\ request[p].r = new.r => request[p].sid = new.sid
  <2>1. \A r \in Rpsids : rpsess[r] # None => rpsess[r].sid \in Sids
    BY DEF IInv, TypeOK, Identity
  <2> QED  BY <1>4, <2>1 DEF Follows, IInv, SessionInv, SidAgrees
<1>6. SidAgrees'
  <2>1. \A p \in Requests : Resolves(request'[p]) =>
            /\ request'[p].sid \in Sids
            /\ rpsess[request'[p].r] # None => rpsess[request'[p].r].sid = request'[p].sid
    BY <1>1, <1>5 DEF IInv, SessionInv, SidAgrees
  <2>2. \A p1 \in Requests, p2 \in Requests :
           Resolves(request'[p1]) /\ Resolves(request'[p2]) /\ request'[p1].r = request'[p2].r
               => request'[p1].sid = request'[p2].sid
    BY <1>1, <1>5 DEF IInv, SessionInv, SidAgrees
  <2> QED  BY <2>1, <2>2 DEF SidAgrees
<1> QED  BY <1>2, <1>3, <1>6

\* A step of a request that writes nothing, the refresh generation of the IdP apart.
LEMMA RequestMoves ==
    ASSUME IInv, NEW q \in Requests, NEW new, Follows(q, new),
           request' = [request EXCEPT ![q] = new], family' \in [Rpsids -> Nat],
           UNCHANGED <<login, callback, central, keys, seen, teardown, crashes, history>>
    PROVE  IInv'
<1>1. UNCHANGED <<authreq, started, stateCookie, callback, central, rpsess, rptok, index, seen, teardown,
                  crashes, origin, torn, missed>>
  BY DEF login, keys, history
<1>2. LoginInv'
  BY <1>1, LoginRests DEF IInv
<1>3. request' \in [Requests -> Request \cup {NoRequest}] /\ KnownSessions' /\ SidAgrees'
  BY <1>1, FollowsAgrees
<1>4. GoneIsTorn' /\ TeardownCovers' /\ NoExpiryOnlyIfTorn' /\ IndexCoversSessions'
  BY <1>1 DEF IInv, SessionInv, GoneIsTorn, TeardownCovers, NoExpiryOnlyIfTorn, IndexCoversSessions
<1>5. TypeOK'
  BY <1>1, <1>3 DEF IInv, TypeOK
<1> QED  BY <1>2, <1>3, <1>4, <1>5 DEF IInv, SessionInv

LEMMA ReadIdentityStep ==
    ASSUME IInv, NEW q \in Requests, NEW r \in Rpsids, ReadIdentity(q, r) PROVE IInv'
<1> DEFINE new == [pc |-> "tokens", r |-> r, sid |-> rpsess[r].sid, gen |-> rpsess[r].gen]
<1>1. /\ rpsess[r] # None /\ request' = [request EXCEPT ![q] = new] /\ UNCHANGED family
      /\ UNCHANGED <<login, callback, central, keys, seen, teardown, crashes, history>>
  BY DEF ReadIdentity, idp
<1>2. rpsess[r].sid \in Sids /\ rpsess[r].gen \in Nat
  BY <1>1 DEF IInv, TypeOK, Identity
<1>3. new \in Request /\ new.r = r /\ new.sid = rpsess[r].sid
  BY <1>2 DEF Request
<1> HIDE DEF new
<1>4. Follows(q, new)
  BY <1>1, <1>3 DEF Follows, IInv, SessionInv, KnownSessions
<1> QED  BY <1>1, <1>4, RequestMoves DEF IInv, TypeOK

LEMMA ReadTokensStep == ASSUME IInv, NEW q \in Requests, ReadTokens(q) PROVE IInv'
<1> DEFINE tokens == rptok[request[q].r]
           new == [request[q] EXCEPT !.pc = "refresh", !.gen = tokens.gen]
<1>1. /\ request[q].pc = "tokens" /\ UNCHANGED family
      /\ UNCHANGED <<login, callback, central, keys, seen, teardown, crashes, history>>
  BY DEF ReadTokens, idp
<1>2. CASE NeedsRefresh(tokens) /\ request' = [request EXCEPT ![q] = new]
  <2>1. tokens.gen \in Nat
    BY <1>1, <1>2, RequestFacts DEF IInv, TypeOK, Tokens, NeedsRefresh
  <2>2. new \in Request /\ new.r = request[q].r /\ new.sid = request[q].sid
    BY <1>1, <2>1, RequestFacts DEF Request
  <2> HIDE DEF new
  <2>3. Follows(q, new)
    BY <1>1, <2>2, RequestFacts DEF Follows, Resolves
  <2> QED  BY <1>1, <1>2, <2>3, RequestMoves DEF IInv, TypeOK
<1>3. CASE request' = [request EXCEPT ![q] = NoRequest]
  BY <1>1, <1>3, NoRequestFollows, RequestMoves DEF IInv, TypeOK
<1> QED  BY <1>2, <1>3 DEF ReadTokens

LEMMA RefreshStep == ASSUME IInv, NEW q \in Requests, Refresh(q) PROVE IInv'
<1> DEFINE put == [request[q] EXCEPT !.pc = "put_identity", !.gen = @ + 1]
           over == [request[q] EXCEPT !.pc = "destroy"]
<1>1. /\ request[q].pc = "refresh"
      /\ UNCHANGED <<login, callback, central, keys, seen, teardown, crashes, history>>
      /\ request' = [request EXCEPT ![q] = put] \/ request' = [request EXCEPT ![q] = over]
      /\ \/ family' = [family EXCEPT ![request[q].r] = @ + 1]
         \/ family' = family
  BY DEF Refresh
<1>2. family' \in [Rpsids -> Nat]
  BY <1>1, RequestFacts DEF IInv, TypeOK
<1>3. /\ put \in Request /\ put.r = request[q].r /\ put.sid = request[q].sid
      /\ over \in Request /\ over.r = request[q].r /\ over.pc = "destroy"
  <2>1. request[q] \in Request /\ request[q].gen + 1 \in Nat
    BY <1>1, RequestFacts
  <2>2. put \in Request /\ put.r = request[q].r /\ put.sid = request[q].sid
    BY <2>1 DEF Request
  <2>3. over \in Request /\ over.r = request[q].r /\ over.pc = "destroy"
    BY <2>1 DEF Request
  <2> QED  BY <2>2, <2>3
<1> HIDE DEF put, over
<1>4. Follows(q, put) /\ Follows(q, over)
  BY <1>1, <1>3, RequestFacts DEF Follows, Resolves
<1> QED  BY <1>1, <1>2, <1>4, RequestMoves

LEMMA DestroyReadStep == ASSUME IInv, NEW q \in Requests, DestroyRead(q) PROVE IInv'
<1> DEFINE r == request[q].r
           new == [pc |-> "delete", r |-> r, gen |-> 0,
                   sid |-> IF rpsess[r] = None THEN None ELSE rpsess[r].sid]
<1>1. /\ request[q].pc = "destroy" /\ request' = [request EXCEPT ![q] = new] /\ UNCHANGED family
      /\ UNCHANGED <<login, callback, central, keys, seen, teardown, crashes, history>>
  BY DEF DestroyRead, idp
<1>2. r \in Rpsids /\ origin[r] # None
  BY <1>1, RequestFacts
<1>3. rpsess[r] # None => rpsess[r].sid \in Sids
  BY <1>2 DEF IInv, TypeOK, Identity
<1>4. new \in Request /\ new.r = r /\ new.pc = "delete"
  BY <1>2, <1>3 DEF Request
<1> HIDE DEF new, r
<1>5. Follows(q, new)
  BY <1>2, <1>4 DEF Follows, Resolves
<1> QED  BY <1>1, <1>5, RequestMoves DEF IInv, TypeOK

LEMMA LogoutStep == ASSUME IInv, NEW q \in Requests, NEW r \in Rpsids, Logout(q, r) PROVE IInv'
<1> DEFINE new == [pc |-> "destroy", r |-> r, sid |-> None, gen |-> 0]
<1>1. /\ origin[r] # None /\ request' = [request EXCEPT ![q] = new] /\ UNCHANGED family
      /\ UNCHANGED <<login, callback, central, keys, seen, teardown, crashes, history>>
  BY DEF Logout, idp
<1>2. new \in Request /\ new.r = r /\ new.pc = "destroy"
  BY DEF Request
<1> HIDE DEF new
<1>3. Follows(q, new)
  BY <1>1, <1>2 DEF Follows, Resolves
<1> QED  BY <1>1, <1>3, RequestMoves DEF IInv, TypeOK

\* A write of the refresh that failed: the request goes on to destroy the session.
LEMMA PutFails ==
    ASSUME IInv, NEW q \in Requests, Resolves(request[q]),
           request' = [request EXCEPT ![q].pc = "destroy"],
           UNCHANGED <<login, callback, idp, keys, seen, teardown, crashes, history>>
    PROVE  IInv'
<1> DEFINE over == [request[q] EXCEPT !.pc = "destroy"]
<1>1. over \in Request /\ over.r = request[q].r /\ over.pc = "destroy"
  BY RequestFacts DEF Request, Resolves
<1>2. request' = [request EXCEPT ![q] = over]
  OBVIOUS
<1> HIDE DEF over
<1>3. Follows(q, over)
  BY <1>1, RequestFacts DEF Follows, Resolves
<1> QED  BY <1>2, <1>3, RequestMoves DEF IInv, TypeOK, idp

\* The stored identity is written over what the request had read: it keeps its expiry if the key
\* is still there, and has none if a teardown came first.
LEMMA PutIdentityStep == ASSUME IInv, NEW q \in Requests, PutIdentity(q) PROVE IInv'
<1> DEFINE r == request[q].r
           id == [sid |-> request[q].sid, gen |-> request[q].gen, ttl |-> KeptTtl(rpsess[r])]
<1>0. CASE request' = [request EXCEPT ![q].pc = "destroy"] /\ UNCHANGED rpsess
  BY <1>0, PutFails DEF PutIdentity, Resolves, keys
<1>1. ASSUME NEW next \in {"put_tokens", "destroy"},
             request' = [request EXCEPT ![q].pc = next], rpsess' = [rpsess EXCEPT ![r] = id]
      PROVE  IInv'
  <2> DEFINE new == [request[q] EXCEPT !.pc = next]
  <2>1. /\ request[q].pc = "put_identity" /\ request' = [request EXCEPT ![q] = new]
        /\ rpsess' = [rpsess EXCEPT ![r] = id]
        /\ UNCHANGED <<authreq, started, stateCookie, callback, central, family, rptok, index, seen, teardown,
                       crashes, origin, torn, missed>>
    BY <1>1 DEF PutIdentity, login, idp, history
  <2>2. /\ r \in Rpsids /\ origin[r] # None /\ request[q].sid \in Sids /\ request[q].gen \in Nat
        /\ request[q] \in Request /\ Resolves(request[q])
    BY <2>1, RequestFacts DEF Resolves
  <2>3. new \in Request /\ new.r = r /\ new.sid = request[q].sid /\ new # NoRequest
    <3>1. new \in Request /\ new.r = r /\ new.sid = request[q].sid /\ new.pc = next
      BY <2>2 DEF Request
    <3> QED  BY <3>1 DEF NoRequest
  <2>4. /\ id \in Identity /\ id.sid = request[q].sid /\ (id.ttl <=> rpsess[r] # None /\ rpsess[r].ttl)
        /\ id # None
    <3>1. KeptTtl(rpsess[r]) \in BOOLEAN
      BY <2>2 DEF KeptTtl, IInv, TypeOK, Identity
    <3>2. id \in Identity /\ id.sid = request[q].sid /\ (id.ttl <=> KeptTtl(rpsess[r]))
      BY <2>2, <3>1 DEF Identity
    <3> HIDE DEF id
    <3> QED  BY <3>2 DEF KeptTtl
  <2> HIDE DEF new, id
  <2>5. \A p \in Requests : request'[p] = IF p = q THEN new ELSE request[p]
    BY <2>1 DEF IInv, TypeOK
  <2>6. \A s \in Rpsids : rpsess'[s] = IF s = r THEN id ELSE rpsess[s]
    BY <2>1 DEF IInv, TypeOK
  <2> HIDE DEF r
  <2>7. TypeOK'
    BY <2>1, <2>3, <2>4 DEF IInv, TypeOK
  <2>8. LoginInv'
    BY <2>1, LoginRests DEF IInv
  <2>9. KnownSessions'
    BY <2>1, <2>2, <2>3, <2>5, <2>6 DEF IInv, SessionInv, KnownSessions, Asking
  <2>10. SidAgrees'
    <3>1. \A p \in Requests : Resolves(request'[p]) =>
              Resolves(request[p]) /\ request'[p].r = request[p].r /\ request'[p].sid = request[p].sid
      BY <2>2, <2>3, <2>5 DEF r
    <3>2. \A p \in Requests : Resolves(request[p]) => request[p].r \in Rpsids
      BY RequestFacts DEF Resolves
    <3> QED  BY <2>2, <2>4, <2>6, <3>1, <3>2 DEF IInv, SessionInv, SidAgrees, r
  <2>11. GoneIsTorn' /\ NoExpiryOnlyIfTorn'
    BY <2>1, <2>2, <2>4, <2>6 DEF IInv, SessionInv, GoneIsTorn, NoExpiryOnlyIfTorn
  <2>12. IndexCoversSessions'
    <3>1. rpsess[r] # None => rpsess[r].sid = request[q].sid
      BY <2>2 DEF IInv, SessionInv, SidAgrees, r
    <3> QED  BY <2>1, <2>2, <2>4, <2>6, <3>1 DEF IInv, SessionInv, IndexCoversSessions
  <2>13. TeardownCovers'
    BY <2>1 DEF IInv, SessionInv, TeardownCovers
  <2> QED  BY <2>7, <2>8, <2>9, <2>10, <2>11, <2>12, <2>13 DEF IInv, SessionInv
<1> QED  BY <1>0, <1>1 DEF PutIdentity

LEMMA PutTokensStep == ASSUME IInv, NEW q \in Requests, PutTokens(q) PROVE IInv'
<1> DEFINE r == request[q].r
           over == [request[q] EXCEPT !.pc = "destroy"]
           new == [gen |-> request[q].gen, near |-> FALSE, ttl |-> KeptTtl(rptok[r])]
<1>0. CASE request' = [request EXCEPT ![q].pc = "destroy"] /\ UNCHANGED rptok
  BY <1>0, PutFails DEF PutTokens, Resolves, keys
<1>1. ASSUME NEW next \in {NoRequest, over},
             request' = [request EXCEPT ![q] = next], rptok' = [rptok EXCEPT ![r] = new]
      PROVE  IInv'
  <2>1. /\ request[q].pc = "put_tokens" /\ rptok' = [rptok EXCEPT ![r] = new]
        /\ UNCHANGED <<authreq, started, stateCookie, callback, central, family, rpsess, index, seen,
                       teardown, crashes, origin, torn, missed>>
    BY <1>1 DEF PutTokens, login, idp, history
  <2>2. r \in Rpsids /\ request[q].gen \in Nat
    BY <2>1, RequestFacts
  <2>3. new \in Tokens
    <3>1. KeptTtl(rptok[r]) \in BOOLEAN
      BY <2>2 DEF KeptTtl, IInv, TypeOK, Tokens
    <3> QED  BY <2>2, <3>1 DEF Tokens
  <2>4. over \in Request /\ over.r = request[q].r /\ over.pc = "destroy"
    BY <2>1, RequestFacts DEF Request
  <2> HIDE DEF new, over
  <2>5. Follows(q, over)
    BY <2>1, <2>4, RequestFacts DEF Follows, Resolves
  <2>6. request' \in [Requests -> Request \cup {NoRequest}] /\ KnownSessions' /\ SidAgrees'
    BY <1>1, <2>1, <2>5, NoRequestFollows, FollowsAgrees
  <2>7. TypeOK'
    BY <2>1, <2>3, <2>6 DEF IInv, TypeOK
  <2>8. LoginInv'
    BY <2>1, LoginRests DEF IInv
  <2>9. GoneIsTorn' /\ TeardownCovers' /\ NoExpiryOnlyIfTorn' /\ IndexCoversSessions'
    BY <2>1 DEF IInv, SessionInv, GoneIsTorn, TeardownCovers, NoExpiryOnlyIfTorn, IndexCoversSessions
  <2> QED  BY <2>6, <2>7, <2>8, <2>9 DEF IInv, SessionInv
<1> QED  BY <1>0, <1>1 DEF PutTokens

\* Keys that are dropped, and the index entries that may go with them.
LEMMA SessionsDropped ==
    ASSUME IInv, NEW gone \in SUBSET Rpsids,
           \A r \in Rpsids : rpsess'[r] = IF r \in gone THEN None ELSE rpsess[r],
           UNCHANGED <<origin, missed>>, torn' = torn \cup gone,
           \A i \in Sids : index'[i] \subseteq index[i],
           \A r \in Rpsids \ (gone \cup missed) : rpsess[r] # None /\ rpsess[r].ttl =>
               \A i \in Sids : r \in index[i] => r \in index'[i],
           \A j \in LogoutTokens : teardown'[j].pc = "delete" => teardown'[j] = teardown[j],
           \A q \in Requests : request'[q] = request[q] \/ request'[q] = NoRequest
    PROVE  SessionInv'
<1>0. \A q \in Requests : /\ Asking(q)' => Asking(q) /\ request'[q] = request[q]
                          /\ Resolves(request'[q]) => Resolves(request[q]) /\ request'[q] = request[q]
  BY DEF Asking, Resolves, NoRequest
<1>1. KnownSessions'
  BY <1>0 DEF IInv, SessionInv, KnownSessions
<1>2. SidAgrees'
  <2>1. \A p \in Requests : Resolves(request[p]) => request[p].r \in Rpsids
    BY RequestFacts DEF Resolves
  <2> QED  BY <1>0, <2>1 DEF IInv, SessionInv, SidAgrees
<1>3. GoneIsTorn' /\ NoExpiryOnlyIfTorn'
  BY DEF IInv, SessionInv, GoneIsTorn, NoExpiryOnlyIfTorn
<1>4. IndexCoversSessions'
  <2>1. \A r \in Rpsids : rpsess[r] # None => rpsess[r].sid \in Sids
    BY DEF IInv, TypeOK, Identity
  <2> QED  BY <2>1 DEF IInv, SessionInv, IndexCoversSessions
<1>5. TeardownCovers'
  BY DEF IInv, SessionInv, TeardownCovers
<1> QED  BY <1>1, <1>2, <1>3, <1>4, <1>5 DEF SessionInv

LEMMA DestroyDeleteStep == ASSUME IInv, NEW q \in Requests, DestroyDelete(q) PROVE IInv'
<1> DEFINE r == request[q].r
           gone == {r}
<1>1. /\ request[q].pc = "delete" /\ request' = [request EXCEPT ![q] = NoRequest]
      /\ rpsess' = [rpsess EXCEPT ![r] = None] /\ rptok' = [rptok EXCEPT ![r] = None]
      /\ torn' = torn \cup gone
      /\ UNCHANGED <<authreq, started, stateCookie, callback, central, family, seen, teardown, crashes,
                     origin, missed>>
  BY DEF DestroyDelete, login, idp
<1>2. index' = [i \in Sids |-> IF i = request[q].sid THEN index[i] \ {r} ELSE index[i]]
  BY DEF DestroyDelete
<1>3. r \in Rpsids /\ gone \in SUBSET Rpsids
  BY <1>1, RequestFacts
<1>4. TypeOK'
  <2>1. index' \in [Sids -> SUBSET Rpsids]
    BY <1>2 DEF IInv, TypeOK
  <2> QED  BY <1>1, <1>3, <2>1 DEF IInv, TypeOK
<1>5. /\ \A s \in Rpsids : rpsess'[s] = IF s \in gone THEN None ELSE rpsess[s]
      /\ \A p \in Requests : request'[p] = request[p] \/ request'[p] = NoRequest
  BY <1>1, <1>3 DEF IInv, TypeOK
<1>6. \A i \in Sids : /\ index'[i] \subseteq index[i]
                      /\ \A s \in index[i] : s \notin gone => s \in index'[i]
  BY <1>2
<1> HIDE DEF r, gone
<1>7. SessionInv'
  BY <1>1, <1>3, <1>5, <1>6, SessionsDropped
<1> QED  BY <1>1, <1>4, <1>7, LoginRests DEF IInv

-----------------------------------------------------------------------------
(* The ways out, time and restarts. *)

LEMMA EndCentralStep == ASSUME IInv, NEW i \in Sids, EndCentral(i) PROVE IInv'
<1>1. /\ UNCHANGED <<authreq, started, stateCookie, callback, family, rpsess, rptok, index, request, seen,
                     teardown, crashes, origin, torn, missed>>
      /\ central' = [central EXCEPT ![i] = "ended"]
  BY DEF EndCentral, login, keys, history
<1> QED  BY <1>1, LoginRests, SessionRests DEF IInv, TypeOK

\* A back-channel receiver that changes its own state alone.
LEMMA TeardownMoves ==
    ASSUME IInv, NEW j \in LogoutTokens,
           NEW new \in [pc: {"idle", "members"}] \cup [pc: {"delete"}, rpsids: SUBSET Rpsids],
           teardown' = [teardown EXCEPT ![j] = new],
           new.pc = "delete" => index[SidOf[j]] \subseteq new.rpsids, seen' \subseteq LogoutTokens,
           UNCHANGED <<login, callback, idp, keys, request, crashes, history>>
    PROVE  IInv'
<1>1. UNCHANGED <<authreq, started, stateCookie, callback, central, family, rpsess, rptok, index, request,
                  crashes, origin, torn, missed>>
  BY DEF login, idp, keys, history
<1>2. TeardownCovers'
  BY <1>1 DEF IInv, TypeOK, SessionInv, TeardownCovers
<1>3. SessionInv'
  BY <1>1, <1>2 DEF IInv, SessionInv, KnownSessions, SidAgrees, GoneIsTorn, Asking, Resolves,
                    NoExpiryOnlyIfTorn, IndexCoversSessions
<1>4. TypeOK'
  BY <1>1 DEF IInv, TypeOK
<1> QED  BY <1>1, <1>3, <1>4, LoginRests DEF IInv

LEMMA BackChannelReceiveStep == ASSUME IInv, NEW j \in LogoutTokens, BackChannelReceive(j) PROVE IInv'
<1> DEFINE new == [pc |-> "members"]
<1>1. new \in [pc: {"idle", "members"}] /\ new.pc # "delete"
  OBVIOUS
<1>2. teardown' = [teardown EXCEPT ![j] = new] /\ seen' \subseteq LogoutTokens
  BY DEF BackChannelReceive, IInv, TypeOK
<1> HIDE DEF new
<1> QED  BY <1>1, <1>2, TeardownMoves DEF BackChannelReceive

LEMMA BackChannelMembersStep == ASSUME IInv, NEW j \in LogoutTokens, BackChannelMembers(j) PROVE IInv'
<1> DEFINE new == [pc |-> "delete", rpsids |-> index[SidOf[j]]]
<1>1. new \in [pc: {"delete"}, rpsids: SUBSET Rpsids] /\ new.rpsids = index[SidOf[j]]
  BY DEF IInv, TypeOK
<1>2. teardown' = [teardown EXCEPT ![j] = new]
  BY DEF BackChannelMembers
<1>3. seen' \subseteq LogoutTokens
  BY DEF BackChannelMembers, IInv, TypeOK
<1> HIDE DEF new
<1> QED  BY <1>1, <1>2, <1>3, TeardownMoves DEF BackChannelMembers

\* The keys of the members the receiver had read go, and with them the whole index.
LEMMA BackChannelDeleteStep == ASSUME IInv, NEW j \in LogoutTokens, BackChannelDelete(j) PROVE IInv'
<1> DEFINE gone == teardown[j].rpsids
<1>1. /\ UNCHANGED <<authreq, started, stateCookie, callback, central, family, request, seen, crashes,
                     origin, missed>>
      /\ teardown[j].pc = "delete" /\ torn' = torn \cup gone
  BY DEF BackChannelDelete, MembersOf, login, idp
<1>2. rpsess' = [r \in Rpsids |-> IF r \in gone THEN None ELSE rpsess[r]]
  BY DEF BackChannelDelete, MembersOf
<1>3. rptok' = [r \in Rpsids |-> IF r \in gone THEN None ELSE rptok[r]]
  BY DEF BackChannelDelete, MembersOf
<1>4. index' = [index EXCEPT ![SidOf[j]] = {}] /\ teardown' = [teardown EXCEPT ![j] = [pc |-> "idle"]]
  BY DEF BackChannelDelete
<1>5. gone \in SUBSET Rpsids
  BY <1>1 DEF IInv, TypeOK
<1>6. index[SidOf[j]] \subseteq gone \cup missed
  BY <1>1 DEF IInv, SessionInv, TeardownCovers
<1> HIDE DEF gone
<1>7. TypeOK'
  <2>1. rpsess' \in [Rpsids -> Identity \cup {None}] /\ rptok' \in [Rpsids -> Tokens \cup {None}]
    BY <1>2, <1>3 DEF IInv, TypeOK
  <2>2. /\ index' \in [Sids -> SUBSET Rpsids]
        /\ teardown' \in [LogoutTokens -> [pc: {"idle", "members"}]
                                          \cup [pc: {"delete"}, rpsids: SUBSET Rpsids]]
    BY <1>4 DEF IInv, TypeOK
  <2> QED  BY <1>1, <1>5, <2>1, <2>2 DEF IInv, TypeOK
<1>8. \A i \in Sids : /\ index'[i] \subseteq index[i]
                      /\ \A r \in index[i] : r \notin gone \cup missed => r \in index'[i]
  BY <1>4, <1>6 DEF IInv, TypeOK
<1>9. \A k \in LogoutTokens : teardown'[k].pc = "delete" => teardown'[k] = teardown[k]
  BY <1>4 DEF IInv, TypeOK
<1>10. \A r \in Rpsids : rpsess'[r] = IF r \in gone THEN None ELSE rpsess[r]
  BY <1>2
<1>11. SessionInv'
  BY <1>1, <1>5, <1>8, <1>9, <1>10, SessionsDropped
<1> QED  BY <1>1, <1>7, <1>11, LoginRests DEF IInv

LEMMA AgeStep == ASSUME IInv, NEW r \in Rpsids, Age(r) PROVE IInv'
<1> DEFINE new == [rptok[r] EXCEPT !.near = TRUE]
<1>1. /\ UNCHANGED <<authreq, started, stateCookie, callback, central, family, rpsess, index, request, seen,
                     teardown, crashes, origin, torn, missed>>
      /\ rptok' = [rptok EXCEPT ![r] = new] /\ rptok[r] # None
  BY DEF Age, login, idp, history
<1>2. new \in Tokens
  <2>1. rptok[r] \in Tokens
    BY <1>1 DEF IInv, TypeOK
  <2> QED  BY <2>1 DEF Tokens
<1> HIDE DEF new
<1> QED  BY <1>1, <1>2, LoginRests, SessionRests DEF IInv, TypeOK

LEMMA ExpireStep == ASSUME IInv, NEW r \in Rpsids, Expire(r) PROVE IInv'
<1>1. /\ UNCHANGED <<authreq, started, stateCookie, callback, central, family, index, request, seen, teardown,
                     crashes, origin, missed>>
      /\ rpsess' = [rpsess EXCEPT ![r] = None] /\ torn' = torn \cup {r}
      /\ rptok' = [rptok EXCEPT ![r] = IF KeptTtl(@) THEN None ELSE @]
  BY DEF Expire, login, idp
<1>2. \A s \in Rpsids : rpsess'[s] = IF s \in {r} THEN None ELSE rpsess[s]
  BY <1>1 DEF IInv, TypeOK
<1>3. SessionInv'
  BY <1>1, <1>2, SessionsDropped
<1> QED  BY <1>1, <1>3, LoginRests DEF IInv, TypeOK

LEMMA ExpireIndexStep == ASSUME IInv, NEW i \in Sids, ExpireIndex(i) PROVE IInv'
<1>1. /\ UNCHANGED <<authreq, started, stateCookie, callback, central, family, rpsess, rptok, request, seen,
                     teardown, crashes, origin, torn, missed>>
      /\ \A r \in index[i] : ~KeptTtl(rpsess[r])
      /\ index' = [index EXCEPT ![i] = {}]
  BY DEF ExpireIndex, login, idp, history
<1> DEFINE gone == {}
<1>2. /\ \A r \in Rpsids : rpsess'[r] = IF r \in gone THEN None ELSE rpsess[r]
      /\ torn' = torn \cup gone /\ gone \in SUBSET Rpsids
  BY <1>1
<1>3. /\ \A k \in Sids : index'[k] \subseteq index[k]
      /\ \A r \in Rpsids : rpsess[r] # None /\ rpsess[r].ttl =>
             \A k \in Sids : r \in index[k] => r \in index'[k]
  BY <1>1 DEF IInv, TypeOK, KeptTtl
<1> HIDE DEF gone
<1>4. SessionInv'
  BY <1>1, <1>2, <1>3, SessionsDropped
<1> QED  BY <1>1, <1>4, LoginRests DEF IInv, TypeOK

LEMMA CrashStep == ASSUME IInv, Crash PROVE IInv'
<1>1. /\ UNCHANGED <<authreq, started, stateCookie, central, family, rpsess, rptok, index, seen, origin,
                     torn, missed>>
      /\ crashes' = crashes + 1
  BY DEF Crash, login, idp, keys, history
<1>2. /\ callback' = [c \in Callbacks |-> NoCallback] /\ request' = [q \in Requests |-> NoRequest]
      /\ teardown' = [j \in LogoutTokens |-> [pc |-> "idle"]]
  BY DEF Crash
<1>3. TypeOK'
  BY <1>1, <1>2 DEF IInv, TypeOK
<1>4. LoginInv'
  BY <1>1, <1>2 DEF IInv, LoginInv, PendingStarted, CookieIsOwn, CallbackOwnsLogin, OriginUsed,
                    OneSessionPerLogin, CallingBack
<1> DEFINE gone == {}
<1>5. /\ \A r \in Rpsids : rpsess'[r] = IF r \in gone THEN None ELSE rpsess[r]
      /\ torn' = torn \cup gone /\ gone \in SUBSET Rpsids
  BY <1>1
<1>6. /\ \A j \in LogoutTokens : teardown'[j].pc # "delete"
      /\ \A q \in Requests : request'[q] = NoRequest
  BY <1>2
<1> HIDE DEF gone
<1>7. SessionInv'
  BY <1>1, <1>5, <1>6, SessionsDropped
<1> QED  BY <1>3, <1>4, <1>7 DEF IInv

LEMMA NextStep == ASSUME IInv, [Next]_vars PROVE IInv'
<1>1. ASSUME NEW b \in Browsers, Login(b) PROVE IInv'
  BY <1>1, LoginStep
<1>2. ASSUME NEW c \in Callbacks, NEW b \in Browsers, NEW t \in States, CallbackTake(c, b, t) PROVE IInv'
  BY <1>2, CallbackTakeStep
<1>3. ASSUME NEW c \in Callbacks, CallbackStep(c) PROVE IInv'
  BY <1>3, CallbackExchangeStep, CallbackCreateStep DEF CallbackStep
<1>4. ASSUME NEW t \in States, ExpireAuthRequest(t) PROVE IInv'
  BY <1>4, ExpireAuthRequestStep
<1>5. ASSUME NEW r \in Rpsids, Visit(r) \/ Age(r) \/ Expire(r) PROVE IInv'
  BY <1>5, ReadIdentityStep, AgeStep, ExpireStep DEF Visit
<1>6. ASSUME NEW q \in Requests, NEW r \in Rpsids, Logout(q, r) PROVE IInv'
  BY <1>6, LogoutStep
<1>7. ASSUME NEW q \in Requests, RequestStep(q) PROVE IInv'
  BY <1>7, ReadTokensStep, RefreshStep, PutIdentityStep, PutTokensStep, DestroyReadStep,
     DestroyDeleteStep DEF RequestStep
<1>8. ASSUME NEW i \in Sids, EndCentral(i) \/ ExpireIndex(i) PROVE IInv'
  BY <1>8, EndCentralStep, ExpireIndexStep
<1>9. ASSUME NEW j \in LogoutTokens,
             BackChannelReceive(j) \/ BackChannelMembers(j) \/ BackChannelDelete(j)
      PROVE  IInv'
  BY <1>9, BackChannelReceiveStep, BackChannelMembersStep, BackChannelDeleteStep
<1>10. CASE UNCHANGED vars
  BY <1>10, LoginRests, SessionRests DEF vars, IInv, TypeOK
<1> QED  BY <1>1, <1>2, <1>3, <1>4, <1>5, <1>6, <1>7, <1>8, <1>9, <1>10, CrashStep DEF Next

\* Every reachable state of the sessions satisfies the inductive invariant.
THEOREM SessionInductive == Spec => []IInv
<1> QED  BY InitIInv, NextStep, PTL DEF Spec

\* Type correctness.
THEOREM SessionTypes == Spec => []TypeOK
<1>1. IInv => TypeOK
  BY DEF IInv
<1> QED  BY <1>1, SessionInductive, PTL

\* A login yields at most one session, however often its callback is submitted.
THEOREM OneSessionTheorem == Spec => []OneSessionPerLogin
<1>1. IInv => OneSessionPerLogin
  BY DEF IInv, LoginInv
<1> QED  BY <1>1, SessionInductive, PTL

\* And in the browser that began it.
THEOREM BrowserTheorem == Spec => []SessionInItsBrowser
<1>1. IInv => SessionInItsBrowser
  BY DEF IInv, LoginInv, OriginUsed, SessionInItsBrowser
<1> QED  BY <1>1, SessionInductive, PTL

\* A session that can still expire is found by the next back-channel logout.
THEOREM IndexTheorem == Spec => []IndexCoversSessions
<1>1. IInv => IndexCoversSessions
  BY DEF IInv, SessionInv
<1> QED  BY <1>1, SessionInductive, PTL

\* A session loses its expiry only when a teardown comes between the steps of a refresh.
THEOREM ExpiryTheorem == Spec => []NoExpiryOnlyIfTorn
<1>1. IInv => NoExpiryOnlyIfTorn
  BY DEF IInv, SessionInv
<1> QED  BY <1>1, SessionInductive, PTL
=============================================================================
