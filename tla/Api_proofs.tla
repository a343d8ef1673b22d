--------------------------- MODULE Api_proofs ---------------------------
(***************************************************************************)
(* Proofs about the ways by which programs outside reach a workspace, for  *)
(* all numbers of calls, datasets, rows, levels and times: the rate limit  *)
(* of the API lets no more through than its limit, an answer of the        *)
(* service gateway obeys the settings of some moment of its call, and a    *)
(* walk of a list misses no row and receives none twice.                   *)
(***************************************************************************)
EXTENDS Governance_proofs, Intake_proofs, FiniteSetTheorems, SequenceTheorems, TLAPS

-----------------------------------------------------------------------------
(* The rate limit of the API.  A counter belongs to a window of the clock, and no increment *)
(* of it is late before its end. *)

End(c) == (c + 1) * Window + Grace
AtWork == {"clock", "incr", "pexpire", "scope", "wipe", "entitlement"}
Call == [pc: AtWork, scoped: BOOLEAN, used: (0..MaxTime) \cup {Gone}, at: Adm!Counters]
Pending(c) == {r \in Calls : incoming[r].pc = "pexpire" /\ incoming[r].at = c}

AdmShapes ==
    /\ time \in 0..MaxTime /\ wiped \in BOOLEAN /\ access \in BOOLEAN
    /\ key \in [revoked: BOOLEAN, scoped: BOOLEAN, used: (0..MaxTime) \cup {Gone}]
    /\ counter \in [Adm!Counters -> [n: Nat, until: Nat \cup {Gone}]]
    /\ incoming \in [Calls -> Call \cup {Adm!New, Adm!Ended}]
    /\ passed \in [Adm!Counters -> Nat]
    /\ late \subseteq Adm!Counters /\ torn \subseteq Adm!Counters

\* A request that holds a counter read the clock within its window or later, so that the
\* expiry it sets is not before the end.
ClockWasRead == \A r \in Calls : incoming[r] \in Call => incoming[r].at * Window <= time
ExpiryIsAfterEnd == \A c \in Adm!Counters : counter[c].until # Gone =>
    counter[c].until >= End(c) /\ counter[c].until - time \in 1..Adm!ttl

\* What the counter says of those it has let through, until it has come to its end: the
\* request that made it is one of them, or is still about to set the expiry.
CountsWhatPassed == \A c \in Adm!Counters \ late :
    /\ passed[c] <= Limit
    /\ \A q, r \in Pending(c) : q = r
    /\ Pending(c) # {} => passed[c] = 0 \/ passed[c] < Limit
    /\ time < End(c) =>
           passed[c] <= counter[c].n /\ (Pending(c) # {} => passed[c] < counter[c].n)

\* Who has made a counter without an expiry is about to set one, or was torn away.
ExpiryIsComing == \A c \in Adm!Counters :
    counter[c].n > 0 /\ counter[c].until = Gone /\ c \notin torn => Pending(c) # {}

AdmInv == AdmShapes /\ ClockWasRead /\ ExpiryIsAfterEnd /\ CountsWhatPassed /\ ExpiryIsComing

\* The window of a time of the clock has begun by then.
LEMMA WindowOfTime ==
    ASSUME NEW t \in 0..MaxTime
    PROVE  t \div Window \in Adm!Counters /\ (t \div Window) * Window <= t
<1> USE AdmissionAssumption
<1>1. t \div Window \in Nat /\ (t \div Window) * Window <= t
  OBVIOUS
<1>2. t \div Window <= MaxTime \div Window /\ MaxTime \div Window \in Nat
  OBVIOUS
<1> QED  BY <1>1, <1>2 DEF Adm!Counters

LEMMA EndIsATime == ASSUME NEW c \in Adm!Counters PROVE c \in Nat /\ End(c) \in Nat
  BY AdmissionAssumption DEF End, Adm!Counters

LEMMA AdmBegins == Adm!AdmissionInit => AdmInv
<1> SUFFICES ASSUME Adm!AdmissionInit PROVE AdmInv
  OBVIOUS
<1> USE AdmissionAssumption, GoneIsNoTime DEF Adm!AdmissionInit
<1>1. \A r \in Calls : incoming[r].pc # "pexpire" /\ incoming[r] \notin Call
  BY DEF Call, AtWork, Adm!New, Adm!Ended
<1>2. \A c : Pending(c) = {}
  BY <1>1 DEF Pending
<1>3. AdmShapes
  <2>1. 0 \in 0..MaxTime
    OBVIOUS
  <2>2. [n |-> 0, until |-> Gone] \in [n: Nat, until: Nat \cup {Gone}]
    OBVIOUS
  <2>3. counter \in [Adm!Counters -> [n: Nat, until: Nat \cup {Gone}]]
    BY <2>2
  <2> QED  BY <2>1, <2>3 DEF AdmShapes
<1> QED  BY <1>1, <1>2, <1>3 DEF AdmInv, ClockWasRead, ExpiryIsAfterEnd, CountsWhatPassed, ExpiryIsComing

\* Steps of a request that do not touch the counters.
LEMMA QuietStep ==
    ASSUME AdmInv, UNCHANGED <<time, wiped, access, counter, passed, late, torn>>,
           key' \in [revoked: BOOLEAN, scoped: BOOLEAN, used: (0..MaxTime) \cup {Gone}],
           NEW r \in Calls, NEW new \in Call \cup {Adm!New, Adm!Ended},
           incoming' = [incoming EXCEPT ![r] = new],
           incoming[r].pc # "pexpire", new.pc # "pexpire", new \in Call => new.at * Window <= time
    PROVE  AdmInv'
<1>1. AdmShapes'
  BY DEF AdmInv, AdmShapes, Adm!Counters, Call
<1>2. incoming'[r] = new /\ \A q \in Calls \ {r} : incoming'[q] = incoming[q]
  BY DEF AdmInv, AdmShapes
<1>3. \A c : Pending(c)' = Pending(c)
  BY <1>2 DEF Pending
<1>4. ClockWasRead'
  BY <1>2 DEF AdmInv, ClockWasRead, Call
<1>5. ExpiryIsAfterEnd' /\ CountsWhatPassed' /\ ExpiryIsComing'
  BY <1>3 DEF AdmInv, ExpiryIsAfterEnd, CountsWhatPassed, ExpiryIsComing, End, Adm!Counters
<1> QED  BY <1>1, <1>4, <1>5 DEF AdmInv

\* What a request does to its own counter: it leaves the others alone.
LEMMA CounterStep ==
    ASSUME AdmInv, UNCHANGED <<time, key, wiped, access>>,
           NEW r \in Calls, NEW c \in Adm!Counters, NEW new \in Call \cup {Adm!Ended},
           NEW count, NEW through \in Nat,
           incoming[r].pc \in {"incr", "pexpire"}, incoming[r].at = c, new \in Call => new.at = c,
           count \in [n: Nat, until: Nat \cup {Gone}],
           incoming' = [incoming EXCEPT ![r] = new],
           counter' = [counter EXCEPT ![c] = count], passed' = [passed EXCEPT ![c] = through],
           late \subseteq late', late' \subseteq late \cup {c},
           torn \subseteq torn', torn' \subseteq torn \cup {c},
           count.until # Gone => count.until >= End(c) /\ count.until - time \in 1..Adm!ttl,
           \* the count of those let through
           c \notin late' =>
             /\ through <= Limit
             /\ new.pc = "pexpire" => Pending(c) = {} /\ through = 0
             /\ Pending(c) \ {r} # {} => through = 0 \/ through < Limit
             /\ time < End(c) =>
                  /\ through <= count.n
                  /\ Pending(c) \ {r} # {} \/ new.pc = "pexpire" => through < count.n,
           \* the expiry that is coming
           count.n > 0 /\ count.until = Gone /\ c \notin torn' =>
                  Pending(c) \ {r} # {} \/ new.pc = "pexpire"
    PROVE  AdmInv'
<1>1. AdmShapes'
  BY DEF AdmInv, AdmShapes, Adm!Counters, Call
<1>2. incoming'[r] = new /\ \A q \in Calls \ {r} : incoming'[q] = incoming[q]
  BY DEF AdmInv, AdmShapes
<1>3. /\ Pending(c)' = (Pending(c) \ {r}) \cup (IF new.pc = "pexpire" THEN {r} ELSE {})
      /\ \A d \in Adm!Counters \ {c} : Pending(d)' = Pending(d)
  <2>1. new.pc = "pexpire" => new \in Call
    BY DEF Adm!Ended
  <2> QED  BY <1>2, <2>1 DEF Pending
<1>4. /\ counter'[c] = count /\ passed'[c] = through
      /\ \A d \in Adm!Counters \ {c} :
             /\ counter'[d] = counter[d] /\ passed'[d] = passed[d]
             /\ (d \in late' <=> d \in late) /\ (d \in torn' <=> d \in torn)
  BY DEF AdmInv, AdmShapes
<1>5. ClockWasRead'
  <2>1. incoming[r] \in Call
    BY DEF AdmInv, AdmShapes, Adm!New, Adm!Ended
  <2> QED  BY <1>2, <2>1 DEF AdmInv, ClockWasRead
<1>6. ExpiryIsAfterEnd'
  BY <1>4 DEF AdmInv, ExpiryIsAfterEnd, End, Adm!Counters, Adm!ttl
<1>7. CountsWhatPassed'
  <2> SUFFICES ASSUME NEW d \in Adm!Counters \ late'
               PROVE  /\ passed'[d] <= Limit
                      /\ \A q, p \in Pending(d)' : q = p
                      /\ Pending(d)' # {} => passed'[d] = 0 \/ passed'[d] < Limit
                      /\ time' < End(d) =>
                           /\ passed'[d] <= counter'[d].n
                           /\ Pending(d)' # {} => passed'[d] < counter'[d].n
    BY DEF CountsWhatPassed, End, Adm!Counters
  <2>1. CASE d = c
    BY <1>3, <1>4, <2>1 DEF AdmInv, CountsWhatPassed
  <2>2. CASE d # c
    BY <1>3, <1>4, <2>2 DEF AdmInv, CountsWhatPassed
  <2> QED  BY <2>1, <2>2
<1>8. ExpiryIsComing'
  BY <1>3, <1>4 DEF AdmInv, ExpiryIsComing, Adm!Counters
<1> QED  BY <1>1, <1>5, <1>6, <1>7, <1>8 DEF AdmInv

\* A request at the counter.
LEMMA AtCounter ==
    ASSUME AdmInv, NEW r \in Calls, incoming[r].pc \in {"incr", "pexpire"}
    PROVE  /\ incoming[r] \in Call /\ incoming[r].at \in Adm!Counters
           /\ counter[incoming[r].at] \in [n: Nat, until: Nat \cup {Gone}]
           /\ passed[incoming[r].at] \in Nat
           /\ \A pc \in AtWork : LET new == [incoming[r] EXCEPT !.pc = pc]
                                 IN  new \in Call /\ new.at = incoming[r].at /\ new.pc = pc
           /\ Adm!Ended.pc = "ended" /\ Adm!Ended \notin Call
<1>1. incoming[r] \in Call
  BY DEF AdmInv, AdmShapes, Adm!New, Adm!Ended
<1>2. Adm!Ended.pc = "ended" /\ Adm!Ended \notin Call
  BY DEF Adm!Ended, Call, AtWork
<1> QED  BY <1>1, <1>2 DEF AdmInv, AdmShapes, Call

\* decide: lets the request through, or ends it.
LEMMA Decided ==
    ASSUME AdmInv, NEW r \in Calls, incoming[r].pc \in {"incr", "pexpire"}, NEW n,
           Adm!Decide(r, incoming[r].at, n)
    PROVE  \E new \in Call \cup {Adm!Ended} :
             /\ incoming' = [incoming EXCEPT ![r] = new] /\ new.pc # "pexpire"
             /\ (new \in Call => new.at = incoming[r].at)
             /\ passed' = [passed EXCEPT ![incoming[r].at] = IF n <= Limit THEN @ + 1 ELSE @]
<1>1. CASE n <= Limit
  <2> DEFINE new == [incoming[r] EXCEPT !.pc = "scope"]
  <2>1. new \in Call /\ new.at = incoming[r].at /\ new.pc = "scope"
    BY AtCounter DEF AtWork
  <2>2. incoming' = [incoming EXCEPT ![r] = new] /\ passed' = [passed EXCEPT ![incoming[r].at] = @ + 1]
    BY <1>1 DEF Adm!Decide, Adm!Allows, Adm!Goes, AdmInv, AdmShapes
  <2> HIDE DEF new
  <2> QED  BY <1>1, <2>1, <2>2
<1>2. CASE ~(n <= Limit)
  <2>1. incoming' = [incoming EXCEPT ![r] = Adm!Ended] /\ passed' = [passed EXCEPT ![incoming[r].at] = @]
    BY <1>2 DEF Adm!Decide, Adm!Allows, Adm!End, AdmInv, AdmShapes
  <2> QED  BY <1>2, <2>1, AtCounter
<1> QED  BY <1>1, <1>2

\* The first increment of a counter leaves its request pending; the others decide.
LEMMA IncrStep == ASSUME AdmInv, NEW r \in Calls, Adm!Incr(r) PROVE AdmInv'
<1>1. PICK c \in Adm!Counters : c = incoming[r].at
  BY AtCounter DEF Adm!Incr
<1>2. PICK n \in Nat : n = counter[c].n + 1
  BY <1>1, AtCounter DEF Adm!Incr
<1>3. PICK new \in Call \cup {Adm!Ended} :
        /\ incoming' = [incoming EXCEPT ![r] = new] /\ (new \in Call => new.at = c)
        /\ (new.pc = "pexpire" <=> n = 1)
        /\ passed' = [passed EXCEPT ![c] = IF n # 1 /\ n <= Limit THEN @ + 1 ELSE @]
  <2>1. CASE n = 1
    <3> DEFINE new == [incoming[r] EXCEPT !.pc = "pexpire"]
    <3>1. new \in Call /\ new.at = c /\ new.pc = "pexpire"
      BY <1>1, AtCounter DEF Adm!Incr, AtWork
    <3>2. incoming' = [incoming EXCEPT ![r] = new] /\ passed' = [passed EXCEPT ![c] = @]
      BY <1>1, <1>2, <2>1 DEF Adm!Incr, Adm!Goes, AdmInv, AdmShapes
    <3> HIDE DEF new
    <3> QED  BY <2>1, <3>1, <3>2
  <2>2. CASE n # 1
    <3>1. Adm!Decide(r, c, n) /\ incoming[r].pc = "incr"
      BY <1>1, <1>2, <2>2 DEF Adm!Incr
    <3> QED  BY <1>1, <2>2, <3>1, Decided
  <2> QED  BY <2>1, <2>2
<1> DEFINE count == [counter[c] EXCEPT !.n = n]
           through == IF n # 1 /\ n <= Limit THEN passed[c] + 1 ELSE passed[c]
<1>4. /\ counter[c] \in [n: Nat, until: Nat \cup {Gone}] /\ passed[c] \in Nat /\ End(c) \in Nat
      /\ Limit \in Nat /\ incoming[r].pc = "incr" /\ r \notin Pending(c)
  BY <1>1, AtCounter, EndIsATime, AdmissionAssumption DEF Adm!Incr, Pending
<1>5. /\ UNCHANGED <<time, key, wiped, access, torn>>
      /\ counter' = [counter EXCEPT ![c] = count] /\ passed' = [passed EXCEPT ![c] = through]
      /\ late' = IF time >= End(c) THEN late \cup {c} ELSE late
  BY <1>1, <1>2, <1>3, <1>4 DEF Adm!Incr, Adm!Elsewhere, End, AdmInv, AdmShapes
<1>6. /\ count \in [n: Nat, until: Nat \cup {Gone}] /\ through \in Nat
      /\ count.n = n /\ count.until = counter[c].until
  BY <1>4
<1>7. c \notin late' =>
             /\ through <= Limit
             /\ new.pc = "pexpire" => Pending(c) = {} /\ through = 0
             /\ Pending(c) \ {r} # {} => through = 0 \/ through < Limit
             /\ time < End(c) =>
                  /\ through <= count.n
                  /\ Pending(c) \ {r} # {} \/ new.pc = "pexpire" => through < count.n
  <2> SUFFICES ASSUME c \notin late' PROVE <1>7!2
    OBVIOUS
  <2>1. /\ time < End(c) /\ c \notin late /\ time \in Nat
    BY <1>4, <1>5, AdmissionAssumption DEF AdmInv, AdmShapes
  <2>2. /\ passed[c] <= Limit /\ (Pending(c) # {} => passed[c] = 0 \/ passed[c] < Limit)
        /\ passed[c] <= counter[c].n /\ (Pending(c) # {} => passed[c] < counter[c].n)
    BY <2>1 DEF AdmInv, CountsWhatPassed
  <2> QED  BY <1>2, <1>3, <1>4, <1>6, <2>2
<1>8. count.n > 0 /\ count.until = Gone /\ c \notin torn' =>
                  Pending(c) \ {r} # {} \/ new.pc = "pexpire"
  BY <1>2, <1>3, <1>4, <1>5, <1>6 DEF AdmInv, ExpiryIsComing
<1>9. count.until # Gone => count.until >= End(c) /\ count.until - time \in 1..Adm!ttl
  BY <1>6 DEF AdmInv, ExpiryIsAfterEnd
<1>10. /\ incoming[r].pc \in {"incr", "pexpire"} /\ incoming[r].at = c
       /\ late \subseteq late' /\ late' \subseteq late \cup {c}
       /\ torn \subseteq torn' /\ torn' \subseteq torn \cup {c}
  BY <1>1, <1>4, <1>5
<1> HIDE DEF count, through
<1> QED  BY <1>1, <1>3, <1>5, <1>6, <1>7, <1>8, <1>9, <1>10, CounterStep

LEMMA PexpireStep == ASSUME AdmInv, NEW r \in Calls, Adm!Pexpire(r) PROVE AdmInv'
<1>1. PICK c \in Adm!Counters : c = incoming[r].at
  BY AtCounter DEF Adm!Pexpire
<1>2. /\ incoming[r].pc = "pexpire" /\ Adm!Decide(r, c, 1)
      /\ UNCHANGED <<time, key, wiped, access, late, torn>>
  BY <1>1 DEF Adm!Pexpire, Adm!Elsewhere
<1>3. PICK new \in Call \cup {Adm!Ended} :
        /\ incoming' = [incoming EXCEPT ![r] = new] /\ (new \in Call => new.at = c)
        /\ new.pc # "pexpire"
        /\ passed' = [passed EXCEPT ![c] = IF 1 <= Limit THEN @ + 1 ELSE @]
  BY <1>1, <1>2, Decided
<1> DEFINE count == IF counter[c].n = 0 THEN counter[c] ELSE [counter[c] EXCEPT !.until = time + Adm!ttl]
           through == IF 1 <= Limit THEN passed[c] + 1 ELSE passed[c]
<1>4. /\ counter[c] \in [n: Nat, until: Nat \cup {Gone}] /\ passed[c] \in Nat /\ End(c) \in Nat
      /\ Limit \in Nat /\ r \in Pending(c) /\ time \in Nat /\ c * Window <= time /\ c \in Nat
      /\ Adm!ttl \in Nat \ {0} /\ time + Adm!ttl >= End(c)
  <2>1. c \in Nat /\ End(c) \in Nat /\ time \in Nat /\ c * Window <= time
    BY <1>1, <1>2, AtCounter, EndIsATime, AdmissionAssumption DEF AdmInv, AdmShapes, ClockWasRead
  <2>2. time + Adm!ttl >= End(c) /\ Adm!ttl \in Nat \ {0}
    BY <2>1, AdmissionAssumption DEF End, Adm!ttl
  <2> QED  BY <1>1, <1>2, <2>1, <2>2, AtCounter, AdmissionAssumption DEF Pending
<1>5. counter' = [counter EXCEPT ![c] = count] /\ passed' = [passed EXCEPT ![c] = through]
  BY <1>1, <1>2, <1>3, <1>4 DEF Adm!Pexpire, AdmInv, AdmShapes
<1>6. /\ count \in [n: Nat, until: Nat \cup {Gone}] /\ through \in Nat
      /\ count.n = counter[c].n /\ (count.n > 0 => count.until # Gone)
      /\ count.until # Gone => count.until >= End(c) /\ count.until - time \in 1..Adm!ttl
  <2>1. counter[c].until # Gone => counter[c].until >= End(c) /\ counter[c].until - time \in 1..Adm!ttl
    BY DEF AdmInv, ExpiryIsAfterEnd
  <2> QED  BY <1>4, <2>1, GoneIsNoTime
<1>7. c \notin late' =>
             /\ through <= Limit
             /\ new.pc = "pexpire" => Pending(c) = {} /\ through = 0
             /\ Pending(c) \ {r} # {} => through = 0 \/ through < Limit
             /\ time < End(c) =>
                  /\ through <= count.n
                  /\ Pending(c) \ {r} # {} \/ new.pc = "pexpire" => through < count.n
  <2>1. c \notin late => /\ Pending(c) \ {r} = {} /\ (passed[c] = 0 \/ passed[c] < Limit)
                         /\ time < End(c) => passed[c] < counter[c].n
    BY <1>4 DEF AdmInv, CountsWhatPassed
  <2> QED  BY <1>2, <1>3, <1>4, <1>6, <2>1
<1>8. /\ incoming[r].pc \in {"incr", "pexpire"} /\ incoming[r].at = c
      /\ late \subseteq late' /\ late' \subseteq late \cup {c}
      /\ torn \subseteq torn' /\ torn' \subseteq torn \cup {c}
  BY <1>1, <1>2
<1> HIDE DEF count, through
<1> QED  BY <1>1, <1>2, <1>3, <1>5, <1>6, <1>7, <1>8, CounterStep

\* A limiter that fails counts nobody as let through.
LEMMA FailOpenStep == ASSUME AdmInv, NEW r \in Calls, Adm!FailOpen(r) PROVE AdmInv'
<1>1. PICK c \in Adm!Counters : c = incoming[r].at
  BY AtCounter DEF Adm!FailOpen
<1> DEFINE new == [incoming[r] EXCEPT !.pc = "scope"]
<1>2. new \in Call /\ new.at = c /\ new.pc = "scope"
  BY <1>1, AtCounter DEF Adm!FailOpen, AtWork
<1>3. /\ incoming' = [incoming EXCEPT ![r] = new] /\ passed' = [passed EXCEPT ![c] = passed[c]]
      /\ UNCHANGED <<time, key, wiped, access, late>> /\ incoming[r].pc \in {"incr", "pexpire"}
  BY DEF Adm!FailOpen, Adm!Goes, Adm!Elsewhere, AdmInv, AdmShapes
<1> HIDE DEF new
<1>4. /\ counter[c] \in [n: Nat, until: Nat \cup {Gone}] /\ passed[c] \in Nat
  BY <1>1, <1>3, AtCounter
<1>5. PICK n \in Nat :
        /\ n >= counter[c].n /\ counter' = [counter EXCEPT ![c] = [counter[c] EXCEPT !.n = n]]
        /\ torn \subseteq torn' /\ torn' \subseteq torn \cup {c}
        /\ \/ c \in torn'
           \/ incoming[r].pc = "incr" /\ (n > 0 => counter[c].n > 0)
  <2>1. CASE incoming[r].pc = "incr" /\ UNCHANGED <<counter, torn>>
    BY <1>4, <2>1 DEF AdmInv, AdmShapes
  <2>2. CASE /\ incoming[r].pc = "incr" /\ counter' = [counter EXCEPT ![c].n = @ + 1]
             /\ torn' = IF counter[c].n = 0 THEN torn \cup {c} ELSE torn
    <3>1. counter' = [counter EXCEPT ![c] = [counter[c] EXCEPT !.n = counter[c].n + 1]]
      BY <1>1, <2>2 DEF AdmInv, AdmShapes
    <3>2. /\ counter[c].n + 1 \in Nat /\ counter[c].n + 1 >= counter[c].n
          /\ counter[c].n = 0 \/ counter[c].n > 0
      BY <1>4
    <3> QED  BY <2>2, <3>1, <3>2
  <2>3. CASE incoming[r].pc = "pexpire" /\ torn' = torn \cup {c} /\ UNCHANGED counter
    BY <1>4, <2>3 DEF AdmInv, AdmShapes
  <2> QED  BY <1>1, <2>1, <2>2, <2>3 DEF Adm!FailOpen
<1> DEFINE count == [counter[c] EXCEPT !.n = n]
<1>6. count \in [n: Nat, until: Nat \cup {Gone}] /\ count.n = n /\ count.until = counter[c].until
  BY <1>4
<1>7. count.until # Gone => count.until >= End(c) /\ count.until - time \in 1..Adm!ttl
  BY <1>6 DEF AdmInv, ExpiryIsAfterEnd
<1>8. c \notin late' =>
             /\ passed[c] <= Limit
             /\ new.pc = "pexpire" => Pending(c) = {} /\ passed[c] = 0
             /\ Pending(c) \ {r} # {} => passed[c] = 0 \/ passed[c] < Limit
             /\ time < End(c) =>
                  /\ passed[c] <= count.n
                  /\ Pending(c) \ {r} # {} \/ new.pc = "pexpire" => passed[c] < count.n
  BY <1>2, <1>3, <1>4, <1>5, <1>6 DEF AdmInv, CountsWhatPassed
<1>9. count.n > 0 /\ count.until = Gone /\ c \notin torn' =>
                  Pending(c) \ {r} # {} \/ new.pc = "pexpire"
  <2>1. incoming[r].pc = "incr" => r \notin Pending(c)
    BY DEF Pending
  <2> QED  BY <1>4, <1>5, <1>6, <2>1 DEF AdmInv, ExpiryIsComing
<1> HIDE DEF count
<1> QED  BY <1>1, <1>2, <1>3, <1>4, <1>5, <1>6, <1>7, <1>8, <1>9, CounterStep DEF count

\* The other steps of a request.
LEMMA ChainStep ==
    ASSUME AdmInv, NEW r \in Calls,
           \/ Adm!Identify(r) \/ Adm!ReadClock(r)
           \/ Adm!CheckScope(r) \/ Adm!CheckWipe(r) \/ Adm!CheckEntitlement(r)
    PROVE  AdmInv'
<1>1. /\ time \in 0..MaxTime /\ 0 \in Adm!Counters /\ 0 * Window <= time
      /\ key \in [revoked: BOOLEAN, scoped: BOOLEAN, used: (0..MaxTime) \cup {Gone}]
      /\ Adm!Ended \in Call \cup {Adm!New, Adm!Ended} /\ Adm!Ended.pc # "pexpire" /\ Adm!Ended \notin Call
  BY WindowOfTime, AdmissionAssumption DEF AdmInv, AdmShapes, Adm!Counters, Adm!Ended, Call, AtWork
<1>2. CASE Adm!Identify(r)
  <2> DEFINE new == [pc |-> "clock", scoped |-> key.scoped, used |-> key.used, at |-> 0]
  <2>1. new \in Call /\ new.pc = "clock" /\ new.at = 0
    BY <1>1 DEF Call, AtWork
  <2>2. /\ incoming' = [incoming EXCEPT ![r] = new] /\ incoming[r].pc # "pexpire"
        /\ UNCHANGED <<time, key, wiped, access, counter, passed, late, torn>>
    BY <1>2 DEF Adm!Identify, Adm!Redis, Adm!Elsewhere, Adm!New
  <2> HIDE DEF new
  <2> QED  BY <1>1, <2>1, <2>2, QuietStep
<1>3. CASE Adm!ReadClock(r)
  <2> DEFINE new == [incoming[r] EXCEPT !.pc = "incr", !.at = time \div Window]
  <2>1. incoming[r].pc = "clock" /\ incoming[r] \in Call
    BY <1>3 DEF Adm!ReadClock, AdmInv, AdmShapes, Adm!New, Adm!Ended
  <2>2. new \in Call /\ new.pc = "incr" /\ new.at = time \div Window /\ new.at * Window <= time
    BY <1>1, <2>1, WindowOfTime DEF Call, AtWork
  <2>3. /\ incoming' = [incoming EXCEPT ![r] = new]
        /\ UNCHANGED <<time, key, wiped, access, counter, passed, late, torn>>
    BY <1>3 DEF Adm!ReadClock, Adm!Redis, Adm!Elsewhere
  <2> HIDE DEF new
  <2> QED  BY <1>1, <2>1, <2>2, <2>3, QuietStep
<1>4. ASSUME incoming[r].pc \in {"scope", "wipe"},
             UNCHANGED <<time, key, wiped, access, counter, passed, late, torn>>,
             Adm!End(r) \/ \E pc \in {"wipe", "entitlement"} : Adm!Goes(r, pc)
      PROVE  AdmInv'
  <2>1. incoming[r] \in Call /\ incoming[r].at * Window <= time
    BY <1>4 DEF AdmInv, AdmShapes, ClockWasRead, Adm!New, Adm!Ended
  <2>2. ASSUME NEW pc \in {"wipe", "entitlement"}, Adm!Goes(r, pc) PROVE AdmInv'
    <3> DEFINE new == [incoming[r] EXCEPT !.pc = pc]
    <3>1. new \in Call /\ new.pc = pc /\ new.at = incoming[r].at
      BY <2>1 DEF Call, AtWork
    <3>2. incoming' = [incoming EXCEPT ![r] = new]
      BY <2>2 DEF Adm!Goes, AdmInv, AdmShapes
    <3> HIDE DEF new
    <3> QED  BY <1>1, <1>4, <2>1, <3>1, <3>2, QuietStep
  <2>3. CASE Adm!End(r)
    BY <1>1, <1>4, <2>3, QuietStep DEF Adm!End
  <2> QED  BY <1>4, <2>2, <2>3
<1>5. CASE Adm!CheckScope(r) \/ Adm!CheckWipe(r)
  BY <1>4, <1>5 DEF Adm!CheckScope, Adm!CheckWipe, Adm!Redis, Adm!Elsewhere
<1>6. CASE Adm!CheckEntitlement(r)
  <2>1. /\ key' \in [revoked: BOOLEAN, scoped: BOOLEAN, used: (0..MaxTime) \cup {Gone}]
        /\ UNCHANGED <<time, wiped, access, counter, passed, late, torn>>
        /\ incoming' = [incoming EXCEPT ![r] = Adm!Ended] /\ incoming[r].pc # "pexpire"
    BY <1>1, <1>6 DEF Adm!CheckEntitlement, Adm!End, Adm!Redis
  <2> QED  BY <1>1, <2>1, QuietStep
<1> QED  BY <1>2, <1>3, <1>5, <1>6

\* Whoever was to set an expiry is torn away from it.
LEMMA AdmCrashStep == ASSUME AdmInv, Adm!Crash PROVE AdmInv'
<1>1. /\ UNCHANGED <<caller, time, key, wiped, access, counter, passed, late>>
      /\ torn' = torn \cup {incoming[r].at : r \in {q \in Calls : incoming[q].pc = "pexpire"}}
      /\ incoming' = [r \in Calls |-> IF incoming[r] = Adm!New THEN Adm!New ELSE Adm!Ended]
  BY DEF Adm!Crash, Adm!Elsewhere
<1>2. \A r \in Calls : incoming[r].pc = "pexpire" => incoming[r].at \in Adm!Counters
  BY AtCounter
<1>3. \A r \in Calls : incoming'[r].pc # "pexpire" /\ incoming'[r] \notin Call
  BY <1>1 DEF Adm!New, Adm!Ended, Call, AtWork
<1>4. \A c : Pending(c)' = {}
  BY <1>3 DEF Pending
<1>5. \A c \in Adm!Counters : Pending(c) # {} => c \in torn'
  BY <1>1 DEF Pending
<1>6. AdmShapes'
  BY <1>1, <1>2 DEF AdmInv, AdmShapes, Adm!Counters
<1>7. ClockWasRead' /\ ExpiryIsAfterEnd' /\ CountsWhatPassed' /\ ExpiryIsComing'
  BY <1>1, <1>3, <1>4, <1>5 DEF AdmInv, ClockWasRead, Call, ExpiryIsAfterEnd, CountsWhatPassed,
                                ExpiryIsComing, End, Adm!Counters
<1> QED  BY <1>6, <1>7 DEF AdmInv

\* A counter that expires has come to its end.
LEMMA TickStep == ASSUME AdmInv, Adm!Tick PROVE AdmInv'
<1>1. /\ time' = time + 1 /\ time' \in 0..MaxTime /\ time \in Nat /\ MaxTime \in Nat
      /\ UNCHANGED <<key, wiped, access, incoming, passed, late, torn>>
      /\ counter' = [c \in Adm!Counters |->
                       IF counter[c].until = Gone \/ counter[c].until > time' THEN counter[c]
                       ELSE [n |-> 0, until |-> Gone]]
  BY AdmissionAssumption DEF Adm!Tick, AdmInv, AdmShapes
<1>2. \A c : Pending(c)' = Pending(c)
  BY <1>1 DEF Pending
<1>3. ASSUME NEW c \in Adm!Counters
      PROVE  /\ counter[c] \in [n: Nat, until: Nat \cup {Gone}]
             /\ \/ counter'[c] = counter[c] /\ (counter[c].until = Gone \/ counter[c].until > time')
                \/ /\ counter'[c] = [n |-> 0, until |-> Gone]
                   /\ counter[c].until # Gone /\ ~(counter[c].until > time')
  BY <1>1 DEF AdmInv, AdmShapes
<1>4. AdmShapes'
  <2>1. counter' \in [Adm!Counters -> [n: Nat, until: Nat \cup {Gone}]]
    BY <1>1, <1>3
  <2> QED  BY <1>1, <2>1 DEF AdmInv, AdmShapes, Adm!Counters, Call
<1>5. ClockWasRead'
  <2> SUFFICES ASSUME NEW r \in Calls, incoming[r] \in Call PROVE incoming[r].at * Window <= time'
    BY <1>1 DEF ClockWasRead, Call, Adm!Counters
  <2>1. incoming[r].at * Window <= time /\ incoming[r].at \in Nat
    BY EndIsATime DEF AdmInv, ClockWasRead, Call
  <2> QED  BY <1>1, <2>1, AdmissionAssumption
<1>6. ExpiryIsAfterEnd'
  <2> SUFFICES ASSUME NEW c \in Adm!Counters, counter'[c].until # Gone
               PROVE  counter'[c].until >= End(c) /\ counter'[c].until - time' \in 1..Adm!ttl
    BY DEF ExpiryIsAfterEnd, End, Adm!Counters, Adm!ttl
  <2>1. counter'[c] = counter[c] /\ counter[c].until > time'
    BY <1>3
  <2>2. counter[c].until >= End(c) /\ counter[c].until - time \in 1..Adm!ttl /\ Adm!ttl \in Nat
    BY <2>1, AdmissionAssumption DEF AdmInv, ExpiryIsAfterEnd, Adm!ttl
  <2>3. counter[c].until \in Nat
    BY <1>3, <2>1
  <2> QED  BY <1>1, <2>1, <2>2, <2>3
<1>7. CountsWhatPassed'
  <2> SUFFICES ASSUME NEW c \in Adm!Counters \ late
               PROVE  /\ passed[c] <= Limit
                      /\ \A q, r \in Pending(c) : q = r
                      /\ Pending(c) # {} => passed[c] = 0 \/ passed[c] < Limit
                      /\ time' < End(c) =>
                           passed[c] <= counter'[c].n /\ (Pending(c) # {} => passed[c] < counter'[c].n)
    BY <1>1, <1>2 DEF CountsWhatPassed, End, Adm!Counters
  <2>1. End(c) \in Nat /\ (time' < End(c) => time < End(c))
    BY <1>1, EndIsATime
  <2>2. counter[c].until # Gone => counter[c].until >= End(c) /\ counter[c].until \in Nat
    BY <1>3 DEF AdmInv, ExpiryIsAfterEnd
  <2>3. time' < End(c) => counter'[c] = counter[c]
    BY <1>1, <1>3, <2>1, <2>2
  <2> QED  BY <2>1, <2>3 DEF AdmInv, CountsWhatPassed
<1>8. ExpiryIsComing'
  BY <1>1, <1>2, <1>3 DEF AdmInv, ExpiryIsComing, Adm!Counters
<1> QED  BY <1>4, <1>5, <1>6, <1>7, <1>8 DEF AdmInv

\* Nothing that turns a caller away touches a counter; nor does a step of another part.
LEMMA AroundStep ==
    ASSUME AdmInv, Adm!Moves \/ UNCHANGED Adm!admissionVars PROVE AdmInv'
<1>1. /\ UNCHANGED <<time, incoming, counter, passed, late, torn>>
      /\ wiped' \in BOOLEAN /\ access' \in BOOLEAN
      /\ key' \in [revoked: BOOLEAN, scoped: BOOLEAN, used: (0..MaxTime) \cup {Gone}]
  BY DEF Adm!Moves, Adm!Redis, Adm!admissionVars, AdmInv, AdmShapes
<1>2. \A c : Pending(c)' = Pending(c)
  BY <1>1 DEF Pending
<1>3. AdmShapes'
  BY <1>1 DEF AdmInv, AdmShapes, Adm!Counters, Call
<1>4. ClockWasRead' /\ ExpiryIsAfterEnd' /\ CountsWhatPassed' /\ ExpiryIsComing'
  BY <1>1, <1>2 DEF AdmInv, ClockWasRead, Call, ExpiryIsAfterEnd, CountsWhatPassed,
                    ExpiryIsComing, End, Adm!Counters, Adm!ttl
<1> QED  BY <1>3, <1>4 DEF AdmInv

\* In the admission part, a step of the workspace is one of that part.
LEMMA AdmFrame ==
    ASSUME [WorkspaceNext]_workspaceVars, part' = "admission"
    PROVE  part = "admission" /\ [Adm!AdmissionNext]_Adm!admissionVars
<1> USE DEF Around1, Around2, Around3, Around4
<1>1. CASE AdmissionRuns
  BY <1>1 DEF AdmissionRuns
<1>2. CASE UNCHANGED workspaceVars
  BY <1>2 DEF workspaceVars, admissionVars, Adm!admissionVars
<1>3. ASSUME \/ CatalogRuns \/ PublishingRuns \/ GatewayRuns \/ SourcesRun \/ ReadsRun
             \/ AccessRuns \/ ScreensRun \/ ApprovalsRun \/ FirstEntryRuns
      PROVE  FALSE
  BY <1>3 DEF CatalogRuns, PublishingRuns, GatewayRuns, SourcesRun, ReadsRun,
              AccessRuns, ScreensRun, ApprovalsRun, FirstEntryRuns
<1> QED  BY <1>1, <1>2, <1>3 DEF WorkspaceNext

\* The invariant of the counters, for any limit, window and number of requests, with faults of
\* Redis and crashes wherever they come (lib/api/rate-limit.ts).
THEOREM AdmissionInductive == WorkspaceSpec => [](part = "admission" => AdmInv)
<1>1. WorkspaceInit => (part = "admission" => AdmInv)
  BY AdmBegins DEF WorkspaceInit, AdmissionBegins
<1>2. (part = "admission" => AdmInv) /\ [WorkspaceNext]_workspaceVars
      => (part = "admission" => AdmInv)'
  <2> SUFFICES ASSUME AdmInv, [Adm!AdmissionNext]_Adm!admissionVars PROVE AdmInv'
    BY AdmFrame
  <2> QED  BY ChainStep, IncrStep, PexpireStep, FailOpenStep, AdmCrashStep, TickStep, AroundStep
           DEF Adm!AdmissionNext
<1> QED  BY <1>1, <1>2, PTL DEF WorkspaceSpec

\* Types of the clock, the key and the counters: an expiry is never further away than the TTL.
THEOREM AdmissionTypes == WorkspaceSpec => [](part = "admission" => Adm!AdmissionTypeOK)
<1>1. AdmInv => Adm!AdmissionTypeOK
  BY DEF AdmInv, AdmShapes, ExpiryIsAfterEnd, Adm!AdmissionTypeOK
<1> QED  BY <1>1, AdmissionInductive, PTL

\* No counter lets more through than the limit, unless an increment came after its end, and
\* none stays for ever but after a fault between INCR and PEXPIRE (lib/api/rate-limit.ts:15,65).
THEOREM RateLimitTheorem == WorkspaceSpec => []RateLimitHolds
<1>1. AdmInv => Adm!RateLimitHolds
  BY DEF AdmInv, CountsWhatPassed, ExpiryIsComing, Pending, Adm!RateLimitHolds
<1> QED  BY <1>1, AdmissionInductive, PTL DEF RateLimitHolds

-----------------------------------------------------------------------------
(* The gateway.  What has been seen since a call began covers what a moment of it was. *)

Bindings == {"none", "this", "other"}
KeyRow == [bound: Bindings, minted: Bindings, revoked: BOOLEAN]
Moment == [low: [Linked -> Levels], high: Levels, hidden: SUBSET Linked, ran: BOOLEAN,
           alive: BOOLEAN]
Covers(s, n) ==
    /\ \A d \in Linked : s.low[d] <= n.low[d]
    /\ n.high <= s.high /\ s.hidden \subseteq n.hidden
    /\ (n.ran => s.ran) /\ (n.alive => s.alive)

SettingsShape ==
    /\ wiped \in BOOLEAN /\ level \in [Linked -> Levels] /\ policies \in Seq(Levels)
    /\ lastSet \in Levels \cup {Gone}
    /\ member = [m \in Setters |-> member[m]]
    /\ \A m \in Setters : member[m] # Gate!Waiting =>
           member[m] \in [pc: {"set"}, row: 0..Len(policies), level: Levels]

\* A step of a call has obeyed what held at a moment that is covered.
Obeys(c, s) ==
    /\ c.pc \in {"wipe", "service", "policy", "rows", "record", "answered"}
    /\ c.pc = "wipe" => c = [pc |-> "wipe", minted |-> c.minted]
    /\ c.pc # "wipe" => s.alive
    /\ c.pc \in {"policy", "rows", "record", "answered"} => s.ran
    /\ c.pc \in {"policy", "rows"} =>
           c.level \in [Linked -> Levels] /\ \A d \in Linked : s.low[d] <= c.level[d]
    /\ c.pc = "rows" => /\ c.max \in Levels /\ c.max <= s.high
                        /\ \A d \in s.hidden : Gate!MaskOf(c.masks, d) # "clear"
    /\ c.pc \in {"record", "answered"} =>
           \A d \in Linked : /\ c.out[d] # "excluded" => s.low[d] <= s.high
                             /\ c.out[d] = "clear" => d \notin s.hidden
    /\ c.pc = "answered" => c.written = {"last_used", "audit", "usage"}

\* A key is bound to what it was minted for, or to none; the key of a call is there, and one
\* that was minted for another service is bound to none.
KeyIsBound ==
    /\ apiKey # Gone => apiKey \in KeyRow /\ apiKey.bound \in {apiKey.minted, "none"}
    /\ call.pc # "idle" => apiKey # Gone /\ (call.minted = "other" => apiKey.bound = "none")

GateInv ==
    /\ SettingsShape /\ seen \in Moment /\ Covers(seen, Gate!Now)
    /\ call.pc = "idle" \/ Obeys(call, seen)
    /\ KeyIsBound /\ Gate!LevelInForce

LEMMA NowIsMoment ==
    ASSUME wiped \in BOOLEAN, level \in [Linked -> Levels], policies \in Seq(Levels)
    PROVE  Gate!Now \in Moment /\ Gate!MaxExternal \in Levels
<1>1. Gate!MaxExternal \in Levels
  BY GatewayAssumption DEF Gate!MaxExternal, Gate!Last
<1> QED  BY <1>1 DEF Gate!Now, Moment

LEMMA CoversTransitive ==
    ASSUME NEW s \in Moment, NEW t \in Moment, NEW u \in Moment, Covers(s, t), Covers(t, u)
    PROVE  Covers(s, u)
<1>1. ASSUME NEW d \in Linked PROVE s.low[d] <= u.low[d]
  <2>1. s.low[d] \in Int /\ t.low[d] \in Int /\ u.low[d] \in Int
    BY GatewayAssumption DEF Moment
  <2> QED  BY <2>1 DEF Covers
<1>2. u.high <= s.high
  <2>1. s.high \in Int /\ t.high \in Int /\ u.high \in Int
    BY GatewayAssumption DEF Moment
  <2> QED  BY <2>1 DEF Covers
<1> QED  BY <1>1, <1>2 DEF Covers

LEMMA ObeysLater ==
    ASSUME NEW s \in Moment, NEW t \in Moment, Covers(t, s), NEW c, Obeys(c, s) PROVE Obeys(c, t)
<1>1. /\ s.high \in Int /\ t.high \in Int /\ s.high <= t.high /\ t.hidden \subseteq s.hidden
      /\ s.hidden \subseteq Linked /\ (s.alive => t.alive) /\ (s.ran => t.ran)
  BY GatewayAssumption DEF Moment, Covers
<1>2. \A d \in Linked : s.low[d] \in Int /\ t.low[d] \in Int /\ t.low[d] <= s.low[d]
  BY GatewayAssumption DEF Moment, Covers
<1>3. c.pc \in {"policy", "rows"} =>
        c.level \in [Linked -> Levels] /\ \A d \in Linked : t.low[d] <= c.level[d]
  <2> SUFFICES ASSUME c.pc \in {"policy", "rows"}, NEW d \in Linked PROVE t.low[d] <= c.level[d]
    BY DEF Obeys
  <2>1. c.level[d] \in Int /\ s.low[d] <= c.level[d]
    BY GatewayAssumption DEF Obeys
  <2> QED  BY <1>2, <2>1
<1>4. c.pc = "rows" => /\ c.max \in Levels /\ c.max <= t.high
                       /\ \A d \in t.hidden : Gate!MaskOf(c.masks, d) # "clear"
  <2> SUFFICES ASSUME c.pc = "rows" PROVE /\ c.max \in Levels /\ c.max <= t.high
                       /\ \A d \in t.hidden : Gate!MaskOf(c.masks, d) # "clear"
    OBVIOUS
  <2>1. c.max \in Levels /\ c.max \in Int /\ c.max <= s.high
    BY GatewayAssumption DEF Obeys
  <2> QED  BY <1>1, <2>1 DEF Obeys
<1>5. c.pc \in {"record", "answered"} =>
        \A d \in Linked : /\ c.out[d] # "excluded" => t.low[d] <= t.high
                          /\ c.out[d] = "clear" => d \notin t.hidden
  <2> SUFFICES ASSUME c.pc \in {"record", "answered"}, NEW d \in Linked
               PROVE  /\ c.out[d] # "excluded" => t.low[d] <= t.high
                      /\ c.out[d] = "clear" => d \notin t.hidden
    OBVIOUS
  <2>1. /\ c.out[d] # "excluded" => s.low[d] <= s.high
        /\ c.out[d] = "clear" => d \notin s.hidden
    BY DEF Obeys
  <2> QED  BY <1>1, <1>2, <2>1
<1> QED  BY <1>1, <1>3, <1>4, <1>5 DEF Obeys

\* What is seen after a step covers what holds then, and what was seen before while a call goes on.
LEMMA SeenStep ==
    ASSUME GateInv, SettingsShape', Gate!Watch
    PROVE  /\ seen' \in Moment /\ Gate!Now' \in Moment /\ Covers(seen', Gate!Now')
           /\ call.pc # "idle" /\ call'.pc # "idle" => Covers(seen', seen)
<1>1. Gate!Now' \in Moment
  BY NowIsMoment, GatewayAssumption DEF SettingsShape, Gate!Now, Moment, Gate!MaxExternal, Gate!Last
<1>2. PICK now \in Moment : now = Gate!Now'
  BY <1>1
<1>3. ASSUME NEW d \in Linked PROVE now.low[d] = level'[d] /\ now.low[d] \in Int /\ seen.low[d] \in Int
  BY <1>2, GatewayAssumption DEF Gate!Now, GateInv, Moment
<1>4. now.high \in Int /\ seen.high \in Int /\ seen \in Moment
  BY GatewayAssumption DEF GateInv, Moment
<1>5. CASE call'.pc = "idle" \/ call.pc = "idle"
  <2>1. seen' = now
    BY <1>2, <1>5 DEF Gate!Watch
  <2> QED  BY <1>2, <1>3, <1>4, <1>5, <2>1 DEF Covers
<1>6. CASE ~(call'.pc = "idle" \/ call.pc = "idle")
  <2>1. seen' = [low |-> [d \in Linked |-> Gate!SmallerOf(seen.low[d], level'[d])],
                 high |-> Gate!LargerOf(seen.high, now.high),
                 hidden |-> seen.hidden \cap now.hidden,
                 ran |-> seen.ran \/ now.ran, alive |-> seen.alive \/ now.alive]
    BY <1>2, <1>6 DEF Gate!Watch
  <2>2. \A d \in Linked : /\ seen'.low[d] \in Levels
                          /\ seen'.low[d] <= seen.low[d] /\ seen'.low[d] <= now.low[d]
    BY <1>3, <2>1 DEF Gate!SmallerOf, GateInv, Moment
  <2>3. seen'.high \in Levels /\ seen.high <= seen'.high /\ now.high <= seen'.high
    BY <1>4, <2>1 DEF Gate!LargerOf, GateInv, Moment
  <2>4. seen' \in Moment
    BY <1>4, <2>1, <2>2, <2>3 DEF Moment
  <2> QED  BY <1>2, <2>1, <2>2, <2>3, <2>4 DEF Covers
<1> QED  BY <1>5, <1>6

\* A step of the part keeps the invariant if its call obeys whatever covers the step.
LEMMA GateStep ==
    ASSUME GateInv, SettingsShape', KeyIsBound', Gate!LevelInForce', Gate!Watch,
           \/ call'.pc = "idle" \/ call' = call
           \/ call.pc = "idle" /\ call' = [pc |-> "wipe", minted |-> call'.minted]
           \/ call.pc # "idle" /\ \A s \in Moment : Covers(s, seen) => Obeys(call', s)
    PROVE  GateInv'
<1>1. /\ seen' \in Moment /\ Covers(seen', Gate!Now')
      /\ call.pc # "idle" /\ call'.pc # "idle" => Covers(seen', seen)
  BY SeenStep
<1>2. Covers(seen, Gate!Now)'
  BY <1>1 DEF Covers
<1>3. call'.pc = "idle" \/ Obeys(call', seen')
  <2>1. CASE call' = call /\ call.pc # "idle"
    BY <1>1, <2>1, ObeysLater DEF GateInv
  <2>2. CASE call' = [pc |-> "wipe", minted |-> call'.minted]
    BY <2>2 DEF Obeys
  <2> QED  BY <1>1, <2>1, <2>2
<1>4. (seen \in Moment)'
  BY <1>1 DEF Moment
<1>5. (call.pc = "idle" \/ Obeys(call, seen))'
  BY <1>3 DEF Obeys
<1> QED  BY <1>2, <1>4, <1>5 DEF GateInv

\* The settings move while a call is under way, or not.
LEMMA SettingsStep ==
    ASSUME GateInv, Gate!Watch,
           \/ Gate!Publish \/ Gate!Unpublish \/ Gate!DeleteService \/ Gate!CreateApiKey
           \/ Gate!RevokeApiKey \/ Gate!SetDatasetClassification \/ Gate!CreateMaskingRule
           \/ Gate!DeleteMaskingRule \/ Gate!Wipe
    PROVE  GateInv'
<1>1. /\ call' = call /\ UNCHANGED <<policies, member, lastSet>>
      /\ wiped' \in BOOLEAN /\ level' \in [Linked -> Levels]
  BY DEF Gate!Publish, Gate!Unpublish, Gate!DeleteService, Gate!CreateApiKey, Gate!RevokeApiKey,
         Gate!SetDatasetClassification, Gate!CreateMaskingRule, Gate!DeleteMaskingRule, Gate!Wipe,
         GateInv, SettingsShape
<1>2. SettingsShape'
  BY <1>1 DEF GateInv, SettingsShape, Gate!Waiting
<1>3. Gate!LevelInForce'
  BY <1>1 DEF GateInv, Gate!LevelInForce, Gate!MaxExternal, Gate!Last
<1>4. KeyIsBound'
  <2>1. CASE UNCHANGED apiKey
    BY <1>1, <2>1 DEF GateInv, KeyIsBound, KeyRow
  <2>2. CASE Gate!DeleteService
    <3>1. PICK s : apiKey' = Gate!Unbind(apiKey, s)
      BY <2>2 DEF Gate!DeleteService
    <3>2. \/ apiKey' = apiKey
          \/ apiKey # Gone /\ apiKey' = [apiKey EXCEPT !.bound = "none"]
      BY <3>1 DEF Gate!Unbind
    <3>3. CASE apiKey # Gone /\ apiKey' = [apiKey EXCEPT !.bound = "none"]
      <4>1. apiKey' \in KeyRow /\ apiKey'.bound = "none" /\ apiKey' # Gone
        BY <3>3, GoneIsNoKey DEF GateInv, KeyIsBound, KeyRow, Bindings
      <4> QED  BY <1>1, <4>1 DEF GateInv, KeyIsBound, KeyRow
    <3> QED  BY <2>1, <3>2, <3>3
  <2>3. CASE Gate!CreateApiKey
    <3>1. PICK b \in Bindings :
            apiKey' = [bound |-> b, minted |-> b, revoked |-> FALSE] /\ apiKey = Gone
      BY <2>3 DEF Gate!CreateApiKey, Bindings
    <3>2. apiKey' \in KeyRow /\ apiKey'.bound = apiKey'.minted
      BY <3>1 DEF KeyRow
    <3> QED  BY <1>1, <3>1, <3>2 DEF GateInv, KeyIsBound, KeyRow
  <2>4. CASE Gate!RevokeApiKey
    <3>1. apiKey # Gone /\ apiKey' = [apiKey EXCEPT !.revoked = TRUE]
      BY <2>4 DEF Gate!RevokeApiKey
    <3>2. /\ apiKey' \in KeyRow /\ apiKey'.bound = apiKey.bound /\ apiKey'.minted = apiKey.minted
          /\ apiKey' # Gone
      BY <3>1, GoneIsNoKey DEF GateInv, KeyIsBound, KeyRow, Bindings
    <3> QED  BY <1>1, <3>1, <3>2 DEF GateInv, KeyIsBound, KeyRow
  <2> QED  BY <2>1, <2>2, <2>3, <2>4
           DEF Gate!Publish, Gate!Unpublish, Gate!SetDatasetClassification, Gate!CreateMaskingRule,
               Gate!DeleteMaskingRule, Gate!Wipe
<1> QED  BY <1>1, <1>2, <1>3, <1>4, GateStep

\* An access policy is found, and set afterwards.
LEMMA PolicyStep ==
    ASSUME GateInv, Gate!Watch, NEW m \in Setters,
           Gate!FindAccessPolicy(m) \/ Gate!SetMaxExternalLevel(m)
    PROVE  GateInv'
<1>1. UNCHANGED <<wiped, level, apiKey, call>>
  BY DEF Gate!FindAccessPolicy, Gate!SetMaxExternalLevel
<1>2. KeyIsBound'
  BY <1>1 DEF GateInv, KeyIsBound, KeyRow
<1>3. CASE Gate!FindAccessPolicy(m)
  <2>1. PICK l \in Levels, i \in 0..Len(policies) :
          /\ member' = [member EXCEPT ![m] = [pc |-> "set", row |-> i, level |-> l]]
          /\ UNCHANGED <<policies, lastSet>>
    <3>1. PICK l \in Levels, i \in IF policies = <<>> THEN {0} ELSE DOMAIN policies :
            /\ member' = [member EXCEPT ![m] = [pc |-> "set", row |-> i, level |-> l]]
            /\ UNCHANGED <<policies, lastSet>>
      BY <1>3 DEF Gate!FindAccessPolicy
    <3>2. i \in 0..Len(policies)
      BY DEF GateInv, SettingsShape
    <3> QED  BY <3>1, <3>2
  <2>2. SettingsShape'
    BY <1>1, <2>1 DEF GateInv, SettingsShape, Gate!Waiting
  <2>3. Gate!LevelInForce'
    BY <2>1 DEF GateInv, Gate!LevelInForce, Gate!MaxExternal, Gate!Last
  <2> QED  BY <1>1, <1>2, <2>2, <2>3, GateStep
<1>4. CASE Gate!SetMaxExternalLevel(m)
  <2>1. PICK l \in Levels, i \in 0..Len(policies) :
          /\ policies' = IF i = 0 THEN Append(policies, l) ELSE [policies EXCEPT ![i] = l]
          /\ lastSet' = l /\ member' = [member EXCEPT ![m] = Gate!Waiting]
    BY <1>4 DEF Gate!SetMaxExternalLevel, GateInv, SettingsShape
  <2>2. /\ policies' \in Seq(Levels) /\ Len(policies') >= Len(policies)
        /\ Len(policies') <= 1 => policies' # <<>> /\ policies'[Len(policies')] = l
    BY <2>1 DEF GateInv, SettingsShape
  <2>3. SettingsShape'
    <3> SUFFICES ASSUME NEW o \in Setters, member'[o] # Gate!Waiting
                 PROVE  member'[o] \in [pc: {"set"}, row: 0..Len(policies'), level: Levels]
      BY <1>1, <2>1, <2>2 DEF GateInv, SettingsShape, Gate!Waiting
    <3>1. member'[o] = member[o]
      BY <2>1 DEF GateInv, SettingsShape
    <3>2. 0..Len(policies) \subseteq 0..Len(policies')
      BY <2>2 DEF GateInv, SettingsShape
    <3> QED  BY <3>1, <3>2 DEF GateInv, SettingsShape
  <2>4. Gate!LevelInForce'
    BY <2>1, <2>2 DEF Gate!LevelInForce, Gate!MaxExternal, Gate!Last
  <2> QED  BY <1>1, <1>2, <2>3, <2>4, GateStep
<1> QED  BY <1>3, <1>4

\* A call reads one setting after the other, and each as it is then.
LEMMA CallStep ==
    ASSUME GateInv, Gate!Watch,
           \/ Gate!FindKey \/ Gate!CheckWipe \/ Gate!ReadService \/ Gate!ReadPolicy \/ Gate!FetchRows
           \/ Gate!RecordAccess \/ Gate!Answered
    PROVE  GateInv'
<1>1. UNCHANGED Gate!settings
  BY DEF Gate!FindKey, Gate!CheckWipe, Gate!ReadService, Gate!ReadPolicy, Gate!FetchRows,
         Gate!RecordAccess, Gate!Answered
<1>2. UNCHANGED <<moving, front, wiped, apiKey, level, policies, masks, member, lastSet>>
  BY <1>1 DEF Gate!settings
<1>3. SettingsShape' /\ Gate!LevelInForce'
  BY <1>2 DEF GateInv, SettingsShape, Gate!Waiting, Gate!LevelInForce, Gate!MaxExternal, Gate!Last
<1>4. KeyIsBound' <=>
          /\ apiKey # Gone => apiKey \in KeyRow /\ apiKey.bound \in {apiKey.minted, "none"}
          /\ call'.pc # "idle" =>
                apiKey # Gone /\ (call'.minted = "other" => apiKey.bound = "none")
  BY <1>2 DEF KeyIsBound, KeyRow, Bindings
<1>5. Gate!NoCall.pc = "idle"
  BY DEF Gate!NoCall
<1>6. CASE call' = Gate!NoCall
  <2>1. KeyIsBound'
    BY <1>4, <1>5, <1>6 DEF GateInv, KeyIsBound
  <2> QED  BY <1>3, <1>5, <1>6, <2>1, GateStep
<1>7. CASE Gate!FindKey
  <2>1. /\ call.pc = "idle" /\ call' = [pc |-> "wipe", minted |-> apiKey.minted]
        /\ apiKey # Gone /\ apiKey.bound \in {"none", "this"}
    BY <1>7 DEF Gate!FindKey, Gate!KeyOpens
  <2>2. KeyIsBound'
    BY <1>4, <2>1 DEF GateInv, KeyIsBound
  <2> QED  BY <1>3, <2>1, <2>2, GateStep
<1>8. ASSUME call.pc # "idle", call'.minted = call.minted,
             \A s \in Moment : Covers(s, seen) => Obeys(call', s)
      PROVE  GateInv'
  <2>1. KeyIsBound'
    BY <1>4, <1>8 DEF GateInv, KeyIsBound
  <2> QED  BY <1>3, <1>8, <2>1, GateStep
<1>9. /\ Obeys(call, seen) \/ call.pc = "idle"
      /\ seen \in Moment /\ Covers(seen, Gate!Now)
      /\ Gate!Now \in Moment /\ Gate!MaxExternal \in Levels
  BY NowIsMoment DEF GateInv, SettingsShape
<1>10. ASSUME NEW s \in Moment, Covers(s, seen)
       PROVE  /\ Covers(s, Gate!Now) /\ (Obeys(call, seen) => Obeys(call, s))
  BY <1>9, <1>10, CoversTransitive, ObeysLater
<1>11. CASE Gate!CheckWipe /\ call' # Gate!NoCall
  <2>1. /\ ~wiped /\ call = [pc |-> "wipe", minted |-> call.minted]
        /\ call' = [call EXCEPT !.pc = "service"]
    BY <1>9, <1>11 DEF Gate!CheckWipe, Obeys
  <2>2. call' = [pc |-> "service", minted |-> call.minted]
    BY <2>1
  <2>3. \A s \in Moment : Covers(s, seen) => s.alive
    BY <1>10, <2>1 DEF Covers, Gate!Now
  <2> QED  BY <1>8, <2>1, <2>2, <2>3 DEF Obeys
<1>12. CASE Gate!ReadService /\ call' # Gate!NoCall
  <2>1. /\ front = "running" /\ call.pc = "service"
        /\ call' = [pc |-> "policy", minted |-> call.minted, level |-> level]
    BY <1>12 DEF Gate!ReadService
  <2>2. ASSUME NEW s \in Moment, Covers(s, seen) PROVE Obeys(call', s)
    <3>1. s.ran /\ \A d \in Linked : s.low[d] <= level[d]
      BY <1>10, <2>1, <2>2 DEF Covers, Gate!Now
    <3>2. s.alive
      BY <1>9, <1>10, <2>1, <2>2 DEF Obeys
    <3> QED  BY <2>1, <3>1, <3>2 DEF Obeys, GateInv, SettingsShape
  <2> QED  BY <1>8, <2>1, <2>2
<1>13. CASE Gate!ReadPolicy
  <2>1. /\ call.pc = "policy"
        /\ call' = [pc |-> "rows", minted |-> call.minted, level |-> call.level,
                    max |-> Gate!MaxExternal, masks |-> masks]
    BY <1>13 DEF Gate!ReadPolicy
  <2>2. ASSUME NEW s \in Moment, Covers(s, seen) PROVE Obeys(call', s)
    <3>1. Gate!MaxExternal <= s.high /\ \A d \in s.hidden : Gate!MaskOf(masks, d) # "clear"
      BY <1>10, <2>2 DEF Covers, Gate!Now
    <3>2. Obeys(call, s)
      BY <1>9, <1>10, <2>1, <2>2
    <3> QED  BY <1>9, <2>1, <3>1, <3>2 DEF Obeys
  <2> QED  BY <1>8, <2>1, <2>2
<1>14. CASE Gate!FetchRows
  <2>1. PICK out :
          /\ call.pc = "rows" /\ call' = [pc |-> "record", minted |-> call.minted, out |-> out]
          /\ \A d \in Linked : out[d] \in Gate!Governed(d)
    BY <1>14 DEF Gate!FetchRows
  <2>2. ASSUME NEW s \in Moment, Covers(s, seen) PROVE Obeys(call', s)
    <3>1. Obeys(call, s)
      BY <1>9, <1>10, <2>1, <2>2
    <3>2. ASSUME NEW d \in Linked
          PROVE  /\ out[d] # "excluded" => s.low[d] <= s.high
                 /\ out[d] = "clear" => d \notin s.hidden
      <4>1. /\ s.low[d] \in Int /\ call.level[d] \in Int /\ call.max \in Int /\ s.high \in Int
            /\ s.low[d] <= call.level[d] /\ call.max <= s.high
            /\ d \in s.hidden => Gate!MaskOf(call.masks, d) # "clear"
        BY <2>1, <3>1, GatewayAssumption DEF Obeys, Moment
      <4>2. CASE Gate!Allowed(call.level[d], call.max)
        <5>1. call.level[d] <= call.max /\ s.low[d] <= s.high
          BY <4>1, <4>2 DEF Gate!Allowed
        <5>2. out[d] \in {"metadata_only", "source_unavailable", Gate!MaskOf(call.masks, d)}
          BY <2>1, <4>2 DEF Gate!Governed, Gate!RowsOf
        <5> QED  BY <4>1, <5>1, <5>2
      <4>3. CASE ~Gate!Allowed(call.level[d], call.max)
        BY <2>1, <4>3 DEF Gate!Governed
      <4> QED  BY <4>2, <4>3
    <3> QED  BY <2>1, <3>1, <3>2 DEF Obeys
  <2> QED  BY <1>8, <2>1, <2>2
<1>15. CASE Gate!RecordAccess /\ call' # Gate!NoCall
  <2>1. PICK written \in SUBSET {"last_used", "audit", "usage"} :
          /\ call.pc = "record" /\ ~(Gate!Cardinality(written) < 3)
          /\ call' = [pc |-> "answered", minted |-> call.minted, out |-> call.out,
                      written |-> written]
    BY <1>15 DEF Gate!RecordAccess
  <2>2. written = {"last_used", "audit", "usage"}
    <3>1. Gate!Cardinality(written) = Cardinality(written)
      BY DEF Gate!Cardinality, Cardinality
    <3>2. /\ IsFiniteSet({"last_used", "audit", "usage"})
          /\ Cardinality({"last_used", "audit", "usage"}) = 3
      <4>1. IsFiniteSet({"last_used"}) /\ Cardinality({"last_used"}) = 1
        BY FS_Singleton
      <4>2. {"audit", "last_used"} = {"last_used"} \cup {"audit"}
        OBVIOUS
      <4>3. IsFiniteSet({"audit", "last_used"}) /\ Cardinality({"audit", "last_used"}) = 2
        BY <4>1, <4>2, FS_AddElement
      <4>4. {"last_used", "audit", "usage"} = {"audit", "last_used"} \cup {"usage"}
        OBVIOUS
      <4> QED  BY <4>3, <4>4, FS_AddElement
    <3>3. Cardinality(written) \in Nat /\ Cardinality(written) <= 3
      BY <3>2, FS_Subset, FS_CardinalityType
    <3>4. Cardinality(written) = Cardinality({"last_used", "audit", "usage"})
      BY <2>1, <3>1, <3>2, <3>3
    <3> QED  BY <3>2, <3>4, FS_Subset, Zenon
  <2>3. ASSUME NEW s \in Moment, Covers(s, seen) PROVE Obeys(call', s)
    <3>1. Obeys(call, s)
      BY <1>9, <1>10, <2>1, <2>3
    <3> QED  BY <2>1, <2>2, <3>1 DEF Obeys
  <2> QED  BY <1>8, <2>1, <2>3
<1> QED  BY <1>6, <1>7, <1>11, <1>12, <1>13, <1>14, <1>15 DEF Gate!Answered, Gate!CheckWipe,
            Gate!ReadService, Gate!RecordAccess

LEMMA GateBegins == Gate!GatewayInit => GateInv
<1> SUFFICES ASSUME Gate!GatewayInit PROVE GateInv
  OBVIOUS
<1>1. /\ wiped = FALSE /\ level \in [Linked -> Levels] /\ policies = <<>> /\ lastSet = Gone
      /\ member = [m \in Setters |-> Gate!Waiting] /\ call.pc = "idle" /\ seen = Gate!Now
      /\ apiKey \in {Gone, [bound |-> "none", minted |-> "none", revoked |-> FALSE]}
  BY GatewayAssumption DEF Gate!GatewayInit, Gate!NoCall
<1>2. SettingsShape
  <2>1. policies \in Seq(Levels) /\ \A m \in Setters : member[m] = Gate!Waiting
    BY <1>1
  <2>2. member = [m \in Setters |-> member[m]]
    BY <1>1, <2>1
  <2> QED  BY <1>1, <2>1, <2>2 DEF SettingsShape
<1>3. seen \in Moment /\ Covers(seen, Gate!Now)
  <2>1. Gate!Now \in Moment
    BY <1>2, NowIsMoment DEF SettingsShape
  <2>2. \A d \in Linked : Gate!Now.low[d] \in Int
    BY <2>1, GatewayAssumption DEF Moment
  <2>3. Gate!Now.high \in Int
    BY <2>1, GatewayAssumption DEF Moment
  <2> QED  BY <1>1, <2>1, <2>2, <2>3 DEF Covers
<1>4. KeyIsBound
  <2>1. CASE apiKey = Gone
    BY <1>1, <2>1 DEF KeyIsBound
  <2>2. CASE apiKey = [bound |-> "none", minted |-> "none", revoked |-> FALSE]
    <3>1. apiKey \in KeyRow /\ apiKey.bound = apiKey.minted
      BY <2>2 DEF KeyRow, Bindings
    <3> QED  BY <1>1, <3>1 DEF KeyIsBound
  <2> QED  BY <1>1, <2>1, <2>2
<1>5. Gate!LevelInForce
  BY <1>1 DEF Gate!LevelInForce
<1> QED  BY <1>1, <1>2, <1>3, <1>4, <1>5 DEF GateInv

LEMMA GateStutter == ASSUME GateInv, UNCHANGED Gate!gatewayVars PROVE GateInv'
<1>1. UNCHANGED <<moving, front, wiped, apiKey, level, policies, masks, member, lastSet, call, seen>>
  BY DEF Gate!gatewayVars
<1>2. UNCHANGED Gate!Now
  BY <1>1 DEF Gate!Now, Gate!MaxExternal, Gate!Last
<1> QED  BY <1>1, <1>2 DEF GateInv, SettingsShape, Moment, Covers, Obeys, KeyIsBound, KeyRow, Bindings,
                           Gate!LevelInForce, Gate!MaxExternal, Gate!Last, Gate!Waiting

\* In the gateway part, a step of the workspace is one of that part.
LEMMA GateFrame ==
    ASSUME [WorkspaceNext]_workspaceVars, part' = "gateway"
    PROVE  part = "gateway" /\ [Gate!GatewayNext]_Gate!gatewayVars
<1> USE DEF Around1, Around2, Around3, Around4
<1>1. CASE GatewayRuns
  BY <1>1 DEF GatewayRuns
<1>2. CASE UNCHANGED workspaceVars
  BY <1>2 DEF workspaceVars, gatewayVars, Gate!gatewayVars
<1>3. ASSUME \/ CatalogRuns \/ PublishingRuns \/ SourcesRun \/ AdmissionRuns \/ ReadsRun
             \/ AccessRuns \/ ScreensRun \/ ApprovalsRun \/ FirstEntryRuns
      PROVE  FALSE
  BY <1>3 DEF CatalogRuns, PublishingRuns, SourcesRun, AdmissionRuns, ReadsRun,
              AccessRuns, ScreensRun, ApprovalsRun, FirstEntryRuns
<1> QED  BY <1>1, <1>2, <1>3 DEF WorkspaceNext

\* The invariant of the gateway: a call that goes on has obeyed what held at some moment since
\* it began, however the settings move meanwhile (api/services/[serviceId]/route.ts).
THEOREM GatewayInductive == WorkspaceSpec => [](part = "gateway" => GateInv)
<1>1. WorkspaceInit => (part = "gateway" => GateInv)
  BY GateBegins DEF WorkspaceInit, GatewayBegins
<1>2. (part = "gateway" => GateInv) /\ [WorkspaceNext]_workspaceVars
      => (part = "gateway" => GateInv)'
  <2> SUFFICES ASSUME GateInv, [Gate!GatewayNext]_Gate!gatewayVars PROVE GateInv'
    BY GateFrame
  <2> QED  BY SettingsStep, PolicyStep, CallStep, GateStutter DEF Gate!GatewayNext
<1> QED  BY <1>1, <1>2, PTL DEF WorkspaceSpec

\* An answer obeys the status, the wipe mark, the access level and the masks of some moment of
\* its call, and its key is of this service or of none; and the level set last is in force as
\* long as there is one access policy (api/services/[serviceId]/route.ts, security/actions.ts).
THEOREM AnswersTheorem == WorkspaceSpec => []AnswersObeyPolicy
<1>1. GateInv => Gate!AnswersObeyPolicy /\ Gate!LevelInForce
  BY DEF GateInv, KeyIsBound, Obeys, Gate!AnswersObeyPolicy, Gate!Allowed
<1> QED  BY <1>1, GatewayInductive, PTL DEF AnswersObeyPolicy

\* The settings have their types: masks are bounded, and there are no more access policies
\* than administrators, since each found none at most once.
Anew == {m \in Setters : member[m] # Gate!Waiting /\ member[m].row = 0}
Masking == [ds: Linked \cup {"*"}, strategy: Strategies]
GateTyped ==
    /\ front \in {"running", "stopped", "gone"}
    /\ masks \in Seq(Masking) /\ Len(masks) <= MaxRules
    /\ Len(policies) + Cardinality(Anew) <= Cardinality(Setters)

LEMMA AnewIsFinite ==
    /\ IsFiniteSet(Setters) /\ Cardinality(Setters) \in Nat
    /\ \A S \in SUBSET Setters : /\ IsFiniteSet(S) /\ Cardinality(S) \in Nat
                                 /\ Cardinality(S) <= Cardinality(Setters)
  BY GatewayAssumption, FS_CardinalityType, FS_Subset

LEMMA SettingTyped ==
    ASSUME GateInv, GateTyped,
           \/ Gate!Publish \/ Gate!Unpublish \/ Gate!DeleteService \/ Gate!CreateApiKey
           \/ Gate!RevokeApiKey \/ Gate!SetDatasetClassification \/ Gate!CreateMaskingRule
           \/ Gate!DeleteMaskingRule \/ Gate!Wipe
    PROVE  GateTyped'
<1>1. UNCHANGED <<policies, member>>
  BY DEF Gate!Publish, Gate!Unpublish, Gate!DeleteService, Gate!CreateApiKey, Gate!RevokeApiKey,
         Gate!SetDatasetClassification, Gate!CreateMaskingRule, Gate!DeleteMaskingRule, Gate!Wipe
<1>2. Anew' = Anew
  BY <1>1 DEF Anew, Gate!Waiting
<1>3. front' \in {"running", "stopped", "gone"}
  BY DEF Gate!Publish, Gate!Unpublish, Gate!DeleteService, Gate!CreateApiKey, Gate!RevokeApiKey,
         Gate!SetDatasetClassification, Gate!CreateMaskingRule, Gate!DeleteMaskingRule, Gate!Wipe,
         GateTyped
<1>4. masks' \in Seq(Masking) /\ Len(masks') <= MaxRules
  <2>1. CASE UNCHANGED masks
    BY <2>1 DEF GateTyped
  <2>2. CASE Gate!CreateMaskingRule
    <3>1. PICK d \in Linked \cup {"*"}, s \in Strategies :
            Len(masks) < MaxRules /\ masks' = Append(masks, [ds |-> d, strategy |-> s])
      BY <2>2 DEF Gate!CreateMaskingRule
    <3>2. [ds |-> d, strategy |-> s] \in Masking
      BY DEF Masking
    <3> QED  BY <3>1, <3>2, GatewayAssumption DEF GateTyped
  <2>3. CASE Gate!DeleteMaskingRule
    <3>1. PICK i \in DOMAIN masks : masks' = SubSeq(masks, 1, i - 1) \o SubSeq(masks, i + 1, Len(masks))
      BY <2>3 DEF Gate!DeleteMaskingRule, Gate!RemoveAt
    <3>2. masks \in Seq(Masking) /\ i \in 1..Len(masks) /\ Len(masks) \in Nat
      BY DEF GateTyped
    <3>3. SubSeq(masks, 1, i - 1) \in Seq(Masking) /\ Len(SubSeq(masks, 1, i - 1)) = i - 1
      BY <3>2
    <3>4. /\ SubSeq(masks, i + 1, Len(masks)) \in Seq(Masking)
          /\ Len(SubSeq(masks, i + 1, Len(masks))) = Len(masks) - i
      BY <3>2
    <3>5. masks' \in Seq(Masking) /\ Len(masks') = (i - 1) + (Len(masks) - i)
      BY <3>1, <3>3, <3>4
    <3> QED  BY <3>2, <3>5, GatewayAssumption DEF GateTyped
  <2> QED  BY <2>1, <2>2, <2>3
           DEF Gate!Publish, Gate!Unpublish, Gate!DeleteService, Gate!CreateApiKey,
               Gate!RevokeApiKey, Gate!SetDatasetClassification, Gate!Wipe
<1> QED  BY <1>1, <1>2, <1>3, <1>4 DEF GateTyped

\* Who finds no policy takes the place of one that is not there yet.
LEMMA PolicyTyped ==
    ASSUME GateInv, GateTyped, NEW m \in Setters,
           Gate!FindAccessPolicy(m) \/ Gate!SetMaxExternalLevel(m)
    PROVE  GateTyped'
<1>1. UNCHANGED <<front, masks>>
  BY DEF Gate!FindAccessPolicy, Gate!SetMaxExternalLevel
<1>2. policies \in Seq(Levels) /\ Len(policies) \in Nat /\ Anew \subseteq Setters /\ Anew' \subseteq Setters
  BY DEF GateInv, SettingsShape, Anew
<1>3. /\ Cardinality(Setters) \in Nat /\ IsFiniteSet(Anew)
      /\ Cardinality(Anew) \in Nat /\ Cardinality(Anew') \in Nat
      /\ Cardinality(Anew') <= Cardinality(Setters)
  BY <1>2, AnewIsFinite
<1>4. Len(policies') + Cardinality(Anew') <= Cardinality(Setters)
  <2>1. CASE Gate!FindAccessPolicy(m)
    <3>1. PICK l \in Levels, i \in IF policies = <<>> THEN {0} ELSE DOMAIN policies :
            /\ member' = [member EXCEPT ![m] = [pc |-> "set", row |-> i, level |-> l]]
            /\ member[m] = Gate!Waiting /\ UNCHANGED policies
      BY <2>1 DEF Gate!FindAccessPolicy
    <3>2. CASE policies = <<>>
      BY <1>3, <3>1, <3>2
    <3>3. CASE policies # <<>>
      <4>1. i # 0
        BY <1>2, <3>1, <3>3
      <4>2. \A o \in Setters : member'[o] = IF o = m THEN [pc |-> "set", row |-> i, level |-> l] ELSE member[o]
        BY <3>1 DEF GateInv, SettingsShape
      <4>3. Anew' = Anew
        BY <3>1, <4>1, <4>2 DEF Anew, Gate!Waiting
      <4> QED  BY <3>1, <4>3 DEF GateTyped
    <3> QED  BY <3>2, <3>3
  <2>2. CASE Gate!SetMaxExternalLevel(m)
    <3>1. /\ policies' = IF member[m].row = 0 THEN Append(policies, member[m].level)
                         ELSE [policies EXCEPT ![member[m].row] = member[m].level]
          /\ member[m] # Gate!Waiting /\ member' = [member EXCEPT ![m] = Gate!Waiting]
      BY <2>2 DEF Gate!SetMaxExternalLevel
    <3>2. Anew' = Anew \ {m}
      BY <3>1 DEF GateInv, SettingsShape, Anew, Gate!Waiting
    <3>3. CASE member[m].row = 0
      <4>1. m \in Anew
        BY <3>1, <3>3 DEF Anew
      <4>2. Cardinality(Anew') = Cardinality(Anew) - 1
        BY <1>3, <3>2, <4>1, FS_RemoveElement
      <4>3. Len(policies') = Len(policies) + 1
        BY <1>2, <3>1, <3>3
      <4> QED  BY <1>2, <1>3, <4>2, <4>3 DEF GateTyped
    <3>4. CASE member[m].row # 0
      <4>1. Len(policies') = Len(policies)
        BY <1>2, <3>1, <3>4
      <4>2. Anew' = Anew
        BY <3>2, <3>4 DEF Anew
      <4> QED  BY <4>1, <4>2 DEF GateTyped
    <3> QED  BY <3>3, <3>4
  <2> QED  BY <2>1, <2>2
<1> QED  BY <1>1, <1>4 DEF GateTyped

\* The types of the gateway's settings (security/actions.ts, service/actions.ts).
THEOREM GatewayTypes == WorkspaceSpec => [](part = "gateway" => Gate!GatewayTypeOK)
<1> DEFINE I == part = "gateway" => GateInv
           J == part = "gateway" => GateTyped
<1>1. WorkspaceInit => J
  <2> SUFFICES ASSUME Gate!GatewayInit PROVE GateTyped
    BY DEF WorkspaceInit, GatewayBegins
  <2>1. /\ front \in {"running", "stopped"} /\ masks = <<>> /\ policies = <<>>
        /\ Anew = {}
    BY DEF Gate!GatewayInit, Anew
  <2>2. Cardinality(Anew) = 0
    BY <2>1, FS_EmptySet
  <2>3. masks \in Seq(Masking) /\ Len(masks) = 0 /\ Len(policies) = 0
    BY <2>1
  <2> QED  BY <2>1, <2>2, <2>3, AnewIsFinite, GatewayAssumption DEF GateTyped
<1>2. I /\ J /\ [WorkspaceNext]_workspaceVars => J'
  <2> SUFFICES ASSUME GateInv, GateTyped, [Gate!GatewayNext]_Gate!gatewayVars PROVE GateTyped'
    BY GateFrame
  <2>1. CASE UNCHANGED <<front, masks, policies, member>>
    BY <2>1 DEF GateTyped, Anew, Gate!Waiting
  <2>2. UNCHANGED Gate!settings => UNCHANGED <<front, masks, policies, member>>
    BY DEF Gate!settings
  <2> QED  BY <2>1, <2>2, SettingTyped, PolicyTyped
           DEF Gate!GatewayNext, Gate!FindKey, Gate!CheckWipe, Gate!ReadService, Gate!ReadPolicy,
               Gate!FetchRows, Gate!RecordAccess, Gate!Answered, Gate!gatewayVars
<1>3. GateInv /\ GateTyped => Gate!GatewayTypeOK
  <2> SUFFICES ASSUME GateInv, GateTyped PROVE Gate!GatewayTypeOK
    OBVIOUS
  <2>1. Gate!ToSet(policies) \subseteq Levels
    BY DEF Gate!ToSet, GateInv, SettingsShape
  <2>2. Gate!Cardinality(Setters) = Cardinality(Setters)
    BY DEF Gate!Cardinality, Cardinality
  <2>3. Len(policies) \in Nat /\ Cardinality(Anew) \in Nat /\ Cardinality(Setters) \in Nat
    <3>1. Len(policies) \in Nat
      BY DEF GateInv, SettingsShape
    <3>2. Anew \subseteq Setters
      BY DEF Anew
    <3> QED  BY <3>1, <3>2, AnewIsFinite
  <2>4. Len(policies) <= Gate!Cardinality(Setters)
    BY <2>2, <2>3 DEF GateTyped
  <2>5. \A d \in DOMAIN seen.low : seen.low[d] \in Levels
    BY DEF GateInv, Moment
  <2> QED  BY <2>1, <2>4, <2>5 DEF Gate!GatewayTypeOK, GateInv, GateTyped, SettingsShape
<1>4. I /\ J => (part = "gateway" => Gate!GatewayTypeOK)
  BY <1>3
<1> QED  BY <1>1, <1>2, <1>4, GatewayInductive, PTL DEF WorkspaceSpec

-----------------------------------------------------------------------------
(* The lists: a walk of a list, page by page, while its rows change. *)

ListedRow == [owner: {"own", "platform", "other"}, sort: SortKeys, match: BOOLEAN]
ReadShapes ==
    /\ list \in {"datasets", "rules", "results"}
    /\ listed \in [Ids -> ListedRow \cup {Gone, Fresh}]
    /\ list # "datasets" => \A i \in Rd!RowIds : listed[i].owner = "own"
    /\ walk \in [pc: {"idle", "page", "done", "error"}, limit: Nat, search: BOOLEAN,
                filter: BOOLEAN, cursor: Ids \cup {Gone}, got: Seq(Ids)]
    /\ walk.search => list = "datasets"
    /\ steady \subseteq Rd!RowIds /\ touched \in BOOLEAN

\* What the client has received comes before its cursor, as long as both are there.
GotIsBefore ==
    /\ walk.cursor = Gone /\ walk.pc \in {"idle", "page"} => walk.got = <<>>
    /\ \A n \in DOMAIN walk.got : listed[walk.got[n]] # Fresh
    /\ walk.pc = "page" /\ walk.cursor \in Rd!RowIds =>
           \A n \in DOMAIN walk.got : walk.got[n] \in Rd!RowIds =>
               walk.got[n] = walk.cursor \/ Rd!Before(walk.got[n], walk.cursor)
    /\ walk.cursor # Gone => listed[walk.cursor] # Fresh

\* A row that matches all the while has been received, or comes after the cursor.
SteadyIsAhead ==
    /\ walk.pc = "page" => steady \subseteq Rd!Where
    /\ walk.pc = "page" /\ ~touched =>
           /\ walk.cursor # Gone => walk.cursor \in Rd!Where
           /\ \A i \in steady : \/ \E n \in DOMAIN walk.got : walk.got[n] = i
                                \/ walk.cursor = Gone \/ Rd!Before(walk.cursor, i)

ReadInv == ReadShapes /\ GotIsBefore /\ SteadyIsAhead /\ Rd!PagesAreComplete

LEMMA ListedCardinality == ASSUME NEW S PROVE Rd!Cardinality(S) = Cardinality(S)
  BY DEF Rd!Cardinality, Cardinality

LEMMA RowIdsAre ==
    ASSUME ReadShapes
    PROVE  /\ Rd!RowIds = {i \in Ids : listed[i] \in ListedRow}
           /\ IsFiniteSet(Rd!RowIds) /\ Rd!RowIds \subseteq Int
           /\ \A i \in Rd!RowIds : listed[i].sort \in Int
<1>1. Gone \notin ListedRow /\ Fresh \notin ListedRow
  BY GoneIsNoListed DEF ListedRow
<1>2. Rd!RowIds = {i \in Ids : listed[i] \in ListedRow}
  BY <1>1 DEF Rd!RowIds, ReadShapes
<1>3. IsFiniteSet(Rd!RowIds)
  BY <1>2, ReadsAssumption, FS_Subset
<1>4. \A i \in Rd!RowIds : listed[i].sort \in Int
  BY <1>2, ReadsAssumption DEF ListedRow
<1> QED  BY <1>2, <1>3, <1>4, ReadsAssumption

\* The order of a list is strict and total.
LEMMA ListOrder ==
    ASSUME ReadShapes
    PROVE  /\ \A i \in Rd!RowIds : ~Rd!Before(i, i)
           /\ \A i, j \in Rd!RowIds : i = j \/ Rd!Before(i, j) \/ Rd!Before(j, i)
           /\ \A i, j \in Rd!RowIds : Rd!Before(i, j) => ~Rd!Before(j, i)
           /\ \A i, j, k \in Rd!RowIds : Rd!Before(i, j) /\ Rd!Before(j, k) => Rd!Before(i, k)
  BY RowIdsAre DEF Rd!Before

\* InOrder lists a set of rows, each once, in the order of the list.
LEMMA InOrderLists ==
    ASSUME ReadShapes, NEW S \in SUBSET Rd!RowIds
    PROVE  /\ Rd!InOrder(S) \in [1..Cardinality(S) -> S] /\ Cardinality(S) \in Nat
           /\ \A m, n \in 1..Cardinality(S) : m < n => Rd!Before(Rd!InOrder(S)[m], Rd!InOrder(S)[n])
           /\ \A i \in S : \E n \in 1..Cardinality(S) : Rd!InOrder(S)[n] = i
<1> DEFINE n == Cardinality(S)
           Below(i) == {j \in S : Rd!Before(j, i)}
           rank == [i \in S |-> Cardinality(Below(i))]
           s == Rd!InOrder(S)
<1>1. IsFiniteSet(S) /\ n \in Nat
  BY RowIdsAre, FS_Subset, FS_CardinalityType
<1>2. \A i \in S : IsFiniteSet(Below(i)) /\ Cardinality(Below(i)) \in Nat
  BY <1>1, FS_Subset, FS_CardinalityType
<1>3. ASSUME NEW i \in S PROVE rank[i] \in 0..(n - 1)
  <2>1. Below(i) \in SUBSET (S \ {i})
    BY ListOrder
  <2>2. IsFiniteSet(S \ {i}) /\ Cardinality(S \ {i}) = n - 1
    BY <1>1, FS_RemoveElement
  <2>3. Cardinality(Below(i)) <= n - 1
    BY <2>1, <2>2, FS_Subset
  <2> HIDE DEF Below, n
  <2> QED  BY <1>1, <1>2, <2>3
<1>4. ASSUME NEW i \in S, NEW j \in S, Rd!Before(i, j) PROVE rank[i] < rank[j]
  <2>1. Below(i) \in SUBSET Below(j) /\ i \in Below(j) /\ i \notin Below(i)
    BY <1>4, ListOrder
  <2> HIDE DEF Below
  <2>2. Cardinality(Below(i)) <= Cardinality(Below(j)) /\ Cardinality(Below(i)) # Cardinality(Below(j))
    BY <2>1, <1>2, FS_Subset
  <2> QED  BY <1>2, <2>2
<1>5. \A i, j \in S : rank[i] = rank[j] => i = j
  <2> HIDE DEF rank
  <2>1. \A i \in S : rank[i] \in Int
    BY <1>1, <1>3
  <2> QED  BY <1>4, <2>1, ListOrder
<1>6. rank \in Surjection(S, 0..(n - 1))
  <2>1. rank \in Injection(S, 0..(n - 1))
    BY <1>3, <1>5 DEF Injection, IsInjective
  <2>2. IsFiniteSet(0..(n - 1)) /\ Cardinality(0..(n - 1)) = n
    BY <1>1, FS_Interval
  <2> HIDE DEF rank
  <2> QED  BY <2>1, <2>2, FS_Injection
<1>7. /\ s = [k \in 1..n |-> CHOOSE i \in S : Rd!Rank(S, i) = k - 1]
      /\ \A i \in S : rank[i] = Rd!Rank(S, i)
  <2>1. Rd!Cardinality(S) = n
    BY ListedCardinality
  <2> QED  BY <2>1, ListedCardinality DEF Rd!InOrder, Rd!Rank
<1> HIDE DEF rank, s, n
<1>8. ASSUME NEW k \in 1..n PROVE s[k] \in S /\ rank[s[k]] = k - 1
  <2>1. k - 1 \in 0..(n - 1)
    BY <1>1
  <2>2. \E i \in S : rank[i] = k - 1
    BY <1>6, <2>1 DEF Surjection
  <2> QED  BY <1>7, <2>2
<1>9. ASSUME NEW m \in 1..n, NEW k \in 1..n, m < k PROVE Rd!Before(s[m], s[k])
  <2>1. rank[s[m]] = m - 1 /\ rank[s[k]] = k - 1 /\ s[m] \in S /\ s[k] \in S
    BY <1>8
  <2>2. s[m] # s[k] /\ ~Rd!Before(s[k], s[m])
    BY <1>1, <1>4, <1>9, <2>1
  <2> QED  BY <2>1, <2>2, ListOrder
<1>10. ASSUME NEW i \in S PROVE \E k \in 1..n : s[k] = i
  <2>1. rank[i] \in 0..(n - 1)
    BY <1>3
  <2>2. rank[i] + 1 \in 1..n /\ (rank[i] + 1) - 1 = rank[i]
    BY <1>1, <2>1
  <2> QED  BY <1>5, <1>8, <2>2
<1> QED  BY <1>1, <1>7, <1>8, <1>9, <1>10 DEF n, s

\* A page goes on from the cursor: with rows that match and come after it, each once, in order;
\* and with all of them, unless the cursor's row is gone or does not match.
LEMMA FromCursorLists ==
    ASSUME ReadInv, walk.pc = "page"
    PROVE  \E n \in Nat :
             /\ Rd!FromCursor \in [1..n -> Rd!Where]
             /\ \A k, m \in 1..n : k < m => Rd!Before(Rd!FromCursor[k], Rd!FromCursor[m])
             /\ \A k \in 1..n : \/ walk.cursor = Gone
                                \/ /\ walk.cursor \in Rd!RowIds
                                   /\ Rd!Before(walk.cursor, Rd!FromCursor[k])
             /\ ~touched => \A i \in Rd!Where : walk.cursor = Gone \/ Rd!Before(walk.cursor, i) =>
                    \E k \in 1..n : Rd!FromCursor[k] = i
<1>1. ReadShapes /\ Rd!Where \in SUBSET Rd!RowIds
  BY DEF ReadInv, Rd!Where
<1>2. CASE walk.cursor = Gone
  <2>1. Rd!FromCursor = Rd!InOrder(Rd!Where)
    BY <1>2 DEF Rd!FromCursor
  <2> QED  BY <1>1, <1>2, <2>1, InOrderLists
<1>3. CASE walk.cursor # Gone /\ walk.cursor \notin Rd!RowIds
  <2>1. Rd!FromCursor = <<>>
    BY <1>3 DEF Rd!FromCursor
  <2>2. <<>> \in [1..0 -> Rd!Where]
    OBVIOUS
  <2>3. touched
    BY <1>1, <1>3 DEF ReadInv, ReadShapes, SteadyIsAhead
  <2> QED  BY <2>1, <2>2, <2>3
<1>4. CASE walk.cursor # Gone /\ walk.cursor \in Rd!RowIds
  <2> DEFINE T == {i \in Rd!Where : i = walk.cursor \/ Rd!Before(walk.cursor, i)}
             s == Rd!InOrder(T)
             c == Cardinality(T)
  <2>1. /\ s \in [1..c -> T] /\ c \in Nat
        /\ \A k, m \in 1..c : k < m => Rd!Before(s[k], s[m])
        /\ \A i \in T : \E k \in 1..c : s[k] = i
    BY <1>1, InOrderLists
  <2>2. Rd!FromCursor = IF s = <<>> THEN <<>> ELSE Tail(s)
    BY <1>4 DEF Rd!FromCursor
  <2>3. T \subseteq Rd!Where /\ T \subseteq Rd!RowIds
    BY <1>1
  <2>4. \A i \in T : i = walk.cursor \/ Rd!Before(walk.cursor, i)
    OBVIOUS
  <2>5. \A i \in Rd!Where : Rd!Before(walk.cursor, i) => i \in T
    OBVIOUS
  <2>6. ~touched => walk.cursor \in T
    BY <1>4 DEF ReadInv, SteadyIsAhead
  <2> HIDE DEF T, s, c
  <2>7. s \in Seq(T) /\ Len(s) = c
    BY <2>1, SeqDef
  <2>8. CASE c = 0
    <3>1. s = <<>> /\ ~(walk.cursor \in T) /\ \A k \in 1..c : FALSE
      BY <2>1, <2>7, <2>8
    <3>2. Rd!FromCursor = <<>> /\ touched
      BY <1>1, <2>2, <2>6, <3>1 DEF ReadShapes
    <3>3. <<>> \in [1..0 -> Rd!Where]
      OBVIOUS
    <3> QED  BY <3>2, <3>3
  <2>9. CASE c > 0
    <3> DEFINE F == Rd!FromCursor
               n == c - 1
    <3>1. F = Tail(s) /\ s # <<>>
      BY <2>2, <2>7, <2>9
    <3>2. n \in Nat /\ F \in [1..n -> T] /\ \A k \in 1..n : F[k] = s[k + 1] /\ k + 1 \in 1..c
      <4>1. Len(F) = n /\ F \in Seq(T) /\ n \in Nat /\ \A k \in 1..n : F[k] = s[k + 1]
        BY <2>1, <2>7, <2>9, <3>1
      <4> QED  BY <2>1, <2>9, <4>1
    <3> HIDE DEF F
    <3>3. \A k, m \in 1..n : k < m => Rd!Before(F[k], F[m])
      <4> SUFFICES ASSUME NEW k \in 1..n, NEW m \in 1..n, k < m PROVE Rd!Before(F[k], F[m])
        OBVIOUS
      <4>1. k + 1 \in 1..c /\ m + 1 \in 1..c /\ k + 1 < m + 1
        BY <3>2
      <4> QED  BY <2>1, <3>2, <4>1
    <3>4. ASSUME NEW k \in 1..n PROVE Rd!Before(walk.cursor, F[k])
      <4>1. 1 \in 1..c /\ k + 1 \in 1..c /\ 1 < k + 1
        BY <2>1, <2>9, <3>2
      <4>2. Rd!Before(s[1], F[k]) /\ s[1] \in T /\ F[k] \in T
        BY <2>1, <3>2, <4>1
      <4>3. s[1] = walk.cursor \/ Rd!Before(walk.cursor, s[1])
        BY <2>4, <4>2
      <4> QED  BY <1>1, <1>4, <2>3, <4>2, <4>3, ListOrder
    <3>5. ASSUME ~touched, NEW i \in Rd!Where, Rd!Before(walk.cursor, i)
          PROVE  \E k \in 1..n : F[k] = i
      <4>1. walk.cursor \in T /\ i \in T
        BY <2>5, <2>6, <3>5
      <4>2. PICK k \in 1..c, m \in 1..c : s[k] = i /\ s[m] = walk.cursor
        BY <2>1, <4>1
      <4>3. k # 1
        <5>1. i # walk.cursor /\ ~Rd!Before(i, walk.cursor)
          BY <1>1, <1>4, <2>3, <3>5, <4>1, ListOrder
        <5> QED  BY <2>1, <4>2, <5>1
      <4>4. k - 1 \in 1..n /\ (k - 1) + 1 = k
        BY <2>1, <4>2, <4>3
      <4> QED  BY <3>2, <4>2, <4>4
    <3>6. F \in [1..n -> Rd!Where]
      BY <2>3, <3>2
    <3> QED  BY <1>4, <3>2, <3>3, <3>4, <3>5, <3>6 DEF F
  <2> QED  BY <2>1, <2>8, <2>9
<1> QED  BY <1>2, <1>3, <1>4

LEMMA ReadsBeginWell == Rd!ReadsInit => ReadInv
<1> SUFFICES ASSUME Rd!ReadsInit PROVE ReadInv
  OBVIOUS
<1>1. /\ list \in {"datasets", "rules", "results"} /\ walk = Rd!NoWalk /\ steady = {} /\ touched = FALSE
      /\ listed \in [Ids -> {Fresh} \cup [owner: IF list = "datasets" THEN {"own", "platform", "other"}
                                                 ELSE {"own"}, sort: SortKeys, match: BOOLEAN]]
  BY DEF Rd!ReadsInit
<1>2. listed \in [Ids -> ListedRow \cup {Gone, Fresh}]
  BY <1>1 DEF ListedRow
<1>3. list # "datasets" => \A i \in Rd!RowIds : listed[i].owner = "own"
  BY <1>1 DEF Rd!RowIds
<1>4. PICK none \in Seq(Ids) : none = <<>>
  <2>1. <<>> \in Seq(Ids)
    OBVIOUS
  <2> QED  BY <2>1
<1>5. walk = [pc |-> "idle", limit |-> 0, search |-> FALSE, filter |-> FALSE, cursor |-> Gone,
              got |-> none]
  BY <1>1, <1>4 DEF Rd!NoWalk
<1>6. walk.pc = "idle" /\ walk.got = none /\ walk.cursor = Gone
  BY <1>5
<1>7. ~walk.search
  BY <1>5
<1>8. walk \in [pc: {"idle", "page", "done", "error"}, limit: Nat, search: BOOLEAN,
                filter: BOOLEAN, cursor: Ids \cup {Gone}, got: Seq(Ids)]
  BY <1>5
<1>9. ReadShapes
  <2>1. steady \subseteq Rd!RowIds /\ touched \in BOOLEAN /\ list \in {"datasets", "rules", "results"}
    BY <1>1
  <2> QED  BY <1>2, <1>3, <1>6, <1>7, <1>8, <2>1 DEF ReadShapes
<1>10. DOMAIN walk.got = {} /\ walk.got = <<>>
  BY <1>4, <1>6
<1>11. GotIsBefore
  BY <1>6, <1>10 DEF GotIsBefore
<1>12. SteadyIsAhead /\ Rd!PagesAreComplete
  BY <1>6, <1>10 DEF SteadyIsAhead, Rd!PagesAreComplete
<1> QED  BY <1>9, <1>11, <1>12 DEF ReadInv

LEMMA ReadsStutter == ASSUME ReadInv, UNCHANGED Rd!readVars PROVE ReadInv'
<1>1. /\ UNCHANGED <<list, listed, walk, steady, touched>> /\ Rd!RowIds' = Rd!RowIds
      /\ Rd!Where' = Rd!Where
  BY DEF Rd!readVars, Rd!RowIds, Rd!Where, Rd!InScope
<1> QED  BY <1>1 DEF ReadInv, ReadShapes, GotIsBefore, SteadyIsAhead, Rd!Before,
                     Rd!PagesAreComplete, Rd!ToSet

LEMMA BeginWalkStep == ASSUME ReadInv, Rd!BeginWalk PROVE ReadInv'
<1>1. PICK raw \in RawLimits, search \in BOOLEAN, filter \in BOOLEAN :
        /\ walk.pc = "idle" /\ (search => list = "datasets")
        /\ walk' = [Rd!NoWalk EXCEPT !.pc = "page", !.limit = Rd!clampLimit(raw),
                                     !.search = search, !.filter = filter]
        /\ steady' = {i \in Rd!RowIds : listed[i].owner # "other" /\ (filter => listed[i].match)}
        /\ UNCHANGED <<list, listed, touched>>
  BY DEF Rd!BeginWalk
<1>2. Rd!clampLimit(raw) \in Nat
  BY ReadsAssumption DEF Rd!clampLimit
<1>3. walk' = [pc |-> "page", limit |-> Rd!clampLimit(raw), search |-> search, filter |-> filter,
               cursor |-> Gone, got |-> <<>>]
  BY <1>1 DEF Rd!NoWalk
<1>4. ReadShapes
  BY DEF ReadInv
<1>5. Rd!RowIds' = Rd!RowIds
  BY <1>1 DEF Rd!RowIds
<1>6. ReadShapes'
  <2>1. PICK limit \in Nat : limit = Rd!clampLimit(raw)
    BY <1>2
  <2>2. PICK none \in Seq(Ids) : none = <<>>
    <3>1. <<>> \in Seq(Ids)
      OBVIOUS
    <3> QED  BY <3>1
  <2>3. walk' = [pc |-> "page", limit |-> limit, search |-> search, filter |-> filter,
                 cursor |-> Gone, got |-> none]
    BY <1>3, <2>1, <2>2
  <2>4. walk' \in [pc: {"idle", "page", "done", "error"}, limit: Nat, search: BOOLEAN,
                   filter: BOOLEAN, cursor: Ids \cup {Gone}, got: Seq(Ids)]
    BY <2>3
  <2>5. walk'.search => list' = "datasets"
    BY <1>1, <1>3
  <2>6. steady' \subseteq Rd!RowIds' /\ touched' \in BOOLEAN
    BY <1>1, <1>4, <1>5 DEF ReadShapes
  <2> QED  BY <1>1, <1>4, <1>5, <2>4, <2>5, <2>6 DEF ReadShapes
<1>7. steady' \subseteq Rd!Where'
  <2>1. ASSUME NEW i \in steady' PROVE i \in Rd!Where'
    <3>1. /\ i \in Rd!RowIds' /\ listed'[i].owner # "other" /\ (filter => listed'[i].match)
          /\ listed'[i] \in ListedRow
      BY <1>1, <1>4, <1>5, RowIdsAre
    <3>2. listed'[i].owner \in {"own", "platform"} /\ (list' # "datasets" => listed'[i].owner = "own")
      BY <1>6, <3>1 DEF ListedRow, ReadShapes
    <3> QED  BY <1>3, <3>1, <3>2 DEF Rd!Where, Rd!InScope
  <2> QED  BY <2>1
<1> QED  BY <1>3, <1>6, <1>7 DEF ReadInv, GotIsBefore, SteadyIsAhead, Rd!PagesAreComplete

\* The rows change under the walk: one row, in a way that the walk allows for.
LEMMA RowMovesStep ==
    ASSUME ReadInv, walk.pc = "page", UNCHANGED <<list, walk>>, NEW i \in Ids, NEW new,
           listed' = [listed EXCEPT ![i] = new],
           \/ /\ listed[i] = Fresh /\ new \in ListedRow /\ new.owner = "own"
              /\ UNCHANGED <<steady, touched>>
           \/ /\ listed[i] \in ListedRow
              /\ \/ new = Gone
                 \/ new \in ListedRow /\ new.sort = listed[i].sort /\ new.owner = listed[i].owner
              /\ \/ steady' = steady \ {i} /\ touched' = (touched \/ walk.cursor = i)
                 \/ new # Gone /\ ~walk.filter /\ UNCHANGED <<steady, touched>>
    PROVE  ReadInv'
<1>1. Gone \notin ListedRow /\ Fresh \notin ListedRow /\ Gone # Fresh
  BY GoneIsNoListed, ReadsAssumption DEF ListedRow
<1>2. /\ ReadShapes /\ listed \in [Ids -> ListedRow \cup {Gone, Fresh}]
      /\ Rd!RowIds = {j \in Ids : listed[j] \in ListedRow}
  BY RowIdsAre DEF ReadInv, ReadShapes
<1>3. /\ listed' \in [Ids -> ListedRow \cup {Gone, Fresh}] /\ listed'[i] = new
      /\ \A j \in Ids \ {i} : listed'[j] = listed[j]
  BY <1>2
<1>4. Rd!RowIds' = {j \in Ids : listed'[j] \in ListedRow}
  BY <1>1, <1>3 DEF Rd!RowIds
<1>5. \A j \in Rd!RowIds' \ {i} : j \in Rd!RowIds
  BY <1>2, <1>3, <1>4
<1>6. \A j \in Rd!RowIds \cap Rd!RowIds' : listed'[j].sort = listed[j].sort
                                           /\ listed'[j].owner = listed[j].owner
  BY <1>1, <1>2, <1>3, <1>4
<1>7. \A j, k \in Rd!RowIds \cap Rd!RowIds' : Rd!Before(j, k)' <=> Rd!Before(j, k)
  BY <1>6 DEF Rd!Before
<1>8. steady' \subseteq steady /\ steady' \subseteq Rd!RowIds' /\ touched' \in BOOLEAN
      /\ (touched => touched')
  BY <1>1, <1>2, <1>3, <1>4 DEF ReadShapes
<1>9. ReadShapes'
  BY <1>1, <1>2, <1>3, <1>4, <1>5, <1>6, <1>8 DEF ReadShapes
<1>10. \A j \in Ids : listed[j] # Fresh => listed'[j] # Fresh /\ (j \in Rd!RowIds' => j \in Rd!RowIds)
  BY <1>1, <1>2, <1>3, <1>4
<1>11. walk.got \in Seq(Ids) /\ walk.cursor \in Ids \cup {Gone} /\ walk' = walk
       /\ \A n \in DOMAIN walk.got : walk.got[n] \in Ids
  BY <1>2 DEF ReadShapes
<1>12. GotIsBefore'
  <2>1. GotIsBefore
    BY DEF ReadInv
  <2>2. \A n \in DOMAIN walk.got : listed'[walk.got[n]] # Fresh
    BY <1>10, <1>11, <2>1 DEF GotIsBefore
  <2>3. walk.cursor # Gone => listed'[walk.cursor] # Fresh
    BY <1>10, <1>11, <2>1 DEF GotIsBefore
  <2>4. ASSUME walk.cursor \in Rd!RowIds', NEW n \in DOMAIN walk.got, walk.got[n] \in Rd!RowIds'
        PROVE  walk.got[n] = walk.cursor \/ Rd!Before(walk.got[n], walk.cursor)'
    <3>1. walk.cursor \in Ids /\ walk.cursor # Gone
      BY <1>4, <2>4, ReadsAssumption
    <3>2. walk.cursor \in Rd!RowIds /\ walk.got[n] \in Rd!RowIds
      BY <1>10, <1>11, <2>1, <2>4, <3>1 DEF GotIsBefore
    <3>3. walk.got[n] = walk.cursor \/ Rd!Before(walk.got[n], walk.cursor)
      BY <2>1, <3>2 DEF GotIsBefore
    <3> QED  BY <1>7, <2>4, <3>2, <3>3
  <2> QED  BY <1>11, <2>1, <2>2, <2>3, <2>4 DEF GotIsBefore
<1>13. \A j \in Rd!Where \cap Rd!RowIds' :
           j # i \/ (new # Gone /\ listed[i] \in ListedRow /\ ~walk.filter) => j \in Rd!Where'
  <2> SUFFICES ASSUME NEW j \in Rd!Where \cap Rd!RowIds',
                      j # i \/ (new # Gone /\ listed[i] \in ListedRow /\ ~walk.filter)
               PROVE  j \in Rd!Where'
    OBVIOUS
  <2>1. j \in Rd!RowIds /\ Rd!InScope(j) /\ (walk.filter => listed[j].match)
    BY DEF Rd!Where
  <2>2. listed'[j].owner = listed[j].owner /\ (walk.filter => listed'[j].match)
    BY <1>3, <1>4, <1>6, <2>1
  <2> QED  BY <1>11, <2>1, <2>2 DEF Rd!Where, Rd!InScope
<1>14. SteadyIsAhead'
  <2>1. steady \subseteq Rd!Where /\ Rd!Where \subseteq Rd!RowIds
    BY DEF ReadInv, SteadyIsAhead, Rd!Where
  <2>2. steady' \subseteq Rd!Where'
    BY <1>1, <1>2, <1>8, <1>13, <2>1
  <2>3. ASSUME ~touched'
        PROVE  /\ walk.cursor # Gone => walk.cursor \in Rd!Where'
               /\ \A j \in steady' : \/ \E n \in DOMAIN walk.got : walk.got[n] = j
                                     \/ walk.cursor = Gone \/ Rd!Before(walk.cursor, j)'
    <3>1. /\ ~touched /\ (walk.cursor # Gone => walk.cursor \in Rd!Where)
          /\ \A j \in steady : \/ \E n \in DOMAIN walk.got : walk.got[n] = j
                               \/ walk.cursor = Gone \/ Rd!Before(walk.cursor, j)
      BY <1>8, <2>3 DEF ReadInv, SteadyIsAhead
    <3>2. ASSUME walk.cursor # Gone PROVE walk.cursor \in Rd!RowIds' /\ walk.cursor \in Rd!Where'
      <4>1. walk.cursor \in Rd!Where /\ walk.cursor \in Ids /\ listed[walk.cursor] \in ListedRow
        BY <1>2, <2>1, <3>1, <3>2
      <4>2. walk.cursor # i \/ (new # Gone /\ listed[i] \in ListedRow /\ ~walk.filter)
        BY <1>1, <2>3, <4>1
      <4>3. walk.cursor \in Rd!RowIds'
        BY <1>1, <1>3, <1>4, <4>1, <4>2
      <4> QED  BY <1>13, <4>1, <4>2, <4>3
    <3>3. \A j \in steady' : j \in steady /\ j \in Rd!RowIds \cap Rd!RowIds'
      BY <1>8, <2>1
    <3>4. walk.cursor # Gone => walk.cursor \in Rd!RowIds \cap Rd!RowIds'
      BY <2>1, <3>1, <3>2
    <3> QED  BY <1>7, <3>1, <3>2, <3>3, <3>4
  <2> QED  BY <1>11, <2>2, <2>3 DEF SteadyIsAhead
<1>15. Rd!PagesAreComplete'
  BY <1>11 DEF ReadInv, Rd!PagesAreComplete
<1> QED  BY <1>9, <1>12, <1>14, <1>15 DEF ReadInv
\* A sequence is followed by the first so many of another one.
Received(s, f, t) == s \o SubSeq(f, 1, t)

LEMMA FollowedBy ==
    ASSUME NEW S, NEW s \in Seq(S), NEW f \in Seq(S), NEW t \in 0..Len(f)
    PROVE  /\ Received(s, f, t) \in Seq(S) /\ Len(Received(s, f, t)) = Len(s) + t
           /\ \A k \in 1..Len(s) : Received(s, f, t)[k] = s[k]
           /\ \A k \in 1..t : /\ Received(s, f, t)[Len(s) + k] = f[k]
                              /\ Len(s) + k \in DOMAIN Received(s, f, t)
           /\ \A k \in DOMAIN Received(s, f, t) :
                  \/ k \in DOMAIN s
                  \/ \E m \in 1..t : k = Len(s) + m /\ Received(s, f, t)[k] = f[m]
<1>0. PICK new : new = Received(s, f, t)
  OBVIOUS
<1>1. PICK part1 : part1 = SubSeq(f, 1, t)
  OBVIOUS
<1>2. /\ t \in Nat /\ Len(s) \in Nat /\ Len(f) \in Nat /\ t <= Len(f)
      /\ DOMAIN s = 1..Len(s) /\ DOMAIN f = 1..Len(f)
  OBVIOUS
<1>3. \A k \in 1..t : f[k] \in S
  <2> SUFFICES ASSUME NEW k \in 1..t PROVE f[k] \in S
    OBVIOUS
  <2>1. k \in 1..Len(f)
    BY <1>2
  <2> QED  BY <2>1, ElementOfSeq
<1>4. part1 \in Seq(S) /\ Len(part1) = t /\ \A k \in 1..t : part1[k] = f[k]
  <2>1. /\ SubSeq(f, 1, t) \in Seq(S) /\ Len(SubSeq(f, 1, t)) = IF 1 <= t THEN t - 1 + 1 ELSE 0
        /\ \A i \in 1..(t - 1 + 1) : SubSeq(f, 1, t)[i] = f[1 + i - 1]
    BY <1>2, <1>3, SubSeqProperties
  <2> QED  BY <1>1, <1>2, <2>1
<1>5. new = s \o part1
  BY <1>0, <1>1 DEF Received
<1>6. /\ new \in Seq(S) /\ Len(new) = Len(s) + t
      /\ \A k \in 1..(Len(s) + t) : new[k] = IF k <= Len(s) THEN s[k] ELSE part1[k - Len(s)]
  BY <1>4, <1>5, ConcatProperties
<1>7. DOMAIN new = 1..(Len(s) + t)
  BY <1>6
<1>8. \A k \in 1..Len(s) : new[k] = s[k]
  BY <1>2, <1>6
<1>9. ASSUME NEW k \in 1..t PROVE new[Len(s) + k] = f[k] /\ Len(s) + k \in DOMAIN new
  <2>1. Len(s) + k \in 1..(Len(s) + t) /\ ~(Len(s) + k <= Len(s)) /\ Len(s) + k - Len(s) = k
    BY <1>2
  <2> QED  BY <1>4, <1>6, <1>7, <2>1
<1>10. ASSUME NEW k \in DOMAIN new, k \notin DOMAIN s
       PROVE  \E m \in 1..t : k = Len(s) + m /\ new[k] = f[m]
  <2>1. k - Len(s) \in 1..t /\ k = Len(s) + (k - Len(s)) /\ k \in 1..(Len(s) + t) /\ ~(k <= Len(s))
    BY <1>2, <1>7, <1>10
  <2> QED  BY <1>4, <1>6, <2>1
<1> QED  BY <1>0, <1>6, <1>8, <1>9, <1>10

\* Part of a sequence, and part of that part.
LEMMA FirstRows ==
    ASSUME NEW S, NEW f \in Seq(S), NEW t \in 0..Len(f), NEW new, new = SubSeq(f, 1, t)
    PROVE  new \in Seq(S) /\ Len(new) = t /\ \A k \in 1..t : new[k] = f[k]
<1>2. t \in Nat /\ Len(f) \in Nat /\ t <= Len(f) /\ DOMAIN f = 1..Len(f)
  OBVIOUS
<1>3. \A k \in 1..t : f[k] \in S
  <2> SUFFICES ASSUME NEW k \in 1..t PROVE f[k] \in S
    OBVIOUS
  <2>1. k \in 1..Len(f)
    BY <1>2
  <2> QED  BY <2>1, ElementOfSeq
<1>4. /\ SubSeq(f, 1, t) \in Seq(S) /\ Len(SubSeq(f, 1, t)) = IF 1 <= t THEN t - 1 + 1 ELSE 0
      /\ \A i \in 1..(t - 1 + 1) : SubSeq(f, 1, t)[i] = f[1 + i - 1]
  BY <1>2, <1>3, SubSeqProperties
<1> QED  BY <1>2, <1>4

\* When both are without repetition and have nothing in common, so is the whole.
LEMMA ReceivedOnce ==
    ASSUME NEW S, NEW s \in Seq(S), NEW f \in Seq(S), NEW t \in 0..Len(f),
           \A k, m \in DOMAIN s : s[k] = s[m] => k = m,
           \A k, m \in 1..Len(f) : f[k] = f[m] => k = m,
           \A k \in DOMAIN s : \A m \in 1..Len(f) : s[k] # f[m]
    PROVE  \A k, m \in DOMAIN Received(s, f, t) :
               Received(s, f, t)[k] = Received(s, f, t)[m] => k = m
<1>0. PICK new : new = Received(s, f, t)
  OBVIOUS
<1>1. /\ \A k \in DOMAIN s : new[k] = s[k]
      /\ \A k \in DOMAIN new : \/ k \in DOMAIN s
                               \/ \E m \in 1..t : k = Len(s) + m /\ new[k] = f[m]
  <2>0. DOMAIN s = 1..Len(s)
    OBVIOUS
  <2>1. \A k \in 1..Len(s) : Received(s, f, t)[k] = s[k]
    BY ONLY s \in Seq(S), f \in Seq(S), t \in 0..Len(f), FollowedBy
  <2>2. \A k \in DOMAIN Received(s, f, t) :
            \/ k \in DOMAIN s
            \/ \E m \in 1..t : k = Len(s) + m /\ Received(s, f, t)[k] = f[m]
    BY ONLY s \in Seq(S), f \in Seq(S), t \in 0..Len(f), FollowedBy
  <2> QED  BY <1>0, <2>0, <2>1, <2>2
<1>2. \A k \in 1..t : k \in 1..Len(f)
  OBVIOUS
<1> SUFFICES ASSUME NEW k \in DOMAIN new, NEW m \in DOMAIN new, new[k] = new[m] PROVE k = m
  BY <1>0
<1>3. CASE k \in DOMAIN s /\ m \in DOMAIN s
  BY <1>1, <1>3
<1>4. CASE k \in DOMAIN s /\ m \notin DOMAIN s
  BY <1>1, <1>2, <1>4
<1>5. CASE k \notin DOMAIN s /\ m \in DOMAIN s
  BY <1>1, <1>2, <1>5
<1>6. CASE k \notin DOMAIN s /\ m \notin DOMAIN s
  <2>1. PICK p \in 1..t : k = Len(s) + p /\ new[k] = f[p]
    BY <1>1, <1>6
  <2>2. PICK q \in 1..t : m = Len(s) + q /\ new[m] = f[q]
    BY <1>1, <1>6
  <2>3. p = q
    BY <1>2, <2>1, <2>2
  <2> QED  BY <2>1, <2>2, <2>3
<1> QED  BY <1>3, <1>4, <1>5, <1>6

\* What a page of at most limit rows is, when one row more was asked for.
RowsAsked(f, limit) == SubSeq(f, 1, IF Len(f) <= limit THEN Len(f) ELSE limit + 1)
PageData(f, limit) == SubSeq(RowsAsked(f, limit), 1, limit)

LEMMA PageOfRows ==
    ASSUME NEW S, NEW f \in Seq(S), NEW limit \in Nat
    PROVE  /\ Len(f) <= limit => /\ Len(RowsAsked(f, limit)) <= limit
                                 /\ RowsAsked(f, limit) = SubSeq(f, 1, Len(f))
           /\ Len(f) > limit => /\ Len(RowsAsked(f, limit)) = limit + 1
                                /\ PageData(f, limit) = SubSeq(f, 1, limit)
                                /\ limit > 0 => /\ PageData(f, limit) # <<>>
                                                /\ Rd!Last(PageData(f, limit)) = f[limit]
                                /\ limit = 0 => PageData(f, limit) = <<>>
<1>0. PICK rows, data : rows = RowsAsked(f, limit) /\ data = PageData(f, limit)
  OBVIOUS
<1>3. /\ rows = SubSeq(f, 1, IF Len(f) <= limit THEN Len(f) ELSE limit + 1)
      /\ data = SubSeq(rows, 1, limit)
  BY <1>0 DEF RowsAsked, PageData
<1>1. CASE Len(f) <= limit
  <2>1. rows = SubSeq(f, 1, Len(f)) /\ Len(f) \in 0..Len(f)
    BY <1>1, <1>3
  <2>2. Len(rows) = Len(f)
    BY <2>1, FirstRows
  <2>3. ~(Len(f) > limit)
    BY <1>1
  <2>4. Len(rows) <= limit
    BY <1>1, <2>2
  <2> QED  BY <1>0, <2>1, <2>3, <2>4, Zenon
<1>2. CASE Len(f) > limit
  <2>1. rows = SubSeq(f, 1, limit + 1) /\ limit + 1 \in 0..Len(f) /\ limit \in 0..Len(f)
    BY <1>2, <1>3
  <2>2. rows \in Seq(S) /\ Len(rows) = limit + 1 /\ \A k \in 1..(limit + 1) : rows[k] = f[k]
    BY <2>1, FirstRows
  <2>3. limit \in 0..Len(rows)
    BY <2>2
  <2>4. data \in Seq(S) /\ Len(data) = limit /\ \A k \in 1..limit : data[k] = rows[k]
    BY <1>3, <2>2, <2>3, FirstRows
  <2>5. PICK part1 : part1 = SubSeq(f, 1, limit)
    OBVIOUS
  <2>6. part1 \in Seq(S) /\ Len(part1) = limit /\ \A k \in 1..limit : part1[k] = f[k]
    BY <2>1, <2>5, FirstRows
  <2>7. \A k \in 1..limit : data[k] = f[k]
    BY <2>2, <2>4
  <2>8. data = part1
    <3>1. Len(data) = Len(part1) /\ \A k \in 1..Len(data) : data[k] = part1[k]
      BY <2>4, <2>6, <2>7
    <3> QED  BY ONLY <2>4, <2>6, <3>1, SeqEqual
  <2>9. limit > 0 => data # <<>> /\ Rd!Last(data) = f[limit]
    <3> SUFFICES ASSUME limit > 0 PROVE data # <<>> /\ Rd!Last(data) = f[limit]
      OBVIOUS
    <3>1. limit \in 1..limit
      OBVIOUS
    <3>2. Rd!Last(data) = data[limit]
      BY <2>4 DEF Rd!Last
    <3>3. Len(<<>>) = 0
      OBVIOUS
    <3>4. ASSUME data = <<>> PROVE FALSE
      <4>1. limit = 0
        BY ONLY <2>4, <3>3, <3>4
      <4> QED  BY <3>1, <4>1
    <3> QED  BY <2>7, <3>1, <3>2, <3>4
  <2>10. limit = 0 => data = <<>>
    BY <2>4
  <2>11. ~(Len(f) <= limit)
    BY <1>2
  <2> QED  BY <1>0, <2>2, <2>5, <2>8, <2>9, <2>10, <2>11, Zenon
<1> QED  BY <1>0, <1>1, <1>2

LEMMA FetchPageStep == ASSUME ReadInv, Rd!FetchPage PROVE ReadInv'
<1> DEFINE limit == walk.limit
<1>1. PICK F, rows, data :
        /\ F = Rd!FromCursor
        /\ rows = SubSeq(F, 1, IF Len(F) <= limit THEN Len(F) ELSE limit + 1)
        /\ data = SubSeq(rows, 1, limit)
        /\ walk.pc = "page" /\ UNCHANGED <<list, listed, steady, touched>>
        /\ walk' = IF Len(rows) <= limit THEN [walk EXCEPT !.pc = "done", !.got = walk.got \o rows]
                   ELSE IF data = <<>> THEN [walk EXCEPT !.pc = "error"]
                   ELSE [walk EXCEPT !.cursor = Rd!Last(data), !.got = walk.got \o data]
  BY DEF Rd!FetchPage
<1>2. PICK n \in Nat :
        /\ F \in [1..n -> Rd!Where]
        /\ \A k, m \in 1..n : k < m => Rd!Before(F[k], F[m])
        /\ \A k \in 1..n : \/ walk.cursor = Gone
                           \/ walk.cursor \in Rd!RowIds /\ Rd!Before(walk.cursor, F[k])
        /\ ~touched => \A i \in Rd!Where : walk.cursor = Gone \/ Rd!Before(walk.cursor, i) =>
               \E k \in 1..n : F[k] = i
  BY <1>1, FromCursorLists
<1>3. /\ ReadShapes /\ limit \in Nat /\ walk.got \in Seq(Ids) /\ walk.cursor \in Ids \cup {Gone}
      /\ Rd!Where \subseteq Rd!RowIds /\ Rd!RowIds \subseteq Ids
  BY DEF ReadInv, ReadShapes, Rd!Where, Rd!RowIds
<1>4. F \in Seq(Ids) /\ Len(F) = n /\ \A k \in 1..n : F[k] \in Rd!RowIds
  <2>1. F \in [1..n -> Ids]
    BY <1>2, <1>3
  <2> QED  BY <1>2, <1>3, <2>1, SeqDef
\* What is received is new.
<1>5. ASSUME NEW k \in DOMAIN walk.got, NEW m \in 1..n PROVE walk.got[k] # F[m]
  <2>1. walk.cursor # Gone
    BY <1>1, <1>3 DEF ReadInv, GotIsBefore
  <2>2. walk.cursor \in Rd!RowIds /\ Rd!Before(walk.cursor, F[m]) /\ F[m] \in Rd!RowIds
    BY <1>2, <1>4, <2>1
  <2>3. F[m] # walk.cursor /\ ~Rd!Before(F[m], walk.cursor)
    BY <1>3, <2>2, ListOrder
  <2> QED  BY <1>1, <2>2, <2>3 DEF ReadInv, GotIsBefore
<1>6. \A k, m \in 1..n : F[k] = F[m] => k = m
  <2> SUFFICES ASSUME NEW k \in 1..n, NEW m \in 1..n, k # m PROVE F[k] # F[m]
    OBVIOUS
  <2>1. k < m \/ m < k
    OBVIOUS
  <2>2. Rd!Before(F[k], F[m]) \/ Rd!Before(F[m], F[k])
    BY <1>2, <2>1
  <2> QED  BY <1>3, <1>4, <2>2, ListOrder
\* Of the rows from the cursor on, the first so many are received.
<1>7. PICK t \in 0..n : t = IF n <= limit THEN n ELSE limit
  BY <1>2, <1>3
<1>8. PICK s \in Seq(Ids) : s = walk.got
  BY <1>3
<1>9. PICK got1 : got1 = Received(s, F, t)
  OBVIOUS
<1>12. /\ got1 \in Seq(Ids) /\ Len(got1) = Len(s) + t /\ n \in Nat /\ t \in Nat /\ Len(s) \in Nat
       /\ \A k \in DOMAIN s : got1[k] = s[k] /\ k \in DOMAIN got1
       /\ \A k \in 1..t : got1[Len(s) + k] = F[k] /\ Len(s) + k \in DOMAIN got1
       /\ \A k \in DOMAIN got1 : \/ k \in DOMAIN s
                                 \/ \E m \in 1..t : k = Len(s) + m /\ got1[k] = F[m]
       /\ \A k, m \in DOMAIN got1 : got1[k] = got1[m] => k = m
  <2>1. t \in 0..Len(F)
    BY <1>4
  <2>2. /\ Received(s, F, t) \in Seq(Ids) /\ Len(Received(s, F, t)) = Len(s) + t
        /\ \A k \in 1..Len(s) : Received(s, F, t)[k] = s[k]
        /\ \A k \in 1..t : /\ Received(s, F, t)[Len(s) + k] = F[k]
                           /\ Len(s) + k \in DOMAIN Received(s, F, t)
        /\ \A k \in DOMAIN Received(s, F, t) :
               \/ k \in DOMAIN s
               \/ \E m \in 1..t : k = Len(s) + m /\ Received(s, F, t)[k] = F[m]
    <3>1. F \in Seq(Ids)
      BY <1>4
    <3>2. Received(s, F, t) \in Seq(Ids) /\ Len(Received(s, F, t)) = Len(s) + t
      BY ONLY <2>1, <3>1, s \in Seq(Ids), FollowedBy
    <3>3. \A k \in 1..Len(s) : Received(s, F, t)[k] = s[k]
      BY ONLY <2>1, <3>1, s \in Seq(Ids), FollowedBy
    <3>4. \A k \in 1..t : /\ Received(s, F, t)[Len(s) + k] = F[k]
                          /\ Len(s) + k \in DOMAIN Received(s, F, t)
      BY ONLY <2>1, <3>1, s \in Seq(Ids), FollowedBy
    <3>5. \A k \in DOMAIN Received(s, F, t) :
              \/ k \in DOMAIN s
              \/ \E m \in 1..t : k = Len(s) + m /\ Received(s, F, t)[k] = F[m]
      BY ONLY <2>1, <3>1, s \in Seq(Ids), FollowedBy
    <3> QED  BY <3>2, <3>3, <3>4, <3>5
  <2>3. /\ \A k, m \in DOMAIN s : s[k] = s[m] => k = m
        /\ \A k, m \in 1..Len(F) : F[k] = F[m] => k = m
        /\ \A k \in DOMAIN s : \A m \in 1..Len(F) : s[k] # F[m]
    BY <1>4, <1>5, <1>6, <1>8 DEF ReadInv, Rd!PagesAreComplete
  <2>4. \A k, m \in DOMAIN Received(s, F, t) :
            Received(s, F, t)[k] = Received(s, F, t)[m] => k = m
    BY <1>4, <2>1, <2>3, ReceivedOnce
  <2>5. /\ got1 \in Seq(Ids) /\ Len(got1) = Len(s) + t
        /\ \A k \in DOMAIN s : got1[k] = s[k]
        /\ \A k \in 1..t : got1[Len(s) + k] = F[k] /\ Len(s) + k \in DOMAIN got1
        /\ \A k \in DOMAIN got1 : \/ k \in DOMAIN s
                                  \/ \E m \in 1..t : k = Len(s) + m /\ got1[k] = F[m]
        /\ \A k, m \in DOMAIN got1 : got1[k] = got1[m] => k = m
    <3>1. DOMAIN s = 1..Len(s)
      OBVIOUS
    <3> QED  BY <1>9, <2>2, <2>4, <3>1
  <2>6. n \in Nat /\ t \in Nat /\ Len(s) \in Nat
    BY <1>2, <1>7
  <2>7. ASSUME NEW k \in DOMAIN s PROVE k \in DOMAIN got1
    <3>1. k \in 1..Len(s) /\ DOMAIN got1 = 1..(Len(s) + t)
      BY <2>5
    <3> QED  BY <2>6, <3>1
  <2> QED  BY <2>5, <2>6, <2>7
<1>13. /\ \A k \in DOMAIN walk.got : got1[k] = walk.got[k] /\ k \in DOMAIN got1
       /\ \A k \in DOMAIN got1 : k \in DOMAIN walk.got \/ \E m \in 1..t : got1[k] = F[m]
       /\ \A k \in DOMAIN got1 : listed[got1[k]] # Fresh
       /\ \A k \in 1..t : \E p \in DOMAIN got1 : got1[p] = F[k]
  <2>1. /\ \A k \in DOMAIN walk.got : got1[k] = walk.got[k] /\ k \in DOMAIN got1
        /\ \A k \in DOMAIN got1 : k \in DOMAIN walk.got \/ \E m \in 1..t : got1[k] = F[m]
        /\ \A k \in 1..t : \E p \in DOMAIN got1 : got1[p] = F[k]
    BY <1>8, <1>12
  <2>2. \A k \in DOMAIN walk.got : listed[walk.got[k]] # Fresh
    BY DEF ReadInv, GotIsBefore
  <2>3. \A k \in 1..t : listed[F[k]] # Fresh
    BY <1>2, <1>4, <1>7 DEF Rd!RowIds
  <2> QED  BY <2>1, <2>2, <2>3
<1>14. /\ n <= limit => Len(rows) <= limit /\ walk.got \o rows = got1 /\ t = n
       /\ n > limit => /\ Len(rows) = limit + 1 /\ walk.got \o data = got1 /\ t = limit
                       /\ limit > 0 => data # <<>> /\ Rd!Last(data) = F[limit]
                       /\ limit = 0 => data = <<>>
  <2>1. /\ Len(F) <= limit => Len(rows) <= limit /\ rows = SubSeq(F, 1, Len(F))
        /\ Len(F) > limit => /\ Len(rows) = limit + 1 /\ data = SubSeq(F, 1, limit)
                             /\ limit > 0 => data # <<>> /\ Rd!Last(data) = F[limit]
                             /\ limit = 0 => data = <<>>
    <3>1. F \in Seq(Ids) /\ limit \in Nat
      BY <1>3, <1>4
    <3>2. rows = RowsAsked(F, limit) /\ data = PageData(F, limit)
      BY <1>1 DEF RowsAsked, PageData
    <3> QED  BY <3>1, <3>2, PageOfRows
  <2>2. (n <= limit => t = n) /\ (n > limit => t = limit) /\ n \in Nat /\ limit \in Nat
    BY <1>2, <1>3, <1>7
  <2>3. n <= limit => walk.got \o rows = got1
    BY <1>4, <1>8, <1>9, <2>1, <2>2 DEF Received
  <2>4. n > limit => walk.got \o data = got1
    BY <1>4, <1>8, <1>9, <2>1, <2>2 DEF Received
  <2> QED  BY <1>4, <2>1, <2>2, <2>3, <2>4
<1>15. /\ Rd!RowIds' = Rd!RowIds /\ (walk'.search = walk.search /\ walk'.filter = walk.filter =>
                                      Rd!Where' = Rd!Where)
       /\ \A i, j : Rd!Before(i, j)' <=> Rd!Before(i, j)
  BY <1>1 DEF Rd!RowIds, Rd!Where, Rd!InScope, Rd!Before
<1>16. walk = [pc |-> "page", limit |-> limit, search |-> walk.search, filter |-> walk.filter,
               cursor |-> walk.cursor, got |-> walk.got]
  BY <1>1, <1>3 DEF ReadShapes
<1>17. CASE n <= limit
  <2>1. walk' = [walk EXCEPT !.pc = "done", !.got = got1]
    BY <1>1, <1>14, <1>17
  <2>2. walk' = [pc |-> "done", limit |-> limit, search |-> walk.search, filter |-> walk.filter,
                 cursor |-> walk.cursor, got |-> got1]
    BY <1>16, <2>1
  <2>3. ~touched => steady \subseteq Rd!ToSet(got1)
    <3> SUFFICES ASSUME ~touched, NEW i \in steady PROVE \E k \in DOMAIN got1 : got1[k] = i
      BY DEF Rd!ToSet
    <3>1. i \in Rd!Where /\ (\/ \E k \in DOMAIN walk.got : walk.got[k] = i
                             \/ walk.cursor = Gone \/ Rd!Before(walk.cursor, i))
      BY <1>1 DEF ReadInv, SteadyIsAhead
    <3>2. CASE \E k \in DOMAIN walk.got : walk.got[k] = i
      BY <1>13, <3>2
    <3>3. CASE walk.cursor = Gone \/ Rd!Before(walk.cursor, i)
      <4>1. PICK k \in 1..n : F[k] = i
        BY <1>2, <3>1, <3>3
      <4> QED  BY <1>13, <1>14, <1>17, <4>1
    <3> QED  BY <3>1, <3>2, <3>3
  <2>4. walk' \in [pc: {"idle", "page", "done", "error"}, limit: Nat, search: BOOLEAN,
                  filter: BOOLEAN, cursor: Ids \cup {Gone}, got: Seq(Ids)]
    BY <1>3, <1>12, <2>2 DEF ReadShapes
  <2>5. /\ walk'.pc = "done" /\ walk'.got = got1 /\ walk'.search = walk.search
        /\ walk'.cursor = walk.cursor
    BY <2>2
  <2>6. ReadShapes'
    BY <1>1, <1>3, <1>15, <2>4, <2>5 DEF ReadShapes
  <2>7. GotIsBefore'
    <3>1. walk'.cursor # Gone => listed'[walk'.cursor] # Fresh
      BY <1>1, <2>5 DEF ReadInv, GotIsBefore
    <3>2. \A k \in DOMAIN walk'.got : listed'[walk'.got[k]] # Fresh
      BY <1>1, <1>13, <2>5
    <3> QED  BY <2>5, <3>1, <3>2 DEF GotIsBefore
  <2>8. SteadyIsAhead'
    BY <2>5 DEF SteadyIsAhead
  <2>9. Rd!PagesAreComplete'
    <3>1. \A k, m \in DOMAIN walk'.got : walk'.got[k] = walk'.got[m] => k = m
      BY <1>12, <2>5
    <3>2. ~touched' => steady' \subseteq Rd!ToSet(walk'.got)
      BY <1>1, <2>3, <2>5
    <3> QED  BY <2>5, <3>1, <3>2 DEF Rd!PagesAreComplete, Rd!ToSet
  <2> QED  BY <2>6, <2>7, <2>8, <2>9 DEF ReadInv
<1>18. CASE n > limit /\ limit = 0
  <2>1. walk' = [walk EXCEPT !.pc = "error"]
    BY <1>1, <1>14, <1>18
  <2>2. walk' = [pc |-> "error", limit |-> limit, search |-> walk.search, filter |-> walk.filter,
                 cursor |-> walk.cursor, got |-> walk.got]
    BY <1>16, <2>1
  <2>3. walk' \in [pc: {"idle", "page", "done", "error"}, limit: Nat, search: BOOLEAN,
                  filter: BOOLEAN, cursor: Ids \cup {Gone}, got: Seq(Ids)]
    BY <1>3, <2>2 DEF ReadShapes
  <2>4. /\ walk'.pc = "error" /\ walk'.got = walk.got /\ walk'.search = walk.search
        /\ walk'.cursor = walk.cursor /\ walk'.limit = 0
    BY <1>18, <2>2
  <2>5. ReadShapes'
    BY <1>1, <1>3, <1>15, <2>3, <2>4 DEF ReadShapes
  <2>6. GotIsBefore'
    BY <1>1, <2>4 DEF ReadInv, GotIsBefore
  <2>7. SteadyIsAhead'
    BY <2>4 DEF SteadyIsAhead
  <2>8. Rd!PagesAreComplete'
    <3>1. \A k, m \in DOMAIN walk'.got : walk'.got[k] = walk'.got[m] => k = m
      BY <2>4 DEF ReadInv, Rd!PagesAreComplete
    <3> QED  BY <2>4, <3>1 DEF Rd!PagesAreComplete
  <2> QED  BY <2>5, <2>6, <2>7, <2>8 DEF ReadInv
<1>19. CASE n > limit /\ limit > 0
  <2>1. limit \in 1..n /\ t = limit
    BY <1>2, <1>3, <1>14, <1>19
  <2>2. PICK last : last = F[limit] /\ last \in Rd!RowIds
    BY <1>4, <2>1
  <2>3. data # <<>> /\ ~(Len(rows) <= limit) /\ Rd!Last(data) = last /\ walk.got \o data = got1
    BY <1>3, <1>14, <1>19, <2>2
  <2>4. walk' = [walk EXCEPT !.cursor = last, !.got = got1]
    BY <1>1, <2>3
  <2>5. walk' = [pc |-> "page", limit |-> limit, search |-> walk.search, filter |-> walk.filter,
                 cursor |-> last, got |-> got1]
    <3>1. PICK w, p, l, r, f, c, g :
              /\ w = walk /\ p = "page" /\ l = limit /\ r = walk.search /\ f = walk.filter
              /\ c = walk.cursor /\ g = walk.got
      OBVIOUS
    <3>2. w = [pc |-> p, limit |-> l, search |-> r, filter |-> f, cursor |-> c, got |-> g]
      BY <1>16, <3>1
    <3>3. PICK w1 : w1 = [w EXCEPT !.cursor = last]
      OBVIOUS
    <3>4. w1 = [pc |-> p, limit |-> l, search |-> r, filter |-> f, cursor |-> last, got |-> g]
      BY ONLY <3>2, <3>3
    <3>5. [w EXCEPT !.cursor = last, !.got = got1] = [w1 EXCEPT !.got = got1]
      BY ONLY <3>3, Zenon
    <3>6. [w1 EXCEPT !.got = got1]
            = [pc |-> p, limit |-> l, search |-> r, filter |-> f, cursor |-> last, got |-> got1]
      BY ONLY <3>4
    <3> QED  BY <2>4, <3>1, <3>5, <3>6
  <2>6. walk' \in [pc: {"idle", "page", "done", "error"}, limit: Nat, search: BOOLEAN,
                  filter: BOOLEAN, cursor: Ids \cup {Gone}, got: Seq(Ids)]
    BY <1>3, <1>12, <2>2, <2>5 DEF ReadShapes
  <2>7. /\ walk'.pc = "page" /\ walk'.got = got1 /\ walk'.search = walk.search
        /\ walk'.filter = walk.filter /\ walk'.cursor = last
    BY <2>5
  <2>8. ReadShapes'
    BY <1>1, <1>3, <1>15, <2>6, <2>7 DEF ReadShapes
  <2>9. last # Gone /\ listed[last] # Fresh /\ last \in Rd!Where
    BY <1>2, <1>3, <2>1, <2>2, ReadsAssumption DEF Rd!RowIds
  <2>10. \A k \in 1..n : k < limit => Rd!Before(F[k], last)
    BY <1>2, <2>1, <2>2
  <2>11. GotIsBefore'
    <3>1. ASSUME NEW k \in DOMAIN got1
          PROVE  /\ listed[got1[k]] # Fresh
                 /\ got1[k] \in Rd!RowIds => got1[k] = last \/ Rd!Before(got1[k], last)
      <4>1. CASE k \in DOMAIN walk.got
        <5>1. got1[k] = walk.got[k] /\ listed[walk.got[k]] # Fresh
          BY <1>13, <4>1 DEF ReadInv, GotIsBefore
        <5>2. walk.cursor # Gone /\ walk.cursor \in Rd!RowIds /\ Rd!Before(walk.cursor, last)
          BY <1>1, <1>2, <1>3, <2>1, <2>2, <4>1 DEF ReadInv, GotIsBefore
        <5>3. walk.got[k] \in Rd!RowIds => walk.got[k] = walk.cursor \/ Rd!Before(walk.got[k], walk.cursor)
          BY <1>1, <4>1, <5>2 DEF ReadInv, GotIsBefore
        <5> QED  BY <1>3, <2>2, <5>1, <5>2, <5>3, ListOrder
      <4>2. CASE k \notin DOMAIN walk.got
        <5>1. PICK m \in 1..limit : got1[k] = F[m]
          BY <1>13, <2>1, <4>2
        <5>2. m \in 1..n /\ (m = limit \/ m < limit)
          BY <2>1
        <5>3. F[m] \in Rd!RowIds /\ listed[F[m]] # Fresh
          BY <1>4, <5>2 DEF Rd!RowIds
        <5> QED  BY <2>2, <2>10, <5>1, <5>2, <5>3
      <4> QED  BY <4>1, <4>2
    <3> QED  BY <1>1, <1>15, <2>7, <2>9, <3>1 DEF GotIsBefore
  <2>12. SteadyIsAhead'
    <3>1. Rd!Where' = Rd!Where
      BY <1>15, <2>7
    <3>2. steady \subseteq Rd!Where
      BY <1>1 DEF ReadInv, SteadyIsAhead
    <3>3. ASSUME ~touched, NEW i \in steady
          PROVE  (\E k \in DOMAIN got1 : got1[k] = i) \/ Rd!Before(last, i)
      <4>1. \/ \E k \in DOMAIN walk.got : walk.got[k] = i
            \/ walk.cursor = Gone \/ Rd!Before(walk.cursor, i)
        BY <1>1, <3>3 DEF ReadInv, SteadyIsAhead
      <4>2. CASE \E k \in DOMAIN walk.got : walk.got[k] = i
        BY <1>13, <4>2
      <4>3. CASE walk.cursor = Gone \/ Rd!Before(walk.cursor, i)
        <5>1. PICK k \in 1..n : F[k] = i
          BY <1>2, <3>2, <3>3, <4>3
        <5>2. CASE k <= limit
          BY <1>13, <2>1, <5>1, <5>2
        <5>3. CASE k > limit
          BY <1>2, <2>1, <2>2, <5>1, <5>3
        <5> QED  BY <2>1, <5>2, <5>3
      <4> QED  BY <4>1, <4>2, <4>3
    <3> QED  BY <1>1, <1>15, <2>7, <2>9, <3>1, <3>2, <3>3 DEF SteadyIsAhead
  <2>13. Rd!PagesAreComplete'
    BY <1>12, <2>7 DEF Rd!PagesAreComplete
  <2> QED  BY <2>8, <2>11, <2>12, <2>13 DEF ReadInv
<1> QED  BY <1>2, <1>3, <1>17, <1>18, <1>19
LEMMA InsertRowStep == ASSUME ReadInv, Rd!InsertRow PROVE ReadInv'
<1>1. PICK i \in Ids, s \in SortKeys :
        /\ walk.pc = "page" /\ listed[i] = Fresh
        /\ listed' = [listed EXCEPT ![i] = [owner |-> "own", sort |-> s, match |-> TRUE]]
        /\ UNCHANGED <<list, walk, steady, touched>>
  BY DEF Rd!InsertRow
<1>2. PICK new : new = [owner |-> "own", sort |-> s, match |-> TRUE]
  OBVIOUS
<1>3. new \in ListedRow /\ new.owner = "own"
  BY <1>2 DEF ListedRow
<1>4. listed' = [listed EXCEPT ![i] = new]
  BY <1>1, <1>2
<1> QED  BY <1>1, <1>3, <1>4, RowMovesStep

LEMMA DeleteRowStep == ASSUME ReadInv, Rd!DeleteRow PROVE ReadInv'
<1>1. PICK i \in Rd!RowIds :
        /\ walk.pc = "page" /\ listed' = [listed EXCEPT ![i] = Gone]
        /\ steady' = steady \ {i} /\ touched' = (touched \/ walk.cursor = i)
        /\ UNCHANGED <<list, walk>>
  BY DEF Rd!DeleteRow, Rd!Loses
<1>2. i \in Ids /\ listed[i] \in ListedRow
  BY <1>1, RowIdsAre DEF ReadInv, ReadShapes
<1> QED  BY <1>1, <1>2, RowMovesStep

LEMMA MatchMovesStep == ASSUME ReadInv, Rd!MatchMoves PROVE ReadInv'
<1>1. PICK i \in Rd!RowIds :
        /\ walk.pc = "page" /\ listed' = [listed EXCEPT ![i].match = ~@]
        /\ IF walk.filter THEN steady' = steady \ {i} /\ touched' = (touched \/ walk.cursor = i)
                          ELSE UNCHANGED <<steady, touched>>
        /\ UNCHANGED <<list, walk>>
  BY DEF Rd!MatchMoves, Rd!Loses
<1>2. i \in Ids /\ listed[i] \in ListedRow
  BY <1>1, RowIdsAre DEF ReadInv, ReadShapes
<1>3. PICK old \in ListedRow : old = listed[i]
  BY <1>2
<1>4. PICK m \in BOOLEAN : m = ~old.match
  OBVIOUS
<1>5. PICK new : new = [old EXCEPT !.match = m]
  OBVIOUS
<1>6. new \in ListedRow /\ new.sort = old.sort /\ new.owner = old.owner
  BY <1>5 DEF ListedRow
<1>7. listed' = [listed EXCEPT ![i] = new]
  BY <1>1, <1>3, <1>4, <1>5
<1>8. \/ steady' = steady \ {i} /\ touched' = (touched \/ walk.cursor = i)
      \/ ~walk.filter /\ UNCHANGED <<steady, touched>>
  BY <1>1
<1>9. new # Gone
  BY <1>6, GoneIsNoListed DEF ListedRow
<1> QED  BY <1>1, <1>2, <1>3, <1>6, <1>7, <1>8, <1>9, RowMovesStep

\* In the part of the lists, a step of the workspace is one of that part.
LEMMA ReadsFrame ==
    ASSUME [WorkspaceNext]_workspaceVars, part' = "reads"
    PROVE  part = "reads" /\ [Rd!ReadsNext]_Rd!readVars
<1> USE DEF Around1, Around2, Around3, Around4
<1>1. CASE ReadsRun
  BY <1>1 DEF ReadsRun
<1>2. CASE UNCHANGED workspaceVars
  BY <1>2 DEF workspaceVars, readsVars, Rd!readVars
<1>3. ASSUME \/ CatalogRuns \/ PublishingRuns \/ SourcesRun \/ AdmissionRuns \/ GatewayRuns
             \/ AccessRuns \/ ScreensRun \/ ApprovalsRun \/ FirstEntryRuns
      PROVE  FALSE
  BY <1>3 DEF CatalogRuns, PublishingRuns, SourcesRun, AdmissionRuns, GatewayRuns,
              AccessRuns, ScreensRun, ApprovalsRun, FirstEntryRuns
<1> QED  BY <1>1, <1>2, <1>3 DEF WorkspaceNext

\* The invariant of a walk: what has been received comes before the cursor, and what has
\* matched all the while has been received or comes after it (api/v1 pagination.ts).
THEOREM ReadsInductive == WorkspaceSpec => [](part = "reads" => ReadInv)
<1>1. WorkspaceInit => (part = "reads" => ReadInv)
  BY ReadsBeginWell DEF WorkspaceInit, ReadsBegin
<1>2. (part = "reads" => ReadInv) /\ [WorkspaceNext]_workspaceVars => (part = "reads" => ReadInv)'
  <2> SUFFICES ASSUME ReadInv, [Rd!ReadsNext]_Rd!readVars PROVE ReadInv'
    BY ReadsFrame
  <2> QED  BY BeginWalkStep, FetchPageStep, InsertRowStep, DeleteRowStep, MatchMovesStep, ReadsStutter
           DEF Rd!ReadsNext
<1> QED  BY <1>1, <1>2, PTL DEF WorkspaceSpec

\* No row comes twice, and a walk that ends has received every row that matched all the while,
\* unless the row under its cursor went meanwhile (api/v1 pagination.ts:6).
THEOREM PagesTheorem == WorkspaceSpec => []PagesAreComplete
<1>1. ReadInv => Rd!PagesAreComplete
  BY DEF ReadInv
<1> QED  BY <1>1, ReadsInductive, PTL DEF PagesAreComplete

\* The types of a list and of a walk; a limit is no larger than the cap (pagination.ts:16).
THEOREM ReadsTypes == WorkspaceSpec => [](part = "reads" => Rd!ReadsTypeOK)
<1> DEFINE I == part = "reads" => ReadInv
           J == part = "reads" => walk.limit <= LIMIT_MAX
<1>1. WorkspaceInit => J
  BY ReadsAssumption DEF WorkspaceInit, ReadsBegin, Rd!ReadsInit, Rd!NoWalk
<1>2. I /\ J /\ [WorkspaceNext]_workspaceVars => J'
  <2> SUFFICES ASSUME ReadInv, walk.limit <= LIMIT_MAX, [Rd!ReadsNext]_Rd!readVars
               PROVE  walk'.limit <= LIMIT_MAX
    BY ReadsFrame
  <2>1. CASE UNCHANGED walk
    BY <2>1
  <2>2. CASE Rd!BeginWalk
    <3>1. PICK raw \in RawLimits : \E search, filter :
            walk' = [Rd!NoWalk EXCEPT !.pc = "page", !.limit = Rd!clampLimit(raw),
                                      !.search = search, !.filter = filter]
      BY <2>2 DEF Rd!BeginWalk
    <3>2. walk'.limit = Rd!clampLimit(raw)
      BY <3>1 DEF Rd!NoWalk
    <3>3. Rd!clampLimit(raw) <= LIMIT_MAX
      BY ReadsAssumption DEF Rd!clampLimit
    <3> QED  BY <3>2, <3>3
  <2>3. CASE Rd!FetchPage
    <3>1. walk'.limit = walk.limit
      BY <2>3 DEF Rd!FetchPage, ReadInv, ReadShapes
    <3> QED  BY <3>1
  <2> QED  BY <2>1, <2>2, <2>3
           DEF Rd!ReadsNext, Rd!InsertRow, Rd!DeleteRow, Rd!MatchMoves, Rd!readVars
<1>3. ReadInv /\ walk.limit <= LIMIT_MAX => Rd!ReadsTypeOK
  BY ReadsAssumption DEF ReadInv, ReadShapes, ListedRow, Rd!Row, Rd!ReadsTypeOK
<1>4. I /\ J => (part = "reads" => Rd!ReadsTypeOK)
  BY <1>3
<1> QED  BY <1>1, <1>2, <1>4, ReadsInductive, PTL DEF WorkspaceSpec

-----------------------------------------------------------------------------
(* The types of the whole workspace.                                       *)

\* The rows, keys and quotas of the catalogue have their types.
LEMMA CatalogTypes == WorkspaceSpec => []CatalogTypeOK
<1>1. IInv /\ GraphInv /\ CapInv => CatalogTypeOK
  BY DEF IInv, Shapes, GraphInv, CapInv, CatalogTypeOK
<1> QED  BY <1>1, CatalogInWorkspace, CatalogInductive, GraphInductive, CapInductive, PTL

\* In every part, what the tables hold has its type and obeys the unique indexes, for all numbers
\* of rows, clients and administrators (the tables of prisma/schema.prisma as the code writes them).
THEOREM WorkspaceTypes == WorkspaceSpec => []WorkspaceTypeOK
<1> DEFINE Typed == /\ part = "publishing" => Pub!PublishTypeOK
                    /\ part = "gateway" => Gate!GatewayTypeOK
                    /\ part = "sources" => Src!SourcesTypeOK
                    /\ part = "admission" => Adm!AdmissionTypeOK
                    /\ part = "reads" => Rd!ReadsTypeOK
                    /\ part = "access" => Acc!AccessTypeOK
                    /\ part = "screens" => Scr!ScreensTypeOK
                    /\ part = "approvals" => App!ApprovalsTypeOK
                    /\ part = "firstEntry" => Seed!FirstEntryTypeOK
<1>1. WorkspaceSpec => []Typed
  BY PublishTypes, GatewayTypes, SourcesTypes, AdmissionTypes, ReadsTypes, AccessTypes, ScreensTypes,
     ApprovalsTypes, FirstEntryTypes, PTL
<1>2. WorkspaceSpec => [](part \in Parts)
  <2>1. WorkspaceInit => part \in Parts
    BY DEF WorkspaceInit
  <2>2. part \in Parts /\ [WorkspaceNext]_workspaceVars => (part \in Parts)'
    BY DEF WorkspaceNext, workspaceVars, Around1, CatalogRuns, PublishingRuns, GatewayRuns,
           SourcesRun, AdmissionRuns, ReadsRun, AccessRuns, ScreensRun, ApprovalsRun, FirstEntryRuns
  <2> QED  BY <2>1, <2>2, PTL DEF WorkspaceSpec
<1>3. CatalogTypeOK /\ Typed /\ part \in Parts => WorkspaceTypeOK
  <2> SUFFICES ASSUME CatalogTypeOK, Typed, part \in Parts PROVE WorkspaceTypeOK
    OBVIOUS
  <2> QED  BY PartsAssumption DEF WorkspaceTypeOK
<1> QED  BY <1>1, <1>2, <1>3, CatalogTypes, PTL

\* What is proved of the catalogue's writers alone holds with every other part running beside them:
\* a key makes one row, a late retry replays it, and lineage has no cycle but through a raced edge.
THEOREM WorkspaceCatalog == WorkspaceSpec => KeyMakesOneRow /\ [](LateRetryReplays /\ LineageIsSound)
<1> QED  BY CatalogInWorkspace, KeyTheorem, LateRetryTheorem, LineageTheorem, PTL
=============================================================================
