--------------------------- MODULE Metering_proofs ---------------------------
(***************************************************************************)
(* Proofs about UsageFlush and Metering, for all rows, flushes, resolves   *)
(* and bounds: that a row is flushed only when the platform has settled    *)
(* it, that its attempts count its POSTs, and that the gate does not let a *)
(* run in on what a refusal has made out of date.                          *)
(***************************************************************************)
EXTENDS Metering, WellFoundedInduction, FiniteSetTheorems, TLAPS

Holds(j) == job[j] # Idle
InHand(j, r) == Holds(j) /\ \E e \in job[j].batch : e.row = r

\* The entry a flush goes on with, as a function of its batch.
First(b) == CHOOSE e \in b : \A f \in b : e.row <= f.row

OneEntryPerRow(b) == \A e \in b, f \in b : e.row = f.row => e = f

\* A flush has something in hand, and one entry of each row.
BatchOK == \A j \in Jobs : Holds(j) => job[j].batch # {} /\ OneEntryPerRow(job[j].batch)

\* Two flushes have a row in hand only if it was noted as shared when the second read it.
TwoHands == \A i \in Jobs, j \in Jobs, r \in Rows :
    i # j /\ InHand(i, r) /\ InHand(j, r) => r \in shared

\* A row is marked flushed only if the platform has settled its key.
FlushedIsSettled == \A r \in Rows : raw[r].state = "flushed" => settled[r] # "no"

\* A final answer comes from a settled key.
MarkSettled == \A j \in Jobs : job[j].pc = "mark" => settled[First(job[j].batch).row] # "no"

\* Of a row that only this flush has in hand: the row is as it was read, until it is written; and
\* it is written as the last step but the eviction.
EntryUnflushed == \A j \in Jobs : Holds(j) => \A e \in job[j].batch :
    e.row \notin shared /\ raw[e.row].state = "flushed" =>
        job[j].pc = "evict" /\ e = First(job[j].batch)

EntryCurrent == \A j \in Jobs : Holds(j) => \A e \in job[j].batch :
    e.row \notin shared \cup uncounted /\ raw[e.row].attempts # e.attempts =>
        job[j].pc = "evict" /\ e = First(job[j].batch)

\* The POST in flight, if there is one, is not counted yet.
RowUnwritten(v) == IF v.pc \in {"mark", "count"} THEN {First(v.batch).row} ELSE {}
InFlight(r) == \E j \in Jobs : r \in RowUnwritten(job[j])
PostsCounted == \A r \in Rows \ (shared \cup uncounted) :
    posts[r] = raw[r].attempts + IF InFlight(r) THEN 1 ELSE 0

FlushInv ==
    /\ TypeOK
    /\ BatchOK
    /\ TwoHands
    /\ MarkSettled
    /\ FlushedIsSettled
    /\ EntryUnflushed
    /\ EntryCurrent
    /\ PostsCounted

LEMMA MinOfRows == ASSUME NEW T \in SUBSET Nat, T # {} PROVE \E x \in T : \A y \in T : x <= y
<1> DEFINE Less == OpToRel(<, Nat)
<1>1. \A x \in Nat, y \in Nat : y < x => <<y, x>> \in Less
  BY DEF OpToRel
<1>2. IsWellFoundedOn(Less, Nat)
  BY NatLessThanWellFounded
<1> HIDE DEF Less
<1>3. PICK x \in T : \A y \in T : ~ (<<y, x>> \in Less)
  BY <1>2, WFMin
<1>4. ASSUME NEW y \in T PROVE x <= y
  <2>1. x \in Nat /\ y \in Nat /\ ~(y < x)
    BY <1>1, <1>3
  <2> QED  BY <2>1
<1> QED  BY <1>4

LEMMA FirstIsIn == ASSUME NEW b \in SUBSET Entry, b # {}
                   PROVE  First(b) \in b /\ First(b).row \in Rows /\ First(b).attempts \in Nat
<1> DEFINE T == {e.row : e \in b}
<1>1. T \in SUBSET Nat /\ T # {}
  BY RowsAssumption DEF Entry
<1>2. PICK x \in T : \A y \in T : x <= y
  <2> HIDE DEF T
  <2> QED  BY <1>1, MinOfRows
<1>3. \E e \in b : \A f \in b : e.row <= f.row
  BY <1>2
<1>4. First(b) \in b
  BY <1>3 DEF First
<1> QED  BY <1>4 DEF Entry

LEMMA CurrentIsFirst == ASSUME NEW j PROVE Current(j) = First(job[j].batch)
  BY DEF Current, First

LEMMA UnwrittenIs == ASSUME NEW j PROVE Unwritten(j) = RowUnwritten(job[j])
  BY CurrentIsFirst DEF Unwritten, RowUnwritten

-----------------------------------------------------------------------------
(* What a flush has in hand. *)

LEMMA BusyJob ==
    ASSUME FlushInv, NEW j \in Jobs, job[j].pc # "idle"
    PROVE  /\ Holds(j) /\ job[j] \in Busy /\ job[j].batch \subseteq Entry
           /\ First(job[j].batch) \in job[j].batch /\ First(job[j].batch).row \in Rows
           /\ First(job[j].batch).attempts \in Nat
           /\ InHand(j, First(job[j].batch).row)
<1>1. Holds(j) /\ job[j] \in Busy
  BY DEF Holds, FlushInv, TypeOK, Idle
<1>2. job[j].batch \subseteq Entry /\ job[j].batch # {}
  BY <1>1 DEF Busy, FlushInv, BatchOK
<1> QED  BY <1>1, <1>2, FirstIsIn DEF InHand

\* Whatever a row that is not shared is in flight with, it is this flush.
LEMMA OthersApart ==
    ASSUME FlushInv, NEW j \in Jobs, NEW i \in Jobs, i # j, NEW r \in Rows, r \notin shared,
           InHand(j, r)
    PROVE  r \notin RowUnwritten(job[i]) /\ ~InHand(i, r)
<1>1. ~InHand(i, r)
  BY DEF FlushInv, TwoHands
<1>2. job[i].pc \in {"mark", "count"} => First(job[i].batch).row # r
  BY <1>1, BusyJob
<1> QED  BY <1>1, <1>2 DEF RowUnwritten

\* The rest of a batch: the other rows, or nothing.
LEMMA RestFacts ==
    ASSUME FlushInv, NEW j \in Jobs, job[j].pc # "idle"
    PROVE  LET e == First(job[j].batch)
           IN  \/ Rest(j) = Idle
               \/ /\ Rest(j) \in Busy /\ Rest(j).pc = "post" /\ Rest(j).batch # {}
                  /\ Rest(j).batch \subseteq job[j].batch
                  /\ \A f \in Rest(j).batch : f # e /\ f.row # e.row
<1> DEFINE e == First(job[j].batch)
           rest == job[j].batch \ {e}
<1>1. e \in job[j].batch /\ job[j].batch \subseteq Entry /\ OneEntryPerRow(job[j].batch)
  BY BusyJob DEF FlushInv, BatchOK
<1>2. Rest(j) = IF rest = {} THEN Idle ELSE [pc |-> "post", batch |-> rest]
  BY CurrentIsFirst DEF Rest
<1>3. \A f \in rest : f # e /\ f.row # e.row
  BY <1>1 DEF OneEntryPerRow
<1>4. rest \in SUBSET Entry
  BY <1>1
<1> HIDE DEF e, rest
<1>5. rest # {} => Rest(j) \in Busy /\ Rest(j).pc = "post" /\ Rest(j).batch = rest
  BY <1>2, <1>4 DEF Busy
<1> QED  BY <1>2, <1>3, <1>5 DEF rest, e

\* A flush that keeps some of what it had in hand, or nothing, takes nothing from the others.
LEMMA HandsKept ==
    ASSUME FlushInv, NEW j \in Jobs, job[j].pc # "idle", NEW new \in Busy \cup {Idle},
           job' = [job EXCEPT ![j] = new],
           new # Idle => new.batch # {} /\ new.batch \subseteq job[j].batch,
           UNCHANGED shared
    PROVE  BatchOK' /\ TwoHands'
<1>1. \A i \in Jobs : job'[i] = IF i = j THEN new ELSE job[i]
  BY DEF FlushInv, TypeOK
<1>2. Holds(j)
  BY BusyJob
<1>3. BatchOK'
  BY <1>1, <1>2 DEF FlushInv, BatchOK, Holds, OneEntryPerRow
<1>4. ASSUME NEW i \in Jobs, NEW r \in Rows, InHand(i, r)' PROVE InHand(i, r)
  BY <1>1, <1>2, <1>4 DEF InHand, Holds
<1>5. TwoHands'
  BY <1>4 DEF FlushInv, TwoHands
<1> QED  BY <1>3, <1>5

LEMMA FlushInitInv == FlushInit => FlushInv
<1> SUFFICES ASSUME FlushInit PROVE FlushInv
  OBVIOUS
<1>1. TypeOK
  BY DEF FlushInit, TypeOK, Raw
<1>2. \A j \in Jobs : ~Holds(j) /\ job[j].pc = "idle"
  BY DEF FlushInit, Holds, Idle
<1>3. PostsCounted
  BY <1>2 DEF FlushInit, PostsCounted, InFlight, RowUnwritten
<1> QED  BY <1>1, <1>2, <1>3 DEF FlushInit, FlushInv, BatchOK, TwoHands, MarkSettled,
            FlushedIsSettled, EntryUnflushed, EntryCurrent, InHand

-----------------------------------------------------------------------------
(* The steps of a flush. *)

\* Rows are written by one flush at a time unless they are shared: a step of j that leaves raw
\* alone, or writes the row j is at, leaves the entries of the others as they are.
LEMMA OtherEntries ==
    ASSUME FlushInv, NEW j \in Jobs, job[j].pc # "idle",
           \A q \in Rows : q # First(job[j].batch).row => raw'[q] = raw[q],
           NEW i \in Jobs, i # j, Holds(i), NEW f \in job[i].batch, f.row \notin shared
    PROVE  f.row \in Rows /\ f.row # First(job[j].batch).row /\ raw'[f.row] = raw[f.row]
<1>1. InHand(i, f.row) /\ job[i].batch \subseteq Entry
  BY DEF InHand, Holds, FlushInv, TypeOK, Busy
<1>2. f.row \in Rows
  BY <1>1 DEF Entry
<1>3. f.row # First(job[j].batch).row
  BY <1>1, <1>2, BusyJob, OthersApart
<1> QED  BY <1>2, <1>3

\* The entries of j itself, other than the one it is at.
LEMMA OwnEntries ==
    ASSUME FlushInv, NEW j \in Jobs, job[j].pc # "idle",
           \A q \in Rows : q # First(job[j].batch).row => raw'[q] = raw[q],
           NEW f \in job[j].batch, f # First(job[j].batch)
    PROVE  f.row \in Rows /\ f.row # First(job[j].batch).row /\ raw'[f.row] = raw[f.row]
<1>1. f.row \in Rows /\ f.row # First(job[j].batch).row
  BY BusyJob DEF FlushInv, BatchOK, OneEntryPerRow, Entry
<1> QED  BY <1>1

\* The entries stay as they were read when j goes on with the rest of its batch, or to the
\* eviction.
LEMMA EntriesKept ==
    ASSUME FlushInv, NEW j \in Jobs, job[j].pc # "idle", NEW new \in Busy \cup {Idle},
           job' = [job EXCEPT ![j] = new],
           new # Idle => new.batch \subseteq job[j].batch,
           new # Idle /\ First(job[j].batch) \in new.batch =>
               new.pc = "evict" /\ First(new.batch) = First(job[j].batch),
           \A q \in Rows : q # First(job[j].batch).row => raw'[q] = raw[q],
           UNCHANGED shared, uncounted \subseteq uncounted'
    PROVE  EntryUnflushed' /\ EntryCurrent'
<1>1. \A i \in Jobs : job'[i] = IF i = j THEN new ELSE job[i]
  BY DEF FlushInv, TypeOK
<1>2. ASSUME NEW f \in new.batch, new # Idle, f # First(job[j].batch)
      PROVE  /\ f \in job[j].batch /\ raw'[f.row] = raw[f.row]
             /\ f.row \notin shared => raw[f.row].state # "flushed"
             /\ f.row \notin shared \cup uncounted => raw[f.row].attempts = f.attempts
  BY <1>2, OwnEntries, BusyJob DEF FlushInv, EntryUnflushed, EntryCurrent
<1>3. EntryUnflushed'
  <2>1. SUFFICES ASSUME NEW i \in Jobs, Holds(i)', NEW f \in job'[i].batch, f.row \notin shared,
                        raw'[f.row].state = "flushed"
                 PROVE  job'[i].pc = "evict" /\ f = First(job'[i].batch)
    BY DEF EntryUnflushed
  <2>2. CASE i = j
    BY <1>1, <1>2, <2>1, <2>2 DEF Holds
  <2>3. CASE i # j
    BY <1>1, <2>1, <2>3, OtherEntries DEF Holds, FlushInv, EntryUnflushed
  <2> QED  BY <2>2, <2>3
<1>4. EntryCurrent'
  <2>1. SUFFICES ASSUME NEW i \in Jobs, Holds(i)', NEW f \in job'[i].batch,
                        f.row \notin shared \cup uncounted', raw'[f.row].attempts # f.attempts
                 PROVE  job'[i].pc = "evict" /\ f = First(job'[i].batch)
    BY DEF EntryCurrent
  <2>2. CASE i = j
    BY <1>1, <1>2, <2>1, <2>2 DEF Holds
  <2>3. CASE i # j
    BY <1>1, <2>1, <2>3, OtherEntries DEF Holds, FlushInv, EntryCurrent
  <2> QED  BY <2>2, <2>3
<1> QED  BY <1>3, <1>4

\* With the same batch in hand and no row written, nothing changes for the entries but that the
\* flush is not evicting.
LEMMA EntriesSame ==
    ASSUME FlushInv, NEW j \in Jobs, job[j].pc # "idle", job[j].pc # "evict",
           NEW new \in Busy, job' = [job EXCEPT ![j] = new], new # Idle,
           new.batch = job[j].batch, UNCHANGED <<raw, shared, uncounted>>
    PROVE  EntryUnflushed' /\ EntryCurrent'
<1>1. \A i \in Jobs : job'[i] = IF i = j THEN new ELSE job[i]
  BY DEF FlushInv, TypeOK
<1> QED  BY <1>1, BusyJob DEF FlushInv, EntryUnflushed, EntryCurrent, Holds

\* Which rows are in flight changes only with the row that j is at, unless that is shared.
LEMMA InFlightKept ==
    ASSUME FlushInv, NEW j \in Jobs, NEW new, job' = [job EXCEPT ![j] = new], NEW r \in Rows,
           r \notin RowUnwritten(job[j]), r \notin RowUnwritten(new)
    PROVE  InFlight(r)' <=> InFlight(r)
<1>1. \A i \in Jobs : job'[i] = IF i = j THEN new ELSE job[i]
  BY DEF FlushInv, TypeOK
<1>2. \A i \in Jobs : r \in RowUnwritten(job'[i]) <=> r \in RowUnwritten(job[i])
  BY <1>1
<1> QED  BY <1>2 DEF InFlight

LEMMA InFlightAt ==
    ASSUME FlushInv, NEW j \in Jobs, job[j].pc # "idle", NEW new, job' = [job EXCEPT ![j] = new],
           NEW r \in Rows, r = First(job[j].batch).row, r \notin shared
    PROVE  /\ InFlight(r) <=> job[j].pc \in {"mark", "count"}
           /\ InFlight(r)' <=> r \in RowUnwritten(new)
<1>1. \A i \in Jobs : job'[i] = IF i = j THEN new ELSE job[i]
  BY DEF FlushInv, TypeOK
<1>2. \A i \in Jobs : i # j => r \notin RowUnwritten(job[i])
  BY BusyJob, OthersApart
<1>3. InFlight(r) <=> r \in RowUnwritten(job[j])
  BY <1>2 DEF InFlight
<1>4. InFlight(r)' <=> \E i \in Jobs : r \in RowUnwritten(job'[i])
  BY DEF InFlight
<1>5. InFlight(r)' <=> r \in RowUnwritten(new)
  BY <1>1, <1>2, <1>4
<1> QED  BY <1>3, <1>5 DEF RowUnwritten

\* What a POST does: one more request, maybe a key settled, and the update is next.
LEMMA PostFacts ==
    ASSUME FlushInv, NEW j \in Jobs, Post(j)
    PROVE  LET r == First(job[j].batch).row
           IN  /\ job[j].pc = "post" /\ UNCHANGED <<raw, shared, uncounted, mishaps>>
               /\ posts' = IF r \in shared \cup uncounted THEN posts ELSE [posts EXCEPT ![r] = @ + 1]
               /\ settled' \in [Rows -> {"no", "consumed", "refused"}] /\ UNCHANGED open
               /\ \A q \in Rows : settled[q] # "no" => settled'[q] # "no"
               /\ \E new \in Busy : /\ job' = [job EXCEPT ![j] = new]
                                    /\ new.pc \in {"mark", "count"} /\ new.batch = job[j].batch
                                    /\ new.pc = "mark" => settled'[r] # "no"
<1> DEFINE r == First(job[j].batch).row
           Next1(status) ==
               IF Settles(status)
               THEN [pc |-> "mark", batch |-> job[j].batch, status |-> IF status = 409 THEN 409 ELSE 200]
               ELSE [pc |-> "count", batch |-> job[j].batch]
<1>1. job[j].pc = "post" /\ UNCHANGED <<raw, shared, uncounted, mishaps>>
  BY DEF Post
<1>2. Current(j).row = r
  BY CurrentIsFirst
<1>3. posts' = IF r \in shared \cup uncounted THEN posts ELSE [posts EXCEPT ![r] = @ + 1]
  BY <1>2 DEF Post
<1>4. job[j].batch \subseteq Entry /\ r \in Rows
  BY <1>1, BusyJob
<1>5. \/ /\ Consume(r)
         /\ job' = [job EXCEPT ![j] = Next1(StatusOf(settled'[r]))] \/ job' = [job EXCEPT ![j] = Next1(NoAnswer)]
      \/ /\ UNCHANGED platform
         /\ job' = [job EXCEPT ![j] = Next1(500)] \/ job' = [job EXCEPT ![j] = Next1(NoAnswer)]
  <2> HIDE DEF r
  <2> QED  BY <1>2 DEF Post
<1>6. \A status : /\ Next1(status) \in Busy /\ Next1(status).pc \in {"mark", "count"}
                  /\ Next1(status).batch = job[j].batch
                  /\ Next1(status).pc = "mark" => Settles(status)
  BY <1>4 DEF Busy
<1>7. ~Settles(NoAnswer) /\ ~Settles(500)
  BY DEF Settles, NoAnswer
<1> HIDE DEF r, Next1
<1>8. CASE Consume(r)
  <2>1. /\ settled' \in [Rows -> {"no", "consumed", "refused"}] /\ UNCHANGED open
        /\ settled'[r] # "no" /\ \A q \in Rows : settled[q] # "no" => settled'[q] # "no"
    BY <1>4, <1>8 DEF Consume, FlushInv, TypeOK, platform
  <2> QED  BY <1>1, <1>3, <1>5, <1>6, <1>7, <2>1 DEF r, platform
<1>9. CASE ~Consume(r)
  <2>1. UNCHANGED <<settled, open>>
    BY <1>5, <1>9 DEF platform
  <2> QED  BY <1>1, <1>3, <1>5, <1>6, <1>7, <1>9, <2>1 DEF r, FlushInv, TypeOK
<1> QED  BY <1>8, <1>9

LEMMA PostStep == ASSUME FlushInv, NEW j \in Jobs, Post(j) PROVE FlushInv'
<1> DEFINE r == First(job[j].batch).row
<1>1. /\ job[j].pc = "post" /\ UNCHANGED <<raw, shared, uncounted, mishaps>>
      /\ posts' = IF r \in shared \cup uncounted THEN posts ELSE [posts EXCEPT ![r] = @ + 1]
      /\ settled' \in [Rows -> {"no", "consumed", "refused"}] /\ UNCHANGED open
      /\ \A q \in Rows : settled[q] # "no" => settled'[q] # "no"
  BY PostFacts
<1>2. PICK new \in Busy : /\ job' = [job EXCEPT ![j] = new]
                          /\ new.pc \in {"mark", "count"} /\ new.batch = job[j].batch
                          /\ new.pc = "mark" => settled'[r] # "no"
  BY PostFacts
<1>3. new # Idle /\ Holds(j) /\ r \in Rows /\ InHand(j, r) /\ job[j].batch # {}
  BY <1>1, <1>2, BusyJob DEF Idle, FlushInv, BatchOK
<1>4. \A i \in Jobs : job'[i] = IF i = j THEN new ELSE job[i]
  BY <1>2 DEF FlushInv, TypeOK
<1>5. TypeOK'
  <2>1. posts \in [Rows -> Nat] /\ posts[r] + 1 \in Nat
    BY <1>3 DEF FlushInv, TypeOK
  <2>2. posts' \in [Rows -> Nat]
    BY <1>1, <2>1
  <2> QED  BY <1>1, <1>2, <2>2 DEF FlushInv, TypeOK
<1>6. BatchOK' /\ TwoHands'
  BY <1>1, <1>2, <1>3, HandsKept
<1>7. EntryUnflushed' /\ EntryCurrent'
  BY <1>1, <1>2, <1>3, EntriesSame
<1>8. MarkSettled'
  BY <1>1, <1>2, <1>4, BusyJob DEF FlushInv, MarkSettled
<1>9. FlushedIsSettled'
  BY <1>1 DEF FlushInv, FlushedIsSettled
<1>10. PostsCounted'
  <2>1. SUFFICES ASSUME NEW q \in Rows, q \notin shared \cup uncounted
                 PROVE  posts'[q] = raw[q].attempts + IF InFlight(q)' THEN 1 ELSE 0
    BY <1>1 DEF PostsCounted
  <2>2. posts[q] = raw[q].attempts + (IF InFlight(q) THEN 1 ELSE 0) /\ raw[q].attempts \in Nat
    BY <2>1 DEF FlushInv, PostsCounted, TypeOK, Raw
  <2>3. CASE q = r
    <3>1. q \in RowUnwritten(new)
      BY <1>2, <2>3 DEF RowUnwritten
    <3>2. q = First(job[j].batch).row /\ q \notin shared /\ job[j].pc # "idle"
      BY <1>1, <2>1, <2>3
    <3>3. ~InFlight(q) /\ InFlight(q)'
      BY <1>1, <1>2, <3>1, <3>2, InFlightAt
    <3>4. posts'[q] = posts[q] + 1
      BY <1>1, <2>1, <2>3 DEF FlushInv, TypeOK
    <3> QED  BY <2>2, <3>3, <3>4
  <2>4. CASE q # r
    <3>1. q \notin RowUnwritten(job[j]) /\ q \notin RowUnwritten(new)
      BY <1>1, <1>2, <2>4 DEF RowUnwritten
    <3>2. InFlight(q)' <=> InFlight(q)
      BY <1>2, <3>1, InFlightKept
    <3>3. posts'[q] = posts[q]
      BY <1>1, <2>4 DEF FlushInv, TypeOK
    <3> QED  BY <2>2, <3>2, <3>3
  <2> QED  BY <2>3, <2>4
<1> QED  BY <1>5, <1>6, <1>7, <1>8, <1>9, <1>10 DEF FlushInv

\* A flush is through with the row it is at, written or not: of the rows in flight only that one
\* can be gone.
LEMMA CountedAt ==
    ASSUME FlushInv, NEW j \in Jobs, job[j].pc # "idle", NEW new, job' = [job EXCEPT ![j] = new],
           RowUnwritten(new) \subseteq RowUnwritten(job[j]), NEW q \in Rows,
           q \notin shared \cup uncounted, posts'[q] = posts[q],
           q # First(job[j].batch).row => raw'[q].attempts = raw[q].attempts,
           q = First(job[j].batch).row =>
               raw'[q].attempts = raw[q].attempts +
                   IF job[j].pc \in {"mark", "count"} /\ q \notin RowUnwritten(new) THEN 1 ELSE 0
    PROVE  posts'[q] = raw'[q].attempts + IF InFlight(q)' THEN 1 ELSE 0
<1>1. posts[q] = raw[q].attempts + (IF InFlight(q) THEN 1 ELSE 0) /\ raw[q].attempts \in Nat
  BY DEF FlushInv, PostsCounted, TypeOK, Raw
<1>2. CASE q = First(job[j].batch).row
  <2>1. q \in RowUnwritten(new) => job[j].pc \in {"mark", "count"}
    BY DEF RowUnwritten
  <2>2. /\ InFlight(q) <=> job[j].pc \in {"mark", "count"}
        /\ InFlight(q)' <=> q \in RowUnwritten(new)
    BY <1>2, InFlightAt
  <2> QED  BY <1>1, <1>2, <2>1, <2>2
<1>3. CASE q # First(job[j].batch).row
  <2>1. q \notin RowUnwritten(job[j]) /\ q \notin RowUnwritten(new)
    BY <1>3 DEF RowUnwritten
  <2>2. InFlight(q)' <=> InFlight(q)
    BY <2>1, InFlightKept
  <2> QED  BY <1>1, <1>3, <2>2
<1> QED  BY <1>2, <1>3

\* A flush that is through with a row, up to the eviction.
Through(j, new) ==
    /\ new \in Busy \cup {Idle} /\ new.pc \notin {"mark", "count"}
    /\ new # Idle => new.batch # {} /\ new.batch \subseteq job[j].batch
    /\ new # Idle /\ First(job[j].batch) \in new.batch =>
           new.pc = "evict" /\ First(new.batch) = First(job[j].batch)

LEMMA RestIsThrough == ASSUME FlushInv, NEW j \in Jobs, job[j].pc # "idle"
                       PROVE  Through(j, Rest(j))
<1>1. CASE Rest(j) = Idle
  <2>1. Idle.pc = "idle"
    BY DEF Idle
  <2> QED  BY <1>1, <2>1 DEF Through
<1>2. CASE Rest(j) # Idle
  BY <1>2, RestFacts DEF Through
<1> QED  BY <1>1, <1>2

LEMMA IdleIsThrough == ASSUME NEW j PROVE Through(j, Idle)
  BY DEF Through, Idle

LEMMA EvictIsThrough ==
    ASSUME FlushInv, NEW j \in Jobs, job[j].pc = "mark"
    PROVE  Through(j, [job[j] EXCEPT !.pc = "evict"])
<1> DEFINE new == [job[j] EXCEPT !.pc = "evict"]
<1>1. job[j] \in Busy /\ job[j].batch # {}
  BY BusyJob DEF FlushInv, BatchOK
<1>2. new \in Busy /\ new.pc = "evict" /\ new.batch = job[j].batch
  BY <1>1 DEF Busy
<1> HIDE DEF new
<1>3. Through(j, new)
  BY <1>1, <1>2 DEF Through
<1> QED  BY <1>3 DEF new

\* A step that is through with a row, and writes at most that row.
LEMMA ThroughStep ==
    ASSUME FlushInv, NEW j \in Jobs, job[j].pc # "idle", NEW new, Through(j, new),
           job' = [job EXCEPT ![j] = new],
           raw' \in [Rows -> Raw],
           \A q \in Rows : q # First(job[j].batch).row => raw'[q] = raw[q],
           \A q \in Rows : raw'[q].state = "flushed" => settled[q] # "no",
           uncounted' \subseteq Rows, uncounted \subseteq uncounted', mishaps' \in Nat,
           UNCHANGED <<settled, open, posts, shared>>,
           First(job[j].batch).row \notin shared \cup uncounted' =>
               raw'[First(job[j].batch).row].attempts = raw[First(job[j].batch).row].attempts +
                   IF job[j].pc \in {"mark", "count"} THEN 1 ELSE 0
    PROVE  FlushInv'
<1>1. /\ new \in Busy \cup {Idle} /\ new.pc \notin {"mark", "count"}
      /\ new # Idle => new.batch # {} /\ new.batch \subseteq job[j].batch
      /\ new # Idle /\ First(job[j].batch) \in new.batch =>
             new.pc = "evict" /\ First(new.batch) = First(job[j].batch)
  BY DEF Through
<1>2. \A i \in Jobs : job'[i] = IF i = j THEN new ELSE job[i]
  BY DEF FlushInv, TypeOK
<1>3. TypeOK'
  BY <1>1 DEF FlushInv, TypeOK
<1>4. BatchOK' /\ TwoHands'
  BY <1>1, HandsKept
<1>5. EntryUnflushed' /\ EntryCurrent'
  BY <1>1, EntriesKept
<1>6. MarkSettled' /\ FlushedIsSettled'
  BY <1>1, <1>2 DEF FlushInv, MarkSettled, FlushedIsSettled
<1>7. RowUnwritten(new) = {}
  BY <1>1 DEF RowUnwritten
<1>8. PostsCounted'
  <2>1. SUFFICES ASSUME NEW q \in Rows, q \notin shared \cup uncounted'
                 PROVE  posts[q] = raw'[q].attempts + IF InFlight(q)' THEN 1 ELSE 0
    BY DEF PostsCounted
  <2>2. q \notin shared \cup uncounted /\ posts'[q] = posts[q]
    BY <2>1
  <2>3. q # First(job[j].batch).row => raw'[q].attempts = raw[q].attempts
    OBVIOUS
  <2>4. q = First(job[j].batch).row =>
            raw'[q].attempts = raw[q].attempts +
                IF job[j].pc \in {"mark", "count"} /\ q \notin RowUnwritten(new) THEN 1 ELSE 0
    BY <1>7, <2>1
  <2> QED  BY <1>7, <2>2, <2>3, <2>4, CountedAt
<1> QED  BY <1>3, <1>4, <1>5, <1>6, <1>8 DEF FlushInv

LEMMA MarkFails ==
    ASSUME FlushInv, NEW j \in Jobs, job[j].pc = "mark",
           job' = [job EXCEPT ![j] = [pc |-> "count", batch |-> job[j].batch]],
           UNCHANGED <<raw, settled, open, posts, shared, uncounted>>, mishaps' \in Nat
    PROVE  FlushInv'
<1> DEFINE new == [pc |-> "count", batch |-> job[j].batch]
<1>1. job[j].batch # {} /\ job[j].batch \subseteq Entry
  BY BusyJob DEF FlushInv, BatchOK
<1>2. new \in Busy /\ new.pc = "count" /\ new.batch = job[j].batch /\ new # Idle
  BY <1>1 DEF Busy, Idle
<1>3. job' = [job EXCEPT ![j] = new]
  OBVIOUS
<1> HIDE DEF new
<1>4. \A i \in Jobs : job'[i] = IF i = j THEN new ELSE job[i]
  BY <1>3 DEF FlushInv, TypeOK
<1>5. BatchOK' /\ TwoHands'
  BY <1>1, <1>2, <1>3, HandsKept
<1>6. EntryUnflushed' /\ EntryCurrent'
  BY <1>2, <1>3, EntriesSame
<1>7. RowUnwritten(new) = RowUnwritten(job[j])
  BY <1>2 DEF RowUnwritten
<1>8. PostsCounted'
  <2>1. \A r \in Rows : InFlight(r)' <=> InFlight(r)
    BY <1>4, <1>7 DEF InFlight
  <2> QED  BY <2>1 DEF FlushInv, PostsCounted
<1> QED  BY <1>2, <1>4, <1>5, <1>6, <1>8 DEF FlushInv, TypeOK, MarkSettled, FlushedIsSettled

LEMMA MarkStep == ASSUME FlushInv, NEW j \in Jobs, Mark(j) PROVE FlushInv'
<1> DEFINE e == First(job[j].batch)
           w == [state |-> "flushed", attempts |-> e.attempts + 1]
           new == IF Refused(job[j].status) THEN [job[j] EXCEPT !.pc = "evict"] ELSE Rest(j)
<1>1. job[j].pc = "mark" /\ UNCHANGED <<settled, open, posts, shared, uncounted>>
  BY DEF Mark, platform
<1>2. Holds(j) /\ e \in job[j].batch /\ e.row \in Rows /\ e.attempts \in Nat
  BY <1>1, BusyJob
<1>3. \/ raw' = [raw EXCEPT ![e.row] = w] /\ job' = [job EXCEPT ![j] = new] /\ UNCHANGED mishaps
      \/ /\ UNCHANGED mishaps \/ Fault
         /\ job' = [job EXCEPT ![j] = [pc |-> "count", batch |-> job[j].batch]] /\ UNCHANGED raw
  BY CurrentIsFirst DEF Mark, AttemptsAfter
<1>4. mishaps' \in Nat
  BY <1>3 DEF Fault, FlushInv, TypeOK
<1>5. CASE raw' = [raw EXCEPT ![e.row] = w] /\ job' = [job EXCEPT ![j] = new] /\ UNCHANGED mishaps
  <2>1. Through(j, new)
    BY <1>1, RestIsThrough, EvictIsThrough
  <2>2. w \in Raw /\ w.state = "flushed" /\ w.attempts = e.attempts + 1
    BY <1>2 DEF Raw
  <2> HIDE DEF new, w
  <2>3. /\ raw' \in [Rows -> Raw] /\ raw'[e.row] = w
        /\ \A q \in Rows : q # e.row => raw'[q] = raw[q]
    BY <1>2, <1>5, <2>2 DEF FlushInv, TypeOK
  <2>4. \A q \in Rows : raw'[q].state = "flushed" => settled[q] # "no"
    BY <1>1, <2>3 DEF FlushInv, MarkSettled, FlushedIsSettled
  <2>5. e.row \notin shared \cup uncounted => e.attempts = raw[e.row].attempts
    BY <1>1, <1>2 DEF FlushInv, EntryCurrent
  <2>6. uncounted' \subseteq Rows
    BY <1>1 DEF FlushInv, TypeOK
  <2>7. e.row \notin shared \cup uncounted' =>
            raw'[e.row].attempts = raw[e.row].attempts + IF job[j].pc \in {"mark", "count"} THEN 1 ELSE 0
    BY <1>1, <2>2, <2>3, <2>5
  <2> QED  BY <1>1, <1>4, <1>5, <2>1, <2>3, <2>4, <2>6, <2>7, ThroughStep
<1>6. CASE /\ job' = [job EXCEPT ![j] = [pc |-> "count", batch |-> job[j].batch]]
           /\ UNCHANGED raw
  BY <1>1, <1>4, <1>6, MarkFails
<1> QED  BY <1>3, <1>5, <1>6

LEMMA CountStep == ASSUME FlushInv, NEW j \in Jobs, Count(j) PROVE FlushInv'
<1> DEFINE e == First(job[j].batch)
           w == [raw[e.row] EXCEPT !.attempts = e.attempts + 1]
<1>1. job[j].pc = "count" /\ UNCHANGED <<settled, open, posts, shared>>
  BY DEF Count, platform
<1>2. Holds(j) /\ e \in job[j].batch /\ e.row \in Rows /\ e.attempts \in Nat
  BY <1>1, BusyJob
<1>3. \/ /\ raw' = [raw EXCEPT ![e.row] = w] /\ job' = [job EXCEPT ![j] = Rest(j)]
         /\ UNCHANGED <<uncounted, mishaps>>
      \/ /\ UNCHANGED mishaps \/ Fault
         /\ uncounted' = uncounted \cup {e.row} /\ job' = [job EXCEPT ![j] = Idle] /\ UNCHANGED raw
  BY CurrentIsFirst DEF Count, AttemptsAfter
<1>4. mishaps' \in Nat /\ uncounted' \subseteq Rows /\ uncounted \subseteq uncounted'
  BY <1>2, <1>3 DEF Fault, FlushInv, TypeOK
<1>5. CASE /\ raw' = [raw EXCEPT ![e.row] = w] /\ job' = [job EXCEPT ![j] = Rest(j)]
           /\ UNCHANGED <<uncounted, mishaps>>
  <2>1. Through(j, Rest(j))
    BY <1>1, RestIsThrough
  <2>2. w \in Raw /\ w.state = raw[e.row].state /\ w.attempts = e.attempts + 1
    BY <1>2 DEF FlushInv, TypeOK, Raw
  <2> HIDE DEF w
  <2>3. /\ raw' \in [Rows -> Raw] /\ raw'[e.row] = w
        /\ \A q \in Rows : q # e.row => raw'[q] = raw[q]
    BY <1>2, <1>5, <2>2 DEF FlushInv, TypeOK
  <2>4. \A q \in Rows : raw'[q].state = "flushed" => settled[q] # "no"
    BY <2>2, <2>3 DEF FlushInv, FlushedIsSettled
  <2>5. e.row \notin shared \cup uncounted => e.attempts = raw[e.row].attempts
    BY <1>1, <1>2 DEF FlushInv, EntryCurrent
  <2>6. e.row \notin shared \cup uncounted' =>
            raw'[e.row].attempts = raw[e.row].attempts + IF job[j].pc \in {"mark", "count"} THEN 1 ELSE 0
    BY <1>1, <1>5, <2>2, <2>3, <2>5
  <2> QED  BY <1>1, <1>4, <1>5, <2>1, <2>3, <2>4, <2>6, ThroughStep
<1>6. CASE uncounted' = uncounted \cup {e.row} /\ job' = [job EXCEPT ![j] = Idle] /\ UNCHANGED raw
  <2>1. raw' \in [Rows -> Raw] /\ \A q \in Rows : raw'[q].state = "flushed" => settled[q] # "no"
    BY <1>6 DEF FlushInv, TypeOK, FlushedIsSettled
  <2>2. \A q \in Rows : q # e.row => raw'[q] = raw[q]
    BY <1>6
  <2>3. e.row \notin shared \cup uncounted' =>
            raw'[e.row].attempts = raw[e.row].attempts + IF job[j].pc \in {"mark", "count"} THEN 1 ELSE 0
    BY <1>6
  <2>4. Through(j, Idle)
    BY IdleIsThrough
  <2> QED  BY <1>1, <1>4, <1>6, <2>1, <2>2, <2>3, <2>4, ThroughStep
<1> QED  BY <1>3, <1>5, <1>6

LEMMA EvictStep == ASSUME FlushInv, NEW j \in Jobs, Evict(j) PROVE FlushInv'
<1> DEFINE e == First(job[j].batch)
<1>1. /\ job[j].pc = "evict" /\ job' = [job EXCEPT ![j] = Rest(j)]
      /\ UNCHANGED <<raw, settled, open, posts, shared, uncounted, mishaps>>
  BY DEF Evict, platform
<1>2. e.row \in Rows /\ Through(j, Rest(j))
  BY <1>1, BusyJob, RestIsThrough
<1>3. /\ raw' \in [Rows -> Raw] /\ \A q \in Rows : raw'[q].state = "flushed" => settled[q] # "no"
      /\ uncounted' \subseteq Rows /\ uncounted \subseteq uncounted' /\ mishaps' \in Nat
      /\ raw[e.row].attempts \in Nat
  BY <1>1, <1>2 DEF FlushInv, TypeOK, FlushedIsSettled, Raw
<1>4. e.row \notin shared \cup uncounted' =>
          raw'[e.row].attempts = raw[e.row].attempts + IF job[j].pc \in {"mark", "count"} THEN 1 ELSE 0
  BY <1>1, <1>3
<1>5. \A q \in Rows : q # e.row => raw'[q] = raw[q]
  BY <1>1
<1> QED  BY <1>1, <1>2, <1>3, <1>4, <1>5, ThroughStep

LEMMA BatchFacts ==
    ASSUME FlushInv
    PROVE  /\ NextBatch \subseteq Entry /\ OneEntryPerRow(NextBatch)
           /\ \A e \in NextBatch : raw[e.row].state = "pending" /\ e.attempts = raw[e.row].attempts
<1> DEFINE due == {r \in Rows : Eligible(r)}
           first == {r \in due : Cardinality({q \in due : q < r}) < Batch}
<1>1. NextBatch = {[row |-> r, attempts |-> raw[r].attempts] : r \in first}
  BY DEF NextBatch
<1>2. \A r \in first : r \in Rows /\ raw[r].state = "pending" /\ raw[r].attempts \in Nat
  BY DEF Eligible, FlushInv, TypeOK, Raw
<1> HIDE DEF first
<1>3. \A e \in NextBatch : \E r \in first : e = [row |-> r, attempts |-> raw[r].attempts]
  BY <1>1
<1> QED  BY <1>2, <1>3 DEF Entry, OneEntryPerRow

LEMMA SelectStep == ASSUME FlushInv, NEW j \in Jobs, Select(j) PROVE FlushInv'
<1> DEFINE new == [pc |-> "post", batch |-> NextBatch]
<1>1. /\ job[j] = Idle /\ job' = [job EXCEPT ![j] = new] /\ NextBatch # {}
      /\ shared' = shared \cup {r \in Rows : /\ \E e \in NextBatch : e.row = r
                                             /\ \E i \in Jobs : InBatch(i, r)}
      /\ UNCHANGED <<raw, settled, open, posts, uncounted, mishaps>>
  BY DEF Select, platform
<1>2. new \in Busy /\ new.pc = "post" /\ new.batch = NextBatch /\ new # Idle
  BY BatchFacts DEF Busy, Idle
<1> HIDE DEF new
<1>3. \A i \in Jobs : job'[i] = IF i = j THEN new ELSE job[i]
  BY <1>1 DEF FlushInv, TypeOK
<1>4. shared \subseteq shared' /\ shared' \subseteq Rows
  BY <1>1 DEF FlushInv, TypeOK
<1>5. TypeOK'
  BY <1>1, <1>2, <1>4 DEF FlushInv, TypeOK
<1>6. BatchOK'
  BY <1>1, <1>2, <1>3, BatchFacts DEF FlushInv, BatchOK, Holds, OneEntryPerRow
<1>7. TwoHands'
  <2>1. SUFFICES ASSUME NEW i \in Jobs, NEW k \in Jobs, NEW r \in Rows, i # k,
                        InHand(i, r)', InHand(k, r)'
                 PROVE  r \in shared'
    BY DEF TwoHands
  <2>2. \A l \in Jobs : l # j /\ InHand(l, r)' => InHand(l, r)
    BY <1>3 DEF InHand, Holds
  <2>3. InHand(j, r)' => \E e \in NextBatch : e.row = r
    BY <1>2, <1>3 DEF InHand
  <2>4. \A l \in Jobs : InHand(l, r) => InBatch(l, r)
    BY DEF InHand, Holds, InBatch
  <2>5. CASE i # j /\ k # j
    BY <1>4, <2>1, <2>2, <2>5 DEF FlushInv, TwoHands
  <2>6. CASE i = j \/ k = j
    BY <1>1, <2>1, <2>2, <2>3, <2>4, <2>6
  <2> QED  BY <2>5, <2>6
<1>8. job[j].pc = "idle" /\ RowUnwritten(new) = {} /\ RowUnwritten(job[j]) = {}
  BY <1>1, <1>2 DEF Idle, RowUnwritten
<1>9. MarkSettled' /\ FlushedIsSettled'
  BY <1>1, <1>2, <1>3 DEF FlushInv, MarkSettled, FlushedIsSettled
<1>10. EntryUnflushed'
  BY <1>1, <1>2, <1>3, <1>4, BatchFacts DEF FlushInv, EntryUnflushed, Holds
<1>11. EntryCurrent'
  BY <1>1, <1>2, <1>3, <1>4, BatchFacts DEF FlushInv, EntryCurrent, Holds
<1>12. PostsCounted'
  <2>1. \A r \in Rows : InFlight(r)' <=> InFlight(r)
    BY <1>1, <1>8, InFlightKept
  <2> QED  BY <1>1, <1>4, <2>1 DEF FlushInv, PostsCounted
<1> QED  BY <1>5, <1>6, <1>7, <1>9, <1>10, <1>11, <1>12 DEF FlushInv

-----------------------------------------------------------------------------
(* The other steps. *)

\* A step that leaves the flushes alone, settles nothing, flushes nothing and counts nothing.
LEMMA BufferStep ==
    ASSUME FlushInv, UNCHANGED <<job, settled, posts, shared, uncounted, mishaps>>,
           open' \in BOOLEAN, raw' \in [Rows -> Raw],
           \A r \in Rows : /\ raw'[r].attempts = raw[r].attempts
                           /\ raw'[r].state = "flushed" => raw[r].state = "flushed"
    PROVE  FlushInv'
<1>1. TypeOK' /\ BatchOK' /\ TwoHands' /\ MarkSettled' /\ FlushedIsSettled'
  BY DEF FlushInv, TypeOK, BatchOK, TwoHands, MarkSettled, FlushedIsSettled, Holds, InHand
<1>2. \A j \in Jobs : Holds(j) => \A e \in job[j].batch : e.row \in Rows
  BY DEF FlushInv, TypeOK, Holds, Busy, Entry
<1>3. EntryUnflushed' /\ EntryCurrent'
  BY <1>2 DEF FlushInv, EntryUnflushed, EntryCurrent, Holds
<1>4. PostsCounted'
  BY DEF FlushInv, PostsCounted, InFlight
<1> QED  BY <1>1, <1>3, <1>4 DEF FlushInv

LEMMA RecordStep == ASSUME FlushInv, NEW r \in Rows, Record(r) PROVE FlushInv'
<1> DEFINE w == [raw[r] EXCEPT !.state = "pending"]
<1>1. /\ UNCHANGED <<job, settled, open, posts, shared, uncounted, mishaps>>
      /\ raw' = [raw EXCEPT ![r] = w]
  BY DEF Record, platform
<1>2. w \in Raw /\ w.attempts = raw[r].attempts /\ w.state = "pending"
  BY DEF FlushInv, TypeOK, Raw
<1> HIDE DEF w
<1>3. /\ raw' \in [Rows -> Raw] /\ open' \in BOOLEAN
      /\ \A q \in Rows : /\ raw'[q].attempts = raw[q].attempts
                         /\ raw'[q].state = "flushed" => raw[q].state = "flushed"
  BY <1>1, <1>2 DEF FlushInv, TypeOK
<1> QED  BY <1>1, <1>3, BufferStep

LEMMA DeleteRowsStep == ASSUME FlushInv, DeleteRows PROVE FlushInv'
<1>1. UNCHANGED <<job, settled, open, posts, shared, uncounted, mishaps>>
  BY DEF DeleteRows, platform
<1>2. raw' = [r \in Rows |-> IF raw[r].state = "absent"
                             THEN raw[r] ELSE [raw[r] EXCEPT !.state = "deleted"]]
  BY DEF DeleteRows
<1>3. \A r \in Rows : LET w == [raw[r] EXCEPT !.state = "deleted"]
                      IN  w \in Raw /\ w.attempts = raw[r].attempts /\ w.state = "deleted"
  BY DEF FlushInv, TypeOK, Raw
<1>4. /\ raw' \in [Rows -> Raw] /\ open' \in BOOLEAN
      /\ \A q \in Rows : /\ raw'[q].attempts = raw[q].attempts
                         /\ raw'[q].state = "flushed" => raw[q].state = "flushed"
  BY <1>1, <1>2, <1>3 DEF FlushInv, TypeOK
<1> QED  BY <1>1, <1>4, BufferStep

LEMMA PoolStep == ASSUME FlushInv, DrainPool \/ ResetPool PROVE FlushInv'
<1>1. UNCHANGED <<raw, job, settled, posts, shared, uncounted, mishaps>> /\ open' \in BOOLEAN
  BY DEF DrainPool, ResetPool
<1>2. raw' \in [Rows -> Raw]
  BY <1>1 DEF FlushInv, TypeOK
<1> QED  BY <1>1, <1>2, BufferStep

\* A restart drops every flush; a row it had posted and not yet written is not counted.
LEMMA CrashStep == ASSUME FlushInv, FlushCrash PROVE FlushInv'
<1>1. /\ UNCHANGED <<raw, settled, open, posts, shared>> /\ mishaps' = mishaps + 1
      /\ job' = [j \in Jobs |-> Idle]
      /\ uncounted' = uncounted \cup UNION {Unwritten(j) : j \in Jobs}
  BY DEF FlushCrash, platform
<1>2. \A j \in Jobs : job'[j] = Idle /\ ~Holds(j)' /\ job'[j].pc = "idle"
  BY <1>1 DEF Holds, Idle
<1>3. \A j \in Jobs : Unwritten(j) = RowUnwritten(job[j]) /\ Unwritten(j) \subseteq Rows
  BY UnwrittenIs, BusyJob DEF RowUnwritten
<1>4. TypeOK'
  BY <1>1, <1>3 DEF FlushInv, TypeOK
<1>5. \A r \in Rows : ~InFlight(r)'
  BY <1>2 DEF InFlight, RowUnwritten
<1>6. \A r \in Rows : r \notin uncounted' => r \notin uncounted /\ ~InFlight(r)
  BY <1>1, <1>3 DEF InFlight
<1>7. PostsCounted'
  BY <1>1, <1>5, <1>6 DEF FlushInv, PostsCounted
<1> QED  BY <1>1, <1>2, <1>4, <1>7 DEF FlushInv, BatchOK, TwoHands, MarkSettled, FlushedIsSettled,
            EntryUnflushed, EntryCurrent, InHand

LEMMA FlushStutter == ASSUME FlushInv, UNCHANGED flushVars PROVE FlushInv'
<1>1. UNCHANGED <<raw, job, settled, posts, shared, uncounted, mishaps, open>>
  BY DEF flushVars
<1>2. raw' \in [Rows -> Raw] /\ open' \in BOOLEAN
  BY <1>1 DEF FlushInv, TypeOK
<1> QED  BY <1>1, <1>2, BufferStep

LEMMA JobStepInv == ASSUME FlushInv, NEW j \in Jobs, JobStep(j) PROVE FlushInv'
  BY SelectStep, PostStep, MarkStep, CountStep, EvictStep DEF JobStep

LEMMA FlushNextInv == ASSUME FlushInv, [FlushNext]_flushVars PROVE FlushInv'
<1>1. ASSUME NEW r \in Rows, Record(r) PROVE FlushInv'
  BY <1>1, RecordStep
<1>2. ASSUME NEW j \in Jobs, JobStep(j) PROVE FlushInv'
  BY <1>2, JobStepInv
<1> QED  BY <1>1, <1>2, DeleteRowsStep, PoolStep, CrashStep, FlushStutter DEF FlushNext

\* Every reachable state of the buffer and its flushes satisfies the inductive invariant.
THEOREM FlushInductive == FlushSpec => []FlushInv
<1> QED  BY FlushInitInv, FlushNextInv, PTL DEF FlushSpec

\* A row is marked flushed only if the platform has settled its key.
THEOREM SettledTheorem == FlushSpec => []FlushedIsSettled
<1>1. FlushInv => FlushedIsSettled
  BY DEF FlushInv
<1> QED  BY <1>1, FlushInductive, PTL

LEMMA CountsFollow == FlushInv => AttemptsCountPosts
<1> SUFFICES ASSUME FlushInv, NEW r \in Rows \ (shared \cup uncounted)
             PROVE  posts[r] = raw[r].attempts + Cardinality({j \in Jobs : r \in Unwritten(j)})
  BY DEF AttemptsCountPosts
<1> DEFINE carriers == {j \in Jobs : r \in Unwritten(j)}
<1>1. \A j \in Jobs : j \in carriers <=> r \in RowUnwritten(job[j])
  BY UnwrittenIs
<1>2. \A j \in carriers : job[j].pc \in {"mark", "count"} /\ InHand(j, r)
  BY <1>1, BusyJob DEF RowUnwritten
<1>3. posts[r] = raw[r].attempts + (IF InFlight(r) THEN 1 ELSE 0) /\ raw[r].attempts \in Nat
  BY DEF FlushInv, PostsCounted, TypeOK, Raw
<1>4. CASE InFlight(r)
  <2>1. PICK j \in Jobs : r \in RowUnwritten(job[j])
    BY <1>4 DEF InFlight
  <2>2. carriers = {j}
    BY <1>1, <1>2, <2>1, OthersApart
  <2>3. Cardinality(carriers) = 1
    BY <2>2, FS_Singleton
  <2> QED  BY <1>3, <1>4, <2>3
<1>5. CASE ~InFlight(r)
  <2>1. carriers = {}
    BY <1>1, <1>5 DEF InFlight
  <2>2. Cardinality(carriers) = 0
    BY <2>1, FS_EmptySet
  <2> QED  BY <1>3, <1>5, <2>2
<1> QED  BY <1>4, <1>5

\* The attempts of a row count its POSTs, the one in flight apart.
THEOREM CountsTheorem == FlushSpec => []AttemptsCountPosts
<1> QED  BY CountsFollow, FlushInductive, PTL

\* No flush is about to post a row that is marked flushed, unless two had read it at once.
THEOREM FinalTheorem == FlushSpec => []FlushedNotPosted
<1>1. ASSUME FlushInv PROVE FlushedNotPosted
  <2>1. SUFFICES ASSUME NEW j \in Jobs, job[j].pc = "post", raw[Current(j).row].state = "flushed"
                 PROVE  Current(j).row \in shared
    BY DEF FlushedNotPosted
  <2> QED  BY <1>1, <2>1, CurrentIsFirst, BusyJob DEF FlushInv, EntryUnflushed
<1> QED  BY <1>1, FlushInductive, PTL

-----------------------------------------------------------------------------
(* The ledger: the buffer and its flushes implement what the usage buffer promises. *)

\* What is in a batch has been recorded.
BatchIsRecorded == \A j \in Jobs : Holds(j) => \A e \in job[j].batch : raw[e.row].state # "absent"
Stages == [r \in Rows |-> raw[r].state]

\* Batches only lose entries, but for a query, and rows do not become absent.
LEMMA RecordedStays ==
    ASSUME FlushInv, BatchIsRecorded,
           \A r \in Rows : raw[r].state # "absent" => raw'[r].state # "absent",
           \A j \in Jobs : Holds(j)' => \/ Holds(j) /\ job'[j].batch \subseteq job[j].batch
                                        \/ job'[j].batch \subseteq NextBatch /\ UNCHANGED raw
    PROVE  BatchIsRecorded'
<1> SUFFICES ASSUME NEW j \in Jobs, Holds(j)', NEW e \in job'[j].batch PROVE raw'[e.row].state # "absent"
  BY DEF BatchIsRecorded
<1>1. CASE Holds(j) /\ job'[j].batch \subseteq job[j].batch
  <2>1. job[j].batch \subseteq Entry
    BY <1>1 DEF FlushInv, TypeOK, Busy, Holds
  <2> QED  BY <1>1, <2>1 DEF BatchIsRecorded, Entry
<1>2. CASE job'[j].batch \subseteq NextBatch /\ UNCHANGED raw
  BY <1>2, BatchFacts
<1> QED  BY <1>1, <1>2

\* A step on rows and outcomes, as the ledger has it.
LedgerStep == [Ledger!Next]_<<Stages, settled>>

LEMMA StagesStand == ASSUME \A r \in Rows : raw'[r].state = raw[r].state PROVE Stages' = Stages
  BY DEF Stages

LEMMA LedgerStutter ==
    ASSUME \A r \in Rows : raw'[r].state = raw[r].state, UNCHANGED settled PROVE LedgerStep
  BY StagesStand DEF LedgerStep

LEMMA LedgerRecord ==
    ASSUME FlushInv, BatchIsRecorded, NEW r \in Rows, Record(r) PROVE BatchIsRecorded' /\ LedgerStep
<1>1. /\ raw[r].state = "absent" /\ raw' = [raw EXCEPT ![r].state = "pending"]
      /\ UNCHANGED <<job, settled>>
  BY DEF Record, platform
<1>2. \A q \in Rows : raw'[q].state = IF q = r THEN "pending" ELSE raw[q].state
  BY <1>1 DEF FlushInv, TypeOK, Raw
<1>3. BatchIsRecorded'
  BY <1>1, <1>2, RecordedStays DEF Holds
<1>4. Stages' = [Stages EXCEPT ![r] = "pending"] /\ Stages[r] = "absent"
  BY <1>1, <1>2 DEF Stages
<1> QED  BY <1>1, <1>3, <1>4 DEF LedgerStep, Ledger!Next, Ledger!RecordRow, Stages

LEMMA LedgerErase == ASSUME FlushInv, BatchIsRecorded, DeleteRows PROVE BatchIsRecorded' /\ LedgerStep
<1>1. /\ raw' = [r \in Rows |-> IF raw[r].state = "absent" THEN raw[r] ELSE [raw[r] EXCEPT !.state = "deleted"]]
      /\ UNCHANGED <<job, settled>>
  BY DEF DeleteRows, platform
<1>2. \A q \in Rows : raw'[q].state = IF raw[q].state = "absent" THEN "absent" ELSE "deleted"
  BY <1>1 DEF FlushInv, TypeOK, Raw
<1>3. BatchIsRecorded'
  <2>1. \A q \in Rows : raw[q].state # "absent" => raw'[q].state # "absent"
    BY <1>2
  <2>2. \A i \in Jobs : Holds(i)' => Holds(i) /\ job'[i].batch \subseteq job[i].batch
    BY <1>1 DEF Holds
  <2> QED  BY <2>1, <2>2, RecordedStays
<1>4. Stages' = [r \in Rows |-> IF Stages[r] = "absent" THEN "absent" ELSE "deleted"]
  BY <1>2 DEF Stages
<1> QED  BY <1>1, <1>3, <1>4 DEF LedgerStep, Ledger!Next, Ledger!EraseRows, Stages

LEMMA LedgerPost ==
    ASSUME FlushInv, BatchIsRecorded, NEW j \in Jobs, Post(j) PROVE BatchIsRecorded' /\ LedgerStep
<1> DEFINE r == First(job[j].batch).row
<1>1. /\ UNCHANGED raw
      /\ \E new : job' = [job EXCEPT ![j] = new] /\ new.batch = job[j].batch
      /\ job[j].pc = "post"
  BY PostFacts
<1>2. Holds(j) /\ First(job[j].batch) \in job[j].batch /\ r \in Rows
  BY <1>1, BusyJob
<1>3. \A i \in Jobs : Holds(i)' => Holds(i) /\ job'[i].batch = job[i].batch
  BY <1>1, <1>2 DEF FlushInv, TypeOK, Holds
<1>4. BatchIsRecorded'
  BY <1>1, <1>3, RecordedStays
<1>5. Stages' = Stages /\ Stages[r] # "absent"
  BY <1>1, <1>2 DEF Stages, BatchIsRecorded
<1>6. Consume(r) \/ UNCHANGED settled
  <2>1. Current(j).row = r
    BY CurrentIsFirst
  <2> HIDE DEF r
  <2> QED  BY <2>1 DEF Post, platform
<1> HIDE DEF r
<1>7. CASE settled[r] = "no" /\ \E o \in {"consumed", "refused"} : settled' = [settled EXCEPT ![r] = o]
  BY <1>2, <1>4, <1>5, <1>7 DEF LedgerStep, Ledger!Next, Ledger!SettleRow, Stages
<1>8. CASE UNCHANGED settled
  BY <1>4, <1>5, <1>8 DEF LedgerStep
<1> QED  BY <1>6, <1>7, <1>8 DEF Consume, platform

\* The updates and the eviction: a row is marked only under an outcome, and only once.
LEMMA LedgerUpdate ==
    ASSUME FlushInv, BatchIsRecorded, NEW j \in Jobs, Mark(j) \/ Count(j) \/ Evict(j)
    PROVE  BatchIsRecorded' /\ LedgerStep
<1> DEFINE e == First(job[j].batch)
<1>1. Holds(j) /\ e \in job[j].batch /\ e.row \in Rows /\ job[j].pc \in {"mark", "count", "evict"}
  <2>1. job[j].pc \in {"mark", "count", "evict"}
    BY DEF Mark, Count, Evict
  <2> QED  BY <2>1, BusyJob
<1>2. \A i \in Jobs : Holds(i)' => Holds(i) /\ job'[i].batch \subseteq job[i].batch
  <2>1. \E new : /\ job' = [job EXCEPT ![j] = new]
                 /\ new = Idle \/ new.batch \subseteq job[j].batch
    <3>1. Rest(j) = Idle \/ Rest(j).batch \subseteq job[j].batch
      BY DEF Rest
    <3>2. CASE job' = [job EXCEPT ![j] = Rest(j)]
      BY <3>1, <3>2
    <3>3. CASE job' = [job EXCEPT ![j] = [job[j] EXCEPT !.pc = "evict"]]
      <4>1. [job[j] EXCEPT !.pc = "evict"].batch = job[j].batch
        BY <1>1 DEF FlushInv, TypeOK, Busy, Holds
      <4> QED  BY <3>3, <4>1
    <3>4. CASE job' = [job EXCEPT ![j] = [pc |-> "count", batch |-> job[j].batch]]
      <4>1. PICK new : new = [pc |-> "count", batch |-> job[j].batch]
        OBVIOUS
      <4>2. new.batch = job[j].batch /\ job' = [job EXCEPT ![j] = new]
        BY <3>4, <4>1
      <4> QED  BY <4>2
    <3>5. CASE job' = [job EXCEPT ![j] = Idle]
      BY <3>5
    <3> QED  BY <3>2, <3>3, <3>4, <3>5 DEF Mark, Count, Evict
  <2> QED  BY <1>1, <2>1 DEF FlushInv, TypeOK, Holds
<1>3. UNCHANGED settled
  BY DEF Mark, Count, Evict, platform
<1>4. CASE \A q \in Rows : raw'[q].state = raw[q].state
  BY <1>2, <1>3, <1>4, RecordedStays, LedgerStutter
<1>5. CASE /\ job[j].pc = "mark" /\ raw[e.row].state # "deleted"
           /\ raw' = [raw EXCEPT ![e.row] = [state |-> "flushed", attempts |-> AttemptsAfter(e)]]
  <2>1. \A q \in Rows : raw'[q].state = IF q = e.row THEN "flushed" ELSE raw[q].state
    BY <1>1, <1>5 DEF FlushInv, TypeOK
  <2>2. BatchIsRecorded'
    BY <1>2, <2>1, RecordedStays
  <2>3. Stages[e.row] \in {"pending", "flushed"} /\ settled[e.row] # "no"
    BY <1>1, <1>5 DEF Stages, BatchIsRecorded, FlushInv, MarkSettled, TypeOK, Raw
  <2>4. Stages' = [Stages EXCEPT ![e.row] = "flushed"]
    BY <2>1 DEF Stages
  <2> HIDE DEF e
  <2>5. CASE Stages[e.row] = "flushed"
    <3>1. Stages' = Stages
      BY <2>4, <2>5 DEF Stages
    <3> QED  BY <1>3, <2>2, <3>1 DEF LedgerStep
  <2>6. CASE Stages[e.row] = "pending"
    BY <1>1, <1>3, <2>2, <2>3, <2>4, <2>6 DEF LedgerStep, Ledger!Next, Ledger!MarkRow, Stages
  <2> QED  BY <2>3, <2>5, <2>6
<1>6. CASE raw' = [raw EXCEPT ![e.row].attempts = AttemptsAfter(e)]
  <2>1. \A q \in Rows : raw'[q].state = raw[q].state
    BY <1>1, <1>6 DEF FlushInv, TypeOK, Raw
  <2> QED  BY <1>4, <2>1
<1>7. CASE UNCHANGED raw
  BY <1>4, <1>7
<1> QED  BY <1>5, <1>6, <1>7, CurrentIsFirst DEF Mark, Count, Evict

LEMMA LedgerSelect ==
    ASSUME FlushInv, BatchIsRecorded, NEW j \in Jobs, Select(j) PROVE BatchIsRecorded' /\ LedgerStep
<1>1. /\ job' = [job EXCEPT ![j] = [pc |-> "post", batch |-> NextBatch]]
      /\ UNCHANGED <<raw, settled>>
  BY DEF Select, platform
<1>2. \A i \in Jobs : Holds(i)' => \/ Holds(i) /\ job'[i].batch \subseteq job[i].batch
                                   \/ job'[i].batch \subseteq NextBatch
  BY <1>1 DEF FlushInv, TypeOK, Holds
<1>3. BatchIsRecorded'
  BY <1>1, <1>2, RecordedStays
<1> QED  BY <1>1, <1>3, LedgerStutter

LEMMA LedgerRests ==
    ASSUME FlushInv, BatchIsRecorded, DrainPool \/ ResetPool \/ FlushCrash \/ UNCHANGED flushVars
    PROVE  BatchIsRecorded' /\ LedgerStep
<1>1. UNCHANGED <<raw, settled>>
  BY DEF DrainPool, ResetPool, FlushCrash, flushVars, platform
<1>2. \A i \in Jobs : Holds(i)' => Holds(i) /\ job'[i].batch = job[i].batch
  BY DEF DrainPool, ResetPool, FlushCrash, flushVars, Holds
<1> QED  BY <1>1, <1>2, RecordedStays, LedgerStutter

\* Every step of the buffer, of a flush, of the platform and of the process is one of the ledger
\* or leaves rows and outcomes alone.
LEMMA LedgerSimulates ==
    ASSUME FlushInv, BatchIsRecorded, [FlushNext \/ ResetPool]_flushVars
    PROVE  BatchIsRecorded' /\ LedgerStep
<1>1. ASSUME NEW r \in Rows, Record(r) PROVE BatchIsRecorded' /\ LedgerStep
  BY <1>1, LedgerRecord
<1>2. ASSUME NEW j \in Jobs, JobStep(j) PROVE BatchIsRecorded' /\ LedgerStep
  BY <1>2, LedgerSelect, LedgerPost, LedgerUpdate DEF JobStep
<1> QED  BY <1>1, <1>2, LedgerErase, LedgerRests DEF FlushNext

LEMMA LedgerBegins == FlushInit => BatchIsRecorded /\ Ledger!Init
<1> SUFFICES ASSUME FlushInit PROVE BatchIsRecorded /\ Ledger!Init
  OBVIOUS
<1>1. BatchIsRecorded
  BY DEF FlushInit, BatchIsRecorded, Holds
<1>2. [r \in Rows |-> raw[r].state] = [r \in Rows |-> "absent"]
  BY DEF FlushInit
<1> QED  BY <1>1, <1>2 DEF FlushInit, Ledger!Init

\* The buffer and its flushes implement the ledger: only recorded usage is reported, each row
\* under one outcome, and a row that is marked has one (usage/buffer.ts, usage/flush.ts), for
\* any number of rows, flushes, lost answers, failing updates and restarts.
THEOREM LedgerTheorem == FlushSpec => RowsAreReportedOnce
<1>1. FlushInit => BatchIsRecorded /\ Ledger!Init
  BY LedgerBegins
<1>2. FlushInv /\ BatchIsRecorded /\ [FlushNext]_flushVars => BatchIsRecorded' /\ LedgerStep
  BY LedgerSimulates
<1> QED  BY <1>1, <1>2, FlushInductive, PTL DEF FlushSpec, RowsAreReportedOnce, Ledger!Spec, LedgerStep, Stages

-----------------------------------------------------------------------------
(* Metering: the flush, the resolver and the pool together. *)

EP == INSTANCE Entitlement_proofs WITH Workspaces <- {Workspace}

\* The resolver of Metering is the one Entitlement_proofs is about.
LEMMA ResolverSame ==
    /\ Entitlement!CacheTypeOK <=> EP!CacheTypeOK
    /\ Entitlement!CacheInit <=> EP!CacheInit
    /\ \A r \in Resolvers : Entitlement!Resolve(r, Workspace) <=> EP!Resolve(r, Workspace)
    /\ \A r \in Resolvers : Entitlement!PlatformAnswers(r) <=> EP!PlatformAnswers(r)
    /\ \A r \in Resolvers : Entitlement!PlatformFails(r) <=> EP!PlatformFails(r)
    /\ \A r \in Resolvers : Entitlement!Store(r) <=> EP!Store(r)
    /\ \A r \in Resolvers : Entitlement!Use(r) <=> EP!Use(r)
    /\ Entitlement!Invalidate(Workspace) <=> EP!Invalidate(Workspace)
    /\ Entitlement!Change(Workspace) <=> EP!Change(Workspace)
    /\ Entitlement!ClockTick <=> EP!ClockTick
    /\ Entitlement!Restart <=> EP!Restart
<1>1. Entitlement!CacheTypeOK <=> EP!CacheTypeOK
  BY DEF Entitlement!CacheTypeOK, EP!CacheTypeOK, Entitlement!CacheEntry, EP!CacheEntry,
         Entitlement!Resolving, EP!Resolving, Entitlement!Answer, EP!Answer,
         Entitlement!ResolverIdle, EP!ResolverIdle
<1>2. Entitlement!CacheInit <=> EP!CacheInit
  BY DEF Entitlement!CacheInit, EP!CacheInit, Entitlement!ResolverIdle, EP!ResolverIdle
<1>3. \A r \in Resolvers : Entitlement!Resolve(r, Workspace) <=> EP!Resolve(r, Workspace)
  BY DEF Entitlement!Resolve, EP!Resolve, Entitlement!Fresh, EP!Fresh, Entitlement!Answered, EP!Answered,
         Entitlement!HitKeeps, EP!HitKeeps, Entitlement!Lifetime, EP!Lifetime,
         Entitlement!ResolverIdle, EP!ResolverIdle
<1>4. \A r \in Resolvers : Entitlement!PlatformAnswers(r) <=> EP!PlatformAnswers(r)
  BY DEF Entitlement!PlatformAnswers, EP!PlatformAnswers
<1>5. \A r \in Resolvers : Entitlement!PlatformFails(r) <=> EP!PlatformFails(r)
  BY DEF Entitlement!PlatformFails, EP!PlatformFails, Entitlement!Answered, EP!Answered,
         Entitlement!ResolverIdle, EP!ResolverIdle
<1>6. \A r \in Resolvers : Entitlement!Store(r) <=> EP!Store(r)
  BY DEF Entitlement!Store, EP!Store, Entitlement!Answered, EP!Answered, Entitlement!TtlLeft, EP!TtlLeft,
         Entitlement!ResolverIdle, EP!ResolverIdle
<1>7. \A r \in Resolvers : Entitlement!Use(r) <=> EP!Use(r)
  BY DEF Entitlement!Use, EP!Use
<1>8. Entitlement!Invalidate(Workspace) <=> EP!Invalidate(Workspace)
  BY DEF Entitlement!Invalidate, EP!Invalidate, Entitlement!Evicted, EP!Evicted,
         Entitlement!ResolverIdle, EP!ResolverIdle
<1>9. Entitlement!Change(Workspace) <=> EP!Change(Workspace)
  BY DEF Entitlement!Change, EP!Change
<1>10. Entitlement!ClockTick <=> EP!ClockTick
  BY DEF Entitlement!ClockTick, EP!ClockTick, Entitlement!Aged, EP!Aged, Entitlement!AgedFetch,
         EP!AgedFetch, Entitlement!Fresh, EP!Fresh, Entitlement!Older, EP!Older,
         Entitlement!ResolverIdle, EP!ResolverIdle
<1>11. Entitlement!Restart <=> EP!Restart
  BY DEF Entitlement!Restart, EP!Restart, Entitlement!ResolverIdle, EP!ResolverIdle
<1> QED  BY <1>1, <1>2, <1>3, <1>4, <1>5, <1>6, <1>7, <1>8, <1>9, <1>10, <1>11

ResolverMoves ==
    \/ \E r \in Resolvers : EP!Resolve(r, Workspace) \/ EP!ResolverStep(r) \/ EP!Use(r)
    \/ EP!Invalidate(Workspace) \/ EP!Change(Workspace)
    \/ EP!ClockTick \/ EP!Restart
    \/ UNCHANGED cacheVars

LEMMA MeteringNone2 == None \notin EP!CacheEntry \cup EP!Answer
  BY MeteringNone DEF Entitlement!CacheEntry, EP!CacheEntry, Entitlement!Answer, EP!Answer

LEMMA ResolverInv == ASSUME EP!IInv, ResolverMoves PROVE EP!IInv'
<1>1. EP!CacheNext \/ UNCHANGED EP!cacheVars
  BY DEF ResolverMoves, EP!CacheNext, EP!cacheVars, cacheVars
<1> QED  BY <1>1, EP!NextStep, MeteringBounds, MeteringNone2

\* No resolve, and no answer, gets another floor than the one it began with.
FloorsKept == \A r \in Resolvers :
    /\ EP!Busy(r)' => EP!Busy(r) /\ resolver'[r].floor = resolver[r].floor
    /\ answer'[r] # None =>
           \/ answer[r] # None /\ answer'[r].floor = answer[r].floor
           \/ EP!Busy(r) /\ answer'[r].floor = resolver[r].floor

LEMMA ResolveFloors ==
    ASSUME EP!IInv, NEW r \in Resolvers, EP!Resolve(r, Workspace)
    PROVE  /\ UNCHANGED <<envelope, floor>>
           /\ \A q \in Resolvers : q # r => resolver'[q] = resolver[q] /\ answer'[q] = answer[q]
           /\ EP!Busy(r)' => resolver'[r].floor = floor[Workspace]
           /\ answer'[r] # None => answer'[r].floor = floor[Workspace]
  BY DEF EP!IInv, EP!CacheTypeOK, EP!Resolve, EP!Answered, EP!Busy

LEMMA StepFloors ==
    ASSUME EP!IInv, NEW r \in Resolvers, EP!ResolverStep(r)
    PROVE  UNCHANGED <<envelope, floor>> /\ FloorsKept
<1>0. resolver[r].pc # "idle" => EP!Busy(r)
  BY DEF EP!Busy, EP!ResolverIdle
<1>1. CASE EP!PlatformAnswers(r)
  <2>1. EP!Busy(r) /\ resolver[r] \in EP!Resolving
    BY <1>0, <1>1 DEF EP!PlatformAnswers, EP!IInv, EP!CacheTypeOK, EP!Busy
  <2> DEFINE new == [resolver[r] EXCEPT !.pc = "store", !.got = envelope[resolver[r].w]]
  <2>2. /\ resolver' = [resolver EXCEPT ![r] = new] /\ UNCHANGED <<envelope, answer, floor>>
        /\ new.floor = resolver[r].floor
    BY <1>1, <2>1 DEF EP!PlatformAnswers, EP!Resolving
  <2> HIDE DEF new
  <2> QED  BY <2>1, <2>2 DEF EP!IInv, EP!CacheTypeOK, FloorsKept, EP!Busy
<1>2. CASE EP!PlatformFails(r)
  BY <1>0, <1>2 DEF EP!PlatformFails, EP!Answered, EP!IInv, EP!CacheTypeOK, FloorsKept, EP!Busy
<1>3. CASE EP!Store(r)
  BY <1>0, <1>3 DEF EP!Store, EP!Answered, EP!IInv, EP!CacheTypeOK, FloorsKept, EP!Busy
<1> QED  BY <1>1, <1>2, <1>3 DEF EP!ResolverStep

LEMMA UseFloors ==
    ASSUME EP!IInv, NEW r \in Resolvers, EP!Use(r)
    PROVE  UNCHANGED <<envelope, floor>> /\ FloorsKept
  BY DEF EP!Use, EP!IInv, EP!CacheTypeOK, FloorsKept, EP!Busy

LEMMA InvalidateFloors ==
    ASSUME EP!IInv, EP!Invalidate(Workspace)
    PROVE  envelope' = envelope /\ floor'[Workspace] = envelope[Workspace] /\ FloorsKept
<1>1. /\ UNCHANGED <<envelope, answer>> /\ floor'[Workspace] = envelope[Workspace]
      /\ \A r \in Resolvers : resolver'[r] = IF EP!Busy(r) /\ resolver[r].w = Workspace
                                            THEN [resolver[r] EXCEPT !.evicted = TRUE]
                                            ELSE resolver[r]
  BY DEF EP!Invalidate, EP!IInv, EP!CacheTypeOK, EP!Busy
<1>2. \A r \in Resolvers : EP!Busy(r) => [resolver[r] EXCEPT !.evicted = TRUE].floor = resolver[r].floor
  BY DEF EP!IInv, EP!CacheTypeOK, EP!Busy, EP!Resolving
<1>3. \A r \in Resolvers : EP!Busy(r)' => EP!Busy(r) /\ resolver'[r].floor = resolver[r].floor
  BY <1>1, <1>2 DEF EP!Busy
<1> QED  BY <1>1, <1>3 DEF FloorsKept

LEMMA ChangeFloors ==
    ASSUME EP!IInv, EP!Change(Workspace)
    PROVE  envelope'[Workspace] = envelope[Workspace] + 1 /\ floor' = floor /\ FloorsKept
  BY DEF EP!Change, EP!IInv, EP!CacheTypeOK, FloorsKept, EP!Busy

LEMMA TickFloors ==
    ASSUME EP!IInv, EP!ClockTick
    PROVE  UNCHANGED <<envelope, floor>> /\ FloorsKept
<1>1. UNCHANGED <<envelope, answer, floor>> /\ \A r \in Resolvers : resolver'[r] = EP!AgedFetch(resolver[r])
  BY DEF EP!ClockTick
<1>2. \A r \in Resolvers : ~EP!Busy(r) => resolver'[r] = EP!ResolverIdle
  BY <1>1 DEF EP!AgedFetch, EP!Busy
<1>3. \A r \in Resolvers : EP!Busy(r) => resolver'[r].floor = resolver[r].floor
  BY <1>1, EP!AgedResolver, MeteringBounds, MeteringNone2
<1> QED  BY <1>1, <1>2, <1>3 DEF FloorsKept, EP!Busy

LEMMA RestartFloors ==
    ASSUME EP!Restart
    PROVE  UNCHANGED <<envelope, floor>> /\ FloorsKept
  BY DEF EP!Restart, FloorsKept, EP!Busy

-----------------------------------------------------------------------------
(* The invariant of Metering. *)

\* The versions that say that there is no quota.
Odd(v) == v \in Nat /\ v % 2 = 1
RefusedBy(v, limit) == v = NoRefusal \/ (Odd(v) /\ v <= limit)

\* The envelope tells what the pool is.
Parity == open <=> envelope[Workspace] % 2 = 0

\* A refusal is of a version without quota, and not of one to come.
RefusalsPast == \A j \in Jobs : RefusedBy(refusedAt[j], envelope[Workspace])

\* A flush is through with a refusal only after the eviction: no fetch that begins later gets
\* the refused version.
RefusalEvicted == RefusedBy(refusal, floor[Workspace])

KnownBelow(r) ==
    /\ known[r] = NoRefusal \/ Odd(known[r])
    /\ EP!Busy(r) => known[r] <= resolver[r].floor
    /\ answer[r] # None => known[r] <= answer[r].floor

MeteringInv ==
    /\ FlushInv
    /\ EP!IInv
    /\ refusedAt \in [Jobs -> Nat \cup {NoRefusal}]
    /\ refusal \in Nat \cup {NoRefusal}
    /\ known \in [Resolvers -> Nat \cup {NoRefusal}]
    /\ Parity
    /\ RefusalsPast
    /\ RefusalEvicted
    /\ \A r \in Resolvers : KnownBelow(r)

LEMMA ResolverTypes ==
    ASSUME EP!IInv
    PROVE  /\ envelope[Workspace] \in Nat /\ floor[Workspace] \in Nat
           /\ floor[Workspace] <= envelope[Workspace]
  BY DEF EP!IInv, EP!CacheTypeOK, EP!FloorIsPast

LEMMA FloorTypes ==
    ASSUME EP!IInv, NEW r \in Resolvers
    PROVE  /\ EP!Busy(r) => resolver[r].floor \in Nat
           /\ answer[r] # None => answer[r].floor \in Nat
  BY DEF EP!IInv, EP!CacheTypeOK, EP!Busy, EP!Resolving, EP!Answer

LEMMA MeteringInit == Init => MeteringInv
<1> SUFFICES ASSUME Init PROVE MeteringInv
  OBVIOUS
<1>1. FlushInv
  BY FlushInitInv DEF Init
<1>2. EP!CacheInit
  BY ResolverSame DEF Init
<1>3. EP!IInv
  BY <1>2, EP!InitIInv, MeteringBounds, MeteringNone2
<1>4. /\ refusedAt \in [Jobs -> Nat \cup {NoRefusal}] /\ refusal \in Nat \cup {NoRefusal}
      /\ known \in [Resolvers -> Nat \cup {NoRefusal}]
  BY DEF Init
<1>5. open = TRUE /\ envelope[Workspace] = 0
  BY <1>2 DEF Init, FlushInit, EP!CacheInit
<1>6. Parity
  BY <1>5 DEF Parity
<1>7. RefusalsPast /\ RefusalEvicted
  BY DEF Init, RefusalsPast, RefusalEvicted, RefusedBy
<1>8. \A r \in Resolvers : KnownBelow(r)
  BY <1>2 DEF Init, KnownBelow, EP!CacheInit, EP!Busy
<1> QED  BY <1>1, <1>3, <1>4, <1>6, <1>7, <1>8 DEF MeteringInv

LEMMA KnownKept ==
    ASSUME MeteringInv, FloorsKept, UNCHANGED known
    PROVE  \A r \in Resolvers : KnownBelow(r)'
  BY DEF MeteringInv, KnownBelow, FloorsKept, EP!Busy

\* A step that moves neither the pool nor the versions it is known by.
LEMMA QuietStep ==
    ASSUME MeteringInv, FlushInv', EP!IInv', FloorsKept,
           UNCHANGED <<open, refusedAt, refusal, known>>, envelope'[Workspace] = envelope[Workspace],
           floor[Workspace] <= floor'[Workspace]
    PROVE  MeteringInv'
<1>1. Parity' /\ RefusalsPast'
  BY DEF MeteringInv, Parity, RefusalsPast
<1>2. floor'[Workspace] \in Nat /\ floor[Workspace] \in Nat
  BY ResolverTypes DEF MeteringInv, EP!IInv, EP!CacheTypeOK
<1>3. RefusalEvicted'
  BY <1>2 DEF MeteringInv, RefusalEvicted, RefusedBy, Odd
<1> QED  BY <1>1, <1>3, KnownKept DEF MeteringInv

LEMMA BeginRunStep == ASSUME MeteringInv, NEW r \in Resolvers, BeginRun(r) PROVE MeteringInv'
<1>1. EP!Resolve(r, Workspace) /\ known' = [known EXCEPT ![r] = refusal]
      /\ UNCHANGED <<flushVars, refusedAt, refusal>>
  BY ResolverSame DEF BeginRun
<1>2. FlushInv' /\ UNCHANGED open
  BY <1>1, FlushStutter DEF MeteringInv, flushVars
<1>3. EP!IInv'
  BY <1>1, ResolverInv DEF MeteringInv, ResolverMoves
<1>4. /\ UNCHANGED <<envelope, floor>>
      /\ \A q \in Resolvers : q # r => resolver'[q] = resolver[q] /\ answer'[q] = answer[q]
      /\ EP!Busy(r)' => resolver'[r].floor = floor[Workspace]
      /\ answer'[r] # None => answer'[r].floor = floor[Workspace]
  BY <1>1, ResolveFloors DEF MeteringInv
<1>5. Parity' /\ RefusalsPast' /\ RefusalEvicted'
  BY <1>1, <1>2, <1>4 DEF MeteringInv, Parity, RefusalsPast, RefusalEvicted
<1>6. refusal <= floor[Workspace]
  BY ResolverTypes DEF MeteringInv, RefusalEvicted, RefusedBy, NoRefusal
<1>7. known' \in [Resolvers -> Nat \cup {NoRefusal}]
  BY <1>1 DEF MeteringInv
<1>8. ASSUME NEW q \in Resolvers PROVE KnownBelow(q)'
  <2>1. CASE q = r
    <3>1. known'[q] = refusal
      BY <1>1, <2>1 DEF MeteringInv
    <3> QED  BY <1>4, <1>6, <2>1, <3>1 DEF MeteringInv, KnownBelow, RefusalEvicted, RefusedBy
  <2>2. CASE q # r
    BY <1>1, <1>4, <2>2 DEF MeteringInv, KnownBelow, EP!Busy
  <2> QED  BY <2>1, <2>2
<1> QED  BY <1>1, <1>2, <1>3, <1>5, <1>7, <1>8 DEF MeteringInv

LEMMA AnsweringStep == ASSUME MeteringInv, NEW r \in Resolvers, Answering(r) PROVE MeteringInv'
<1>1. EP!ResolverStep(r) /\ UNCHANGED <<flushVars, history>>
  BY ResolverSame DEF Answering, Entitlement!ResolverStep, EP!ResolverStep
<1>2. FlushInv' /\ UNCHANGED <<open, refusedAt, refusal, known>>
  BY <1>1, FlushStutter DEF MeteringInv, flushVars, history
<1>3. EP!IInv'
  BY <1>1, ResolverInv DEF MeteringInv, ResolverMoves
<1>4. UNCHANGED <<envelope, floor>> /\ FloorsKept
  BY <1>1, StepFloors DEF MeteringInv
<1> QED  BY <1>2, <1>3, <1>4, QuietStep, ResolverTypes DEF MeteringInv

LEMMA UsedStep ==
    ASSUME MeteringInv, NEW r \in Resolvers, Entitlement!Use(r), FlushInv', UNCHANGED <<open, history>>
    PROVE  MeteringInv'
<1>1. EP!Use(r) /\ UNCHANGED <<refusedAt, refusal, known>>
  BY ResolverSame DEF history
<1>2. EP!IInv'
  BY <1>1, ResolverInv DEF MeteringInv, ResolverMoves
<1>3. UNCHANGED <<envelope, floor>> /\ FloorsKept
  BY <1>1, UseFloors DEF MeteringInv
<1> QED  BY <1>1, <1>2, <1>3, QuietStep, ResolverTypes DEF MeteringInv

LEMMA EndRunStep == ASSUME MeteringInv, NEW r \in Resolvers, EndRun(r) PROVE MeteringInv'
<1>1. FlushInv' /\ UNCHANGED open
  BY FlushStutter DEF EndRun, MeteringInv, flushVars
<1> QED  BY <1>1, UsedStep DEF EndRun

LEMMA AdmitRunStep ==
    ASSUME MeteringInv, NEW r \in Resolvers, NEW u \in Rows, AdmitRun(r, u) PROVE MeteringInv'
<1>1. FlushInv' /\ UNCHANGED open
  BY RecordStep DEF AdmitRun, MeteringInv, Record, platform
<1> QED  BY <1>1, UsedStep DEF AdmitRun

\* A step of the flush that is not the eviction.
LEMMA ResolverRests ==
    ASSUME MeteringInv, UNCHANGED cacheVars
    PROVE  EP!IInv' /\ FloorsKept /\ UNCHANGED <<envelope, floor>>
<1>1. EP!IInv'
  BY ResolverInv DEF MeteringInv, ResolverMoves
<1>2. UNCHANGED <<envelope, floor, resolver, answer>>
  BY DEF cacheVars
<1> QED  BY <1>1, <1>2 DEF FloorsKept, EP!Busy

LEMMA ReportStep == ASSUME MeteringInv, NEW j \in Jobs, Report(j) PROVE MeteringInv'
<1>1. FlushInv' /\ UNCHANGED <<open, refusal, known>>
  BY PostStep, PostFacts DEF MeteringInv, Report
<1>2. EP!IInv' /\ FloorsKept /\ UNCHANGED <<envelope, floor>>
  BY ResolverRests DEF Report
<1>3. \/ refusedAt' = refusedAt
      \/ ~open /\ refusedAt' = [refusedAt EXCEPT ![j] = envelope[Workspace]]
  BY DEF Report
<1>4. envelope[Workspace] \in Nat /\ (~open => Odd(envelope[Workspace]))
  BY ResolverTypes DEF MeteringInv, Parity, Odd
<1>5. refusedAt' \in [Jobs -> Nat \cup {NoRefusal}]
  BY <1>3, <1>4 DEF MeteringInv
<1>6. RefusalsPast'
  BY <1>2, <1>3, <1>4 DEF MeteringInv, RefusalsPast, RefusedBy
<1>7. Parity' /\ RefusalEvicted'
  BY <1>1, <1>2 DEF MeteringInv, Parity, RefusalEvicted
<1> QED  BY <1>1, <1>2, <1>5, <1>6, <1>7, KnownKept DEF MeteringInv

\* Between the refusal and the eviction nothing is passed.
LEMMA OnlyEvictPasses ==
    ASSUME MeteringInv, NEW j \in Jobs, Select(j) \/ Mark(j) \/ Count(j) PROVE ~Passed(j)
<1>1. CASE Select(j)
  BY <1>1 DEF Select, Passed, Idle
<1>2. CASE Count(j)
  BY <1>2 DEF Count, Passed
<1>3. CASE Mark(j)
  <2>1. SUFFICES ASSUME job[j].status = 409 PROVE job'[j].pc \in {"evict", "count"}
    BY DEF Passed
  <2>2. job[j].pc = "mark" /\ job[j] \in Busy
    BY <1>3, BusyJob DEF MeteringInv, Mark
  <2> DEFINE over == [job[j] EXCEPT !.pc = "evict"]
             fails == [pc |-> "count", batch |-> job[j].batch]
  <2>3. over.pc = "evict" /\ fails.pc = "count"
    BY <2>2 DEF Busy
  <2>4. job' = [job EXCEPT ![j] = over] \/ job' = [job EXCEPT ![j] = fails]
    BY <1>3, <2>1 DEF Mark, Refused
  <2> HIDE DEF over, fails
  <2>5. job'[j] = over \/ job'[j] = fails
    BY <2>4 DEF MeteringInv, FlushInv, TypeOK
  <2> QED  BY <2>3, <2>5
<1> QED  BY <1>1, <1>2, <1>3

LEMMA SettleStep == ASSUME MeteringInv, NEW j \in Jobs, Settle(j) PROVE MeteringInv'
<1>1. UNCHANGED <<refusedAt, known>>
  BY DEF Settle, Remember
<1>2. CASE (Select(j) \/ Mark(j) \/ Count(j)) /\ UNCHANGED cacheVars
  <2>1. FlushInv' /\ UNCHANGED open
    BY <1>2, SelectStep, MarkStep, CountStep DEF MeteringInv, Select, Mark, Count, platform
  <2>2. UNCHANGED refusal
    BY <1>2, OnlyEvictPasses DEF Settle, Remember
  <2> QED  BY <1>1, <1>2, <2>1, <2>2, ResolverRests, QuietStep, ResolverTypes DEF MeteringInv
<1>3. CASE Evict(j) /\ Entitlement!Invalidate(Workspace)
  <2>1. FlushInv' /\ UNCHANGED open
    BY <1>3, EvictStep DEF MeteringInv, Evict, platform
  <2>2. EP!Invalidate(Workspace)
    BY <1>3, ResolverSame
  <2>3. EP!IInv'
    BY <2>2, ResolverInv DEF MeteringInv, ResolverMoves
  <2>4. envelope' = envelope /\ floor'[Workspace] = envelope[Workspace] /\ FloorsKept
    BY <2>2, InvalidateFloors DEF MeteringInv
  <2>5. refusal' = refusal \/ refusal' = refusedAt[j]
    BY DEF Settle, Remember, NewerOf
  <2>6. RefusalEvicted' /\ refusal' \in Nat \cup {NoRefusal}
    BY <2>4, <2>5, ResolverTypes DEF MeteringInv, RefusalEvicted, RefusalsPast, RefusedBy, Odd
  <2>7. Parity' /\ RefusalsPast'
    BY <1>1, <2>1, <2>4 DEF MeteringInv, Parity, RefusalsPast
  <2> QED  BY <1>1, <2>1, <2>3, <2>4, <2>6, <2>7, KnownKept DEF MeteringInv
<1> QED  BY <1>2, <1>3 DEF Settle

LEMMA PoolMovesStep == ASSUME MeteringInv, PoolMoves PROVE MeteringInv'
<1>1. EP!Change(Workspace) /\ UNCHANGED <<refusedAt, refusal, known>>
  BY ResolverSame DEF PoolMoves, history
<1>2. FlushInv'
  BY PoolStep DEF MeteringInv, PoolMoves
<1>3. open' \in BOOLEAN /\ open \in BOOLEAN /\ (open' <=> ~open)
  BY DEF PoolMoves, DrainPool, ResetPool, MeteringInv, FlushInv, TypeOK
<1>4. EP!IInv'
  BY <1>1, ResolverInv DEF MeteringInv, ResolverMoves
<1>5. envelope'[Workspace] = envelope[Workspace] + 1 /\ floor' = floor /\ FloorsKept
  BY <1>1, ChangeFloors DEF MeteringInv
<1>6. Parity'
  BY <1>3, <1>5, ResolverTypes DEF MeteringInv, Parity
<1>7. RefusalsPast' /\ RefusalEvicted'
  BY <1>1, <1>5, ResolverTypes DEF MeteringInv, RefusalsPast, RefusalEvicted, RefusedBy, Odd
<1> QED  BY <1>1, <1>2, <1>4, <1>5, <1>6, <1>7, KnownKept DEF MeteringInv

LEMMA SubscriptionStep == ASSUME MeteringInv, SubscriptionChanged PROVE MeteringInv'
<1>1. EP!Invalidate(Workspace) /\ UNCHANGED <<refusedAt, refusal, known>>
  BY ResolverSame DEF SubscriptionChanged, history
<1>2. FlushInv' /\ UNCHANGED open
  BY FlushStutter DEF MeteringInv, SubscriptionChanged, flushVars
<1>3. EP!IInv'
  BY <1>1, ResolverInv DEF MeteringInv, ResolverMoves
<1>4. envelope' = envelope /\ floor'[Workspace] = envelope[Workspace] /\ FloorsKept
  BY <1>1, InvalidateFloors DEF MeteringInv
<1> QED  BY <1>1, <1>2, <1>3, <1>4, ResolverTypes, QuietStep DEF MeteringInv

LEMMA TickStep == ASSUME MeteringInv, ClockTick PROVE MeteringInv'
<1>1. EP!ClockTick /\ UNCHANGED <<refusedAt, refusal, known>>
  BY ResolverSame DEF ClockTick, history
<1>2. FlushInv' /\ UNCHANGED open
  BY FlushStutter DEF MeteringInv, ClockTick, flushVars
<1>3. EP!IInv'
  BY <1>1, ResolverInv DEF MeteringInv, ResolverMoves
<1>4. UNCHANGED <<envelope, floor>> /\ FloorsKept
  BY <1>1, TickFloors DEF MeteringInv
<1> QED  BY <1>1, <1>2, <1>3, <1>4, ResolverTypes, QuietStep DEF MeteringInv

LEMMA SweepStep == ASSUME MeteringInv, Sweep PROVE MeteringInv'
<1>1. FlushInv' /\ UNCHANGED <<open, refusedAt, refusal, known>>
  BY DeleteRowsStep DEF MeteringInv, Sweep, DeleteRows, platform, history
<1>2. EP!IInv' /\ FloorsKept /\ UNCHANGED <<envelope, floor>>
  BY ResolverRests DEF Sweep
<1> QED  BY <1>1, <1>2, ResolverTypes, QuietStep DEF MeteringInv

LEMMA ProcessCrashStep == ASSUME MeteringInv, Crash PROVE MeteringInv'
<1>1. EP!Restart /\ UNCHANGED <<refusedAt, refusal, known>>
  BY ResolverSame DEF Crash, history
<1>2. FlushInv' /\ UNCHANGED open
  BY CrashStep DEF MeteringInv, Crash, FlushCrash, platform
<1>3. EP!IInv'
  BY <1>1, ResolverInv DEF MeteringInv, ResolverMoves
<1>4. UNCHANGED <<envelope, floor>> /\ FloorsKept
  BY <1>1, RestartFloors
<1> QED  BY <1>1, <1>2, <1>3, <1>4, ResolverTypes, QuietStep DEF MeteringInv

LEMMA MeteringStutter == ASSUME MeteringInv, UNCHANGED vars PROVE MeteringInv'
<1>1. UNCHANGED flushVars /\ UNCHANGED cacheVars /\ UNCHANGED <<refusedAt, refusal, known>>
  BY DEF vars, history
<1>2. FlushInv' /\ UNCHANGED open
  BY <1>1, FlushStutter DEF MeteringInv, flushVars
<1> QED  BY <1>1, <1>2, ResolverRests, ResolverTypes, QuietStep DEF MeteringInv

LEMMA MeteringNext == ASSUME MeteringInv, [Next]_vars PROVE MeteringInv'
<1>1. ASSUME NEW r \in Resolvers, BeginRun(r) \/ Answering(r) \/ EndRun(r) PROVE MeteringInv'
  BY <1>1, BeginRunStep, AnsweringStep, EndRunStep
<1>2. ASSUME NEW r \in Resolvers, NEW u \in Rows, AdmitRun(r, u) PROVE MeteringInv'
  BY <1>2, AdmitRunStep
<1>3. ASSUME NEW j \in Jobs, Report(j) \/ Settle(j) PROVE MeteringInv'
  BY <1>3, ReportStep, SettleStep
<1> QED  BY <1>1, <1>2, <1>3, PoolMovesStep, SubscriptionStep, TickStep, SweepStep,
            ProcessCrashStep, MeteringStutter DEF Next

\* Every reachable state of Metering satisfies the inductive invariant.
THEOREM MeteringInductive == Spec => []MeteringInv
<1> QED  BY MeteringInit, MeteringNext, PTL DEF Spec

\* Type correctness.
THEOREM MeteringTypes == Spec => []MeteringTypeOK
<1>1. ASSUME MeteringInv PROVE MeteringTypeOK
  BY <1>1, ResolverSame DEF MeteringInv, MeteringTypeOK, FlushInv, EP!IInv
<1> QED  BY <1>1, MeteringInductive, PTL

\* A run that asks after the flush has dealt with a refusal is let in only on a newer envelope.
THEOREM GateTheorem == Spec => []GateAfterRefusal
<1>1. ASSUME MeteringInv PROVE GateAfterRefusal
  <2>1. SUFFICES ASSUME NEW r \in Resolvers, answer[r] # None, answer[r].kind # "fallback",
                        ~answer[r].late, Admits(answer[r])
                 PROVE  answer[r].version > known[r]
    BY DEF GateAfterRefusal
  <2>2. /\ answer[r].version \in Nat /\ answer[r].floor \in Nat
        /\ answer[r].version >= answer[r].floor
    BY <1>1, <2>1 DEF MeteringInv, EP!IInv, EP!CacheTypeOK, EP!Answer, EP!EvictionHolds
  <2>3. answer[r].version % 2 = 0
    BY <2>1 DEF Admits, HasQuota
  <2>4. /\ known[r] <= answer[r].floor
        /\ known[r] = -1 \/ (known[r] \in Nat /\ known[r] % 2 = 1)
    BY <1>1, <2>1 DEF MeteringInv, KnownBelow, Odd, NoRefusal
  <2> QED  BY <2>2, <2>3, <2>4
<1> QED  BY <1>1, MeteringInductive, PTL

\* What is proved of a row and its flush holds in the whole of Metering, refills included.
THEOREM MeteringCounts == Spec => [](FlushedIsSettled /\ AttemptsCountPosts)
<1>1. MeteringInv => FlushedIsSettled /\ AttemptsCountPosts
  BY CountsFollow DEF MeteringInv, FlushInv
<1> QED  BY <1>1, MeteringInductive, PTL

\* Metering implements the ledger too: neither the gate nor a refill reports a row twice or marks
\* one without an outcome (usage/flush.ts, quality/actions.ts).
THEOREM MeteringLedger == Spec => RowsAreReportedOnce
<1>1. Init => BatchIsRecorded /\ Ledger!Init
  BY LedgerBegins DEF Init
<1>2. MeteringInv /\ BatchIsRecorded /\ [Next]_vars => BatchIsRecorded' /\ LedgerStep
  <2>1. [Next]_vars => [FlushNext \/ ResetPool]_flushVars
    BY DEF Next, vars, BeginRun, Answering, EndRun, AdmitRun, Report, Settle, PoolMoves, SubscriptionChanged,
           ClockTick, Sweep, Crash, FlushNext, JobStep
  <2> QED  BY <2>1, LedgerSimulates DEF MeteringInv
<1> QED  BY <1>1, <1>2, MeteringInductive, PTL
         DEF Spec, RowsAreReportedOnce, Ledger!Spec, LedgerStep, Stages

\* Flush and gate only use the resolver: each of their steps is a resolve, an eviction, a change of
\* the envelope or nothing to the cache (entitlements.ts from quality/actions.ts and flush.ts).
THEOREM MeteringRunsCache == Spec => Entitlement!CacheSpec
<1>1. Init => Entitlement!CacheInit
  BY DEF Init
<1>2. [Next]_vars => [Entitlement!CacheNext]_(Entitlement!cacheVars)
  <2> SUFFICES ASSUME [Next]_vars PROVE Entitlement!CacheNext \/ UNCHANGED cacheVars
    BY DEF Entitlement!cacheVars, cacheVars
  <2>1. CASE UNCHANGED vars
    BY <2>1 DEF vars
  <2>2. ASSUME NEW r \in Resolvers, BeginRun(r) \/ Answering(r) \/ EndRun(r)
        PROVE  Entitlement!CacheNext
    BY <2>2 DEF BeginRun, Answering, EndRun, Entitlement!CacheNext
  <2>3. ASSUME NEW r \in Resolvers, NEW u \in Rows, AdmitRun(r, u) PROVE Entitlement!CacheNext
    BY <2>3 DEF AdmitRun, Entitlement!CacheNext
  <2>4. ASSUME NEW j \in Jobs, Report(j) \/ Settle(j)
        PROVE  Entitlement!CacheNext \/ UNCHANGED cacheVars
    BY <2>4 DEF Report, Settle, Entitlement!CacheNext
  <2>5. CASE PoolMoves \/ SubscriptionChanged \/ ClockTick \/ Crash
    BY <2>5 DEF PoolMoves, SubscriptionChanged, ClockTick, Crash, Entitlement!CacheNext
  <2>6. CASE Sweep
    BY <2>6 DEF Sweep
  <2> QED  BY <2>1, <2>2, <2>3, <2>4, <2>5, <2>6 DEF Next
<1> QED  BY <1>1, <1>2, PTL DEF Spec, Entitlement!CacheSpec

\* What is proved of the cache alone holds under metering: an eviction after a refusal is not
\* answered with what it evicted, and a fresh entry is out of date for less than a time to live.
THEOREM MeteringCache == Spec => [](Entitlement!EvictionHolds /\ Entitlement!FreshIsRecent)
<1>1. ASSUME MeteringInv PROVE Entitlement!EvictionHolds
  BY <1>1 DEF MeteringInv, EP!IInv, EP!EvictionHolds, Entitlement!EvictionHolds
<1>2. ASSUME MeteringInv PROVE Entitlement!FreshIsRecent
  BY <1>2, MeteringBounds
     DEF MeteringInv, EP!IInv, EP!CacheTypeOK, EP!CacheEntry, EP!AgesAddUp, Entitlement!FreshIsRecent, Entitlement!Fresh
<1> QED  BY <1>1, <1>2, MeteringInductive, PTL
=============================================================================
