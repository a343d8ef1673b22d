--------------------------- MODULE Catalog_proofs ---------------------------
(***************************************************************************)
(* Proofs about Catalog, for all writers, keys, codes and quotas: an       *)
(* idempotency key makes one row at most and every success under it names  *)
(* that row - the catalogue implements KeyLedger - a retry that comes late *)
(* is answered as its original, the lineage graph has no cycle but through *)
(* an edge whose check had missed another, and the view of it is right.    *)
(***************************************************************************)
EXTENDS Catalog, FiniteSetTheorems, NaturalsInduction, TLAPS

Kind == {"dataset", "edge", "action", "request", "sync"}
InWork == {"lookup", "check", "create", "catch"}
Successes == {"created", "replayed"}
Refusals == {"conflict", "quota_exceeded", "duplicate_code", "not_found", "duplicate_edge",
             "cycle_detected", "error"}

\* What a writer at work looks like; its body and its plan may be anything.
Work(body, plan) == [pc: InWork, kind: Kind, body: {body}, key: Keys \cup {None}, late: BOOLEAN,
                     moved: BOOLEAN, plan: {plan}]
Over == [pc: {"done"}, kind: Kind, key: Keys \cup {None}, late: BOOLEAN,
         answer: [status: Successes \cup Refusals, id: Writers \cup {None}]]
Shapes ==
    /\ kinds \subseteq Kind
    /\ ledger \in [Keys -> {Unused} \cup [action: Kind, target: Writers]]
    /\ made \subseteq Keys \X Writers
    /\ DOMAIN writer = Writers /\ writer = [w \in Writers |-> writer[w]]
    /\ \A w \in Writers : \/ writer[w] = [pc |-> "idle"] \/ writer[w] \in Over
                          \/ /\ writer[w] \in Work(writer[w].body, writer[w].plan)
                             /\ writer[w].pc \in {"lookup", "catch"} => writer[w].key \in Keys

\* The audit row of a key and the row made under it are the same fact.
LedgerIsMade == \A k \in Keys, w \in Writers :
    <<k, w>> \in made <=> ledger[k] # Unused /\ ledger[k].target = w

\* A row bears the name of a writer that is done; so that ids are fresh.
RowsAreOfDone ==
    /\ \A m \in made : writer[m[2]].pc = "done"
    /\ \A w \in Writers : Exists(w) => writer[w].pc = "done"

\* A success under a key names a row that was made under it.
SuccessIsMade == \A w \in Writers : Success(w) => <<writer[w].key, writer[w].answer.id>> \in made

\* A late retry does not get past the lookup, and the catch has met a key in use.
LateIsLookedUp ==
    /\ \A w \in Writers : writer[w].pc # "idle" /\ writer[w].late =>
           /\ writer[w].pc \in {"lookup", "done"}
           /\ writer[w].key \in Keys /\ ledger[writer[w].key] # Unused
    /\ \A w \in Writers : writer[w].pc = "catch" => ledger[writer[w].key] # Unused

IInv == Shapes /\ LedgerIsMade /\ RowsAreOfDone /\ SuccessIsMade /\ LateIsLookedUp /\ LateRetryReplays

-----------------------------------------------------------------------------
(* What clients have been told changes with the writer that ends. *)

LEMMA ToldStays ==
    ASSUME NEW w \in Writers, ~Success(w), ~Success(w)',
           \A v \in Writers \ {w} : writer'[v] = writer[v] \/ (~Success(v) /\ ~Success(v)')
    PROVE  Told' = Told
  BY DEF Told, Success

LEMMA ToldGrows ==
    ASSUME NEW w \in Writers, ~Success(w), Success(w)',
           \A v \in Writers \ {w} : writer'[v] = writer[v] \/ (~Success(v) /\ ~Success(v)')
    PROVE  Told' = Told \cup {<<writer'[w].key, writer'[w].answer.id>>}
  BY DEF Told, Success

LEMMA InitIInv == CatalogInit => IInv /\ made = {} /\ Told = {}
<1> SUFFICES ASSUME CatalogInit PROVE IInv /\ made = {} /\ Told = {}
  OBVIOUS
<1>1. /\ made = {} /\ edge = {} /\ request = {} /\ ledger = [k \in Keys |-> Unused]
      /\ writer = [w \in Writers |-> [pc |-> "idle"]]
      /\ \A d \in dataset : d[2] = "old"
      /\ kinds \subseteq Kind
  BY CatalogAssumption DEF CatalogInit, Kind
<1>2. \A w \in Writers : ~Exists(w)
  BY <1>1, CatalogAssumption DEF Exists
<1>3. Shapes
  BY <1>1 DEF Shapes
<1>4. LedgerIsMade /\ RowsAreOfDone /\ SuccessIsMade /\ LateIsLookedUp /\ LateRetryReplays
  BY <1>1, <1>2 DEF LedgerIsMade, RowsAreOfDone, SuccessIsMade, Success, LateIsLookedUp, LateRetryReplays
<1> QED  BY <1>1, <1>3, <1>4 DEF IInv, Told, Success

-----------------------------------------------------------------------------
(* Steps that write no row. *)

LEMMA AtWriter ==
    ASSUME Shapes, NEW w \in Writers, NEW new, writer' = [writer EXCEPT ![w] = new]
    PROVE  /\ writer'[w] = new /\ \A v \in Writers \ {w} : writer'[v] = writer[v]
           /\ DOMAIN writer' = Writers /\ writer' = [v \in Writers |-> writer'[v]]
  BY DEF Shapes

\* A writer that goes on.
LEMMA GoOnIInv ==
    ASSUME IInv, UNCHANGED <<kinds, Rows>>, NEW w \in Writers, writer[w].pc # "done", NEW new,
           writer' = [writer EXCEPT ![w] = new], new \in Work(new.body, new.plan),
           new.pc \in {"lookup", "catch"} => new.key \in Keys,
           new.pc = "catch" => ledger[new.key] # Unused,
           new.late => new.pc = "lookup" /\ new.key \in Keys /\ ledger[new.key] # Unused
    PROVE  IInv' /\ UNCHANGED made /\ Told' = Told
<1>1. /\ UNCHANGED <<kinds, dataset, edge, request, ledger, made>>
      /\ writer'[w] = new /\ \A v \in Writers \ {w} : writer'[v] = writer[v]
      /\ DOMAIN writer' = Writers /\ writer' = [v \in Writers |-> writer'[v]]
  BY AtWriter DEF IInv, Rows
<1>2. new.pc \in InWork /\ new.pc # "done"
  BY DEF Work, InWork
<1>3. \A id : Exists(id)' <=> Exists(id)
  BY <1>1 DEF Exists
<1>4. Shapes'
  BY <1>1 DEF IInv, Shapes
<1>5. LedgerIsMade' /\ LateIsLookedUp'
  BY <1>1 DEF IInv, LedgerIsMade, LateIsLookedUp
<1>6. RowsAreOfDone'
  BY <1>1, <1>3 DEF IInv, Shapes, RowsAreOfDone
<1>7. SuccessIsMade'
  BY <1>1, <1>2 DEF IInv, SuccessIsMade, Success
<1>8. LateRetryReplays'
  BY <1>1, <1>2, <1>3 DEF IInv, LateRetryReplays
<1>9. Told' = Told
  <2>1. ~Success(w) /\ ~Success(w)'
    BY <1>1, <1>2 DEF Success
  <2> QED  BY <1>1, <2>1, ToldStays
<1> QED  BY <1>1, <1>4, <1>5, <1>6, <1>7, <1>8, <1>9 DEF IInv

\* A writer that ends with an answer that is true of the ledger.
LEMMA EndIInv ==
    ASSUME IInv, UNCHANGED <<kinds, Rows>>, NEW w \in Writers, NEW new, new \in Over,
           writer' = [writer EXCEPT ![w] = new],
           new.key # None /\ new.answer.status \in Successes => <<new.key, new.answer.id>> \in made,
           new.late => /\ new.key \in Keys /\ ledger[new.key] # Unused
                       /\ \/ new.answer = Answer("replayed", ledger[new.key].target)
                          \/ /\ new.answer.status = "conflict"
                             /\ \/ ledger[new.key].action # new.kind
                                \/ ~Exists(ledger[new.key].target)
    PROVE  IInv'
<1>1. /\ UNCHANGED <<kinds, dataset, edge, request, ledger, made>>
      /\ writer'[w] = new /\ \A v \in Writers \ {w} : writer'[v] = writer[v]
      /\ DOMAIN writer' = Writers /\ writer' = [v \in Writers |-> writer'[v]]
  BY AtWriter DEF IInv, Rows
<1>2. new.pc = "done"
  BY DEF Over
<1>3. \A id : Exists(id)' <=> Exists(id)
  BY <1>1 DEF Exists
<1>4. Shapes'
  BY <1>1 DEF IInv, Shapes
<1>5. LedgerIsMade' /\ LateIsLookedUp'
  BY <1>1, <1>2 DEF IInv, LedgerIsMade, LateIsLookedUp
<1>6. RowsAreOfDone'
  BY <1>1, <1>2, <1>3 DEF IInv, Shapes, RowsAreOfDone
<1>7. SuccessIsMade'
  BY <1>1 DEF IInv, SuccessIsMade, Success, Successes
<1>8. LateRetryReplays'
  BY <1>1, <1>3 DEF IInv, LateRetryReplays
<1> QED  BY <1>4, <1>5, <1>6, <1>7, <1>8 DEF IInv

\* What Tell and Make of KeyLedger ask of a step.
Tells(k, r) == <<k, r>> \in made /\ UNCHANGED made /\ Told' = Told \cup {<<k, r>>}
Makes(k, r) ==
    /\ \A m \in made : m[1] # k /\ m[2] # r
    /\ made' = made \cup {<<k, r>>} /\ Told' = Told \cup {<<k, r>>}
Keeps == UNCHANGED made /\ Told' = Told

LEMMA BeginStep == ASSUME IInv, NEW w \in Writers, Begin(w) PROVE IInv' /\ Keeps
<1>1. PICK kind \in kinds : \E body \in Bodies(kind) :
      \E k \in {None} \cup (IF kind \in {"action", "sync"} THEN {} ELSE Keys) :
        writer' = [writer EXCEPT ![w] =
           [pc |-> IF k = None THEN "check" ELSE "lookup", kind |-> kind, body |-> body,
            key |-> k, late |-> k # None /\ ledger[k] # Unused, moved |-> FALSE, plan |-> {}]]
  BY DEF Begin
<1>0. PICK body \in Bodies(kind), k \in {None} \cup Keys :
        writer' = [writer EXCEPT ![w] =
           [pc |-> IF k = None THEN "check" ELSE "lookup", kind |-> kind, body |-> body,
            key |-> k, late |-> k # None /\ ledger[k] # Unused, moved |-> FALSE, plan |-> {}]]
  BY <1>1
<1> DEFINE new == [pc |-> IF k = None THEN "check" ELSE "lookup", kind |-> kind, body |-> body,
            key |-> k, late |-> k # None /\ ledger[k] # Unused, moved |-> FALSE, plan |-> {}]
<1>2. kind \in Kind /\ k \in Keys \cup {None} /\ (k # None => k \in Keys)
  BY DEF IInv, Shapes
<1>3. /\ new \in Work(new.body, new.plan) /\ new.pc \in {"lookup", "check"} /\ new.key = k
      /\ new.pc = "lookup" => k # None
      /\ new.late => k # None /\ ledger[k] # Unused /\ new.pc = "lookup"
  BY <1>2 DEF Work, InWork
<1>4. writer[w].pc = "idle" /\ UNCHANGED <<kinds, Rows>>
  BY DEF Begin
<1>5. writer' = [writer EXCEPT ![w] = new]
  BY <1>0
<1> HIDE DEF new
<1>6. new.pc \in {"lookup", "catch"} => new.key \in Keys
  BY <1>2, <1>3
<1>7. new.late => new.pc = "lookup" /\ new.key \in Keys /\ ledger[new.key] # Unused
  BY <1>2, <1>3
<1> QED  BY <1>3, <1>4, <1>5, <1>6, <1>7, GoOnIInv DEF Keeps

\* A refusal, which is no news of the key unless it is a conflict; or the key's row.
IsTrue(w, answer) ==
    \/ /\ answer \in [status: Refusals, id: {None}]
       /\ writer[w].late => /\ answer.status = "conflict"
                            /\ \/ ledger[writer[w].key].action # writer[w].kind
                               \/ ~Exists(ledger[writer[w].key].target)
    \/ /\ writer[w].key \in Keys /\ ledger[writer[w].key] # Unused
       /\ answer = Answer("replayed", ledger[writer[w].key].target)

\* A writer that ends without a row: the answer is no success, or a replay.
LEMMA EndStep ==
    ASSUME IInv, UNCHANGED <<kinds, Rows>>, NEW w \in Writers, NEW answer, Finish(w, answer),
           writer[w] \in Work(writer[w].body, writer[w].plan), IsTrue(w, answer)
    PROVE  IInv' /\ (Keeps \/ \E k \in Keys, r \in Writers : Tells(k, r))
<1> DEFINE q == writer[w]
           new == [pc |-> "done", kind |-> q.kind, key |-> q.key, late |-> q.late, answer |-> answer]
<1>1. /\ q.pc \in InWork /\ q.kind \in Kind /\ q.key \in Keys \cup {None} /\ q.late \in BOOLEAN
      /\ q.late => q.key \in Keys /\ ledger[q.key] # Unused
  BY DEF Work, IInv, LateIsLookedUp, InWork
<1>2. answer \in [status: Successes \cup Refusals, id: Writers \cup {None}]
  <2>1. CASE answer \in [status: Refusals, id: {None}]
    BY <2>1
  <2>2. CASE /\ q.key \in Keys /\ ledger[q.key] # Unused
             /\ answer = Answer("replayed", ledger[q.key].target)
    <3>1. ledger[q.key].target \in Writers
      BY <2>2 DEF IInv, Shapes
    <3> QED  BY <2>2, <3>1 DEF Answer, Successes
  <2> QED  BY <2>1, <2>2 DEF IsTrue
<1>3. /\ new \in Over /\ new.pc = "done" /\ new.kind = q.kind /\ new.key = q.key
      /\ new.late = q.late /\ new.answer = answer
  BY <1>1, <1>2 DEF Over
<1>4. writer' = [writer EXCEPT ![w] = new] /\ writer[w].pc # "done"
  BY <1>1 DEF Finish, InWork
<1>5. answer.status \in Successes =>
          /\ q.key \in Keys /\ answer.id \in Writers /\ answer.id = ledger[q.key].target
          /\ <<q.key, answer.id>> \in made
  <2>1. CASE answer \in [status: Refusals, id: {None}]
    BY <2>1 DEF Refusals, Successes
  <2>2. CASE /\ q.key \in Keys /\ ledger[q.key] # Unused
             /\ answer = Answer("replayed", ledger[q.key].target)
    <3>1. ledger[q.key].target \in Writers
      BY <2>2 DEF IInv, Shapes
    <3>2. answer.id = ledger[q.key].target
      BY <2>2 DEF Answer
    <3> QED  BY <2>2, <3>1, <3>2 DEF IInv, LedgerIsMade
  <2> QED  BY <2>1, <2>2 DEF IsTrue
<1> HIDE DEF new
<1>6. IInv'
  <2>1. q.late => \/ answer = Answer("replayed", ledger[q.key].target)
                  \/ /\ answer.status = "conflict"
                     /\ ledger[q.key].action # q.kind \/ ~Exists(ledger[q.key].target)
    BY DEF IsTrue
  <2> QED  BY <1>1, <1>3, <1>4, <1>5, <2>1, EndIInv
<1>7. ~Success(w) /\ writer'[w] = new /\ \A v \in Writers \ {w} : writer'[v] = writer[v]
  BY <1>4 DEF IInv, Shapes, Success
<1>8. CASE ~Success(w)'
  BY <1>6, <1>7, <1>8, ToldStays DEF Keeps, Rows
<1>9. CASE Success(w)'
  <2>1. answer.status \in Successes
    BY <1>3, <1>7, <1>9 DEF Success, Successes
  <2>2. Told' = Told \cup {<<q.key, answer.id>>}
    BY <1>3, <1>7, <1>9, ToldGrows
  <2> QED  BY <1>5, <1>6, <2>1, <2>2 DEF Tells, Rows
<1> QED  BY <1>6, <1>8, <1>9

LEMMA ReplayIsTrue ==
    ASSUME NEW w \in Writers, writer[w].key \in Keys, ledger[writer[w].key] # Unused
    PROVE  IsTrue(w, Replay(writer[w].kind, writer[w].key))
  BY DEF IsTrue, Replay, Answer, Refusals

LEMMA LookupStep ==
    ASSUME IInv, NEW w \in Writers, Lookup(w)
    PROVE  IInv' /\ (Keeps \/ \E k \in Keys, r \in Writers : Tells(k, r))
<1>1. /\ writer[w].pc = "lookup" /\ UNCHANGED <<kinds, Rows>>
      /\ writer[w] \in Work(writer[w].body, writer[w].plan) /\ writer[w].key \in Keys
  BY DEF Lookup, IInv, Shapes, Over
<1>2. CASE ledger[writer[w].key] # Unused
  <2> DEFINE answer == Replay(writer[w].kind, writer[w].key)
  <2>1. Finish(w, answer)
    BY <1>2 DEF Lookup
  <2>2. IsTrue(w, answer)
    BY <1>1, <1>2, ReplayIsTrue
  <2> HIDE DEF answer
  <2> QED  BY <1>1, <2>1, <2>2, EndStep
<1>3. CASE ledger[writer[w].key] = Unused
  <2> DEFINE new == [writer[w] EXCEPT !.pc = "check"]
  <2>1. writer' = [writer EXCEPT ![w] = new]
    BY <1>1, <1>3 DEF Lookup
  <2>2. new \in Work(new.body, new.plan) /\ new.pc = "check" /\ new.late = writer[w].late
    BY <1>1 DEF Work, InWork
  <2>3. ~writer[w].late
    BY <1>1, <1>3 DEF IInv, LateIsLookedUp
  <2> HIDE DEF new
  <2> QED  BY <1>1, <2>1, <2>2, <2>3, GoOnIInv DEF Keeps
<1> QED  BY <1>2, <1>3

LEMMA CatchStep ==
    ASSUME IInv, NEW w \in Writers, Catch(w)
    PROVE  IInv' /\ (Keeps \/ \E k \in Keys, r \in Writers : Tells(k, r))
<1>1. /\ writer[w].pc = "catch" /\ UNCHANGED <<kinds, Rows>>
      /\ writer[w] \in Work(writer[w].body, writer[w].plan) /\ writer[w].key \in Keys
      /\ Finish(w, Replay(writer[w].kind, writer[w].key))
      /\ ledger[writer[w].key] # Unused
  BY DEF Catch, IInv, Shapes, Over, LateIsLookedUp
<1>2. IsTrue(w, Replay(writer[w].kind, writer[w].key))
  BY <1>1, ReplayIsTrue
<1> QED  BY <1>1, <1>2, EndStep

LEMMA RefusalIsOne == \A body : \A kind \in Kind : Refusal(kind, body) \in Refusals \cup {"ok"}
  BY DEF Kind, Refusal, RefusalOfDataset, RefusalOfEdge, RefusalOfRequest, Refusals

LEMMA CheckStep ==
    ASSUME IInv, NEW w \in Writers, Check(w)
    PROVE  IInv' /\ (Keeps \/ \E k \in Keys, r \in Writers : Tells(k, r))
<1> DEFINE q == writer[w]
           no == Refusal(q.kind, q.body)
<1>1. /\ q.pc = "check" /\ UNCHANGED <<kinds, Rows>> /\ ~q.late
      /\ q \in Work(q.body, q.plan) /\ q.kind \in Kind
  BY DEF Check, IInv, Shapes, Over, Work, LateIsLookedUp
<1>2. CASE no # "ok"
  <2>1. Finish(w, Answer(no, None))
    BY <1>2 DEF Check
  <2>2. no \in Refusals
    BY <1>1, <1>2, RefusalIsOne
  <2>3. IsTrue(w, Answer(no, None))
    BY <1>1, <2>2 DEF IsTrue, Answer
  <2> QED  BY <1>1, <2>1, <2>3, EndStep
<1>3. CASE no = "ok"
  <2>1. PICK plan : writer' = [writer EXCEPT ![w] = [q EXCEPT !.pc = "create", !.plan = plan]]
    BY <1>3 DEF Check
  <2> DEFINE new == [q EXCEPT !.pc = "create", !.plan = plan]
  <2>2. new \in Work(new.body, new.plan) /\ new.pc = "create" /\ ~new.late
    BY <1>1 DEF Work, InWork
  <2>3. writer' = [writer EXCEPT ![w] = new]
    BY <2>1
  <2> HIDE DEF new
  <2> QED  BY <1>1, <2>2, <2>3, GoOnIInv DEF Keeps
<1> QED  BY <1>2, <1>3

-----------------------------------------------------------------------------
(* The transaction. *)

LEMMA ViolationIsOne ==
    ASSUME NEW w \in Writers
    PROVE  /\ Violation(w) \in Refusals \cup {"none", "key"}
           /\ Violation(w) = "none" => writer[w].key = None \/ ledger[writer[w].key] = Unused
           /\ Violation(w) = "key" => writer[w].key # None /\ ledger[writer[w].key] # Unused
  BY DEF Violation, Refusals

\* The commit: the row, its audit row with the key, and the checks it makes stale.
LEMMA CommitStep ==
    ASSUME IInv, NEW w \in Writers, Create(w), Violation(w) = "none"
    PROVE  IInv' /\ (Keeps \/ \E k \in Keys, r \in Writers : Makes(k, r))
<1> DEFINE q == writer[w]
           new == [pc |-> "done", kind |-> q.kind, key |-> q.key, late |-> q.late,
                   answer |-> Answer("created", w)]
<1>1. /\ q.pc = "create" /\ q.late = FALSE /\ kinds' = kinds
      /\ q \in Work(q.body, q.plan) /\ q.kind \in Kind /\ q.key \in Keys \cup {None}
      /\ q.key # None => q.key \in Keys /\ ledger[q.key] = Unused
  BY ViolationIsOne DEF Create, IInv, Shapes, Over, Work, LateIsLookedUp
<1>2. /\ dataset' = dataset \cup NewDatasets(q, w)
      /\ edge' = edge \cup NewEdges(q, w)
      /\ request' = request \cup NewRequests(q, w)
      /\ ledger' = IF q.key = None THEN ledger
                   ELSE [ledger EXCEPT ![q.key] = [action |-> q.kind, target |-> w]]
      /\ made' = IF q.key = None THEN made ELSE made \cup {<<q.key, w>>}
      /\ writer' = [v \in Writers |->
           IF v = w THEN new
           ELSE IF writer[v].pc = "create" /\ Outdates(q.kind, writer[v].kind)
                THEN [writer[v] EXCEPT !.moved = TRUE] ELSE writer[v]]
  BY DEF Create
<1>3. /\ new \in Over /\ new.pc = "done" /\ new.key = q.key /\ ~new.late
      /\ new.answer.status = "created" /\ new.answer.id = w
  BY <1>1 DEF Over, Successes, Answer
<1>4. /\ DOMAIN writer' = Writers /\ writer' = [v \in Writers |-> writer'[v]] /\ writer'[w] = new
      /\ \A v \in Writers \ {w} : \/ writer'[v] = writer[v]
                                  \/ /\ writer[v].pc = "create"
                                     /\ writer'[v] = [writer[v] EXCEPT !.moved = TRUE]
  BY <1>2
<1> HIDE DEF new
<1>5. \A v \in Writers \ {w} : writer'[v] # writer[v] =>
          /\ writer[v].pc = "create" /\ writer'[v].pc = "create" /\ ~writer'[v].late
          /\ writer'[v] \in Work(writer'[v].body, writer'[v].plan)
  <2> SUFFICES ASSUME NEW v \in Writers \ {w}, writer'[v] # writer[v]
               PROVE  /\ writer[v].pc = "create" /\ writer'[v].pc = "create" /\ ~writer'[v].late
                      /\ writer'[v] \in Work(writer'[v].body, writer'[v].plan)
    OBVIOUS
  <2>1. writer[v].pc = "create" /\ writer'[v] = [writer[v] EXCEPT !.moved = TRUE]
    BY <1>4
  <2>2. writer[v] \in Work(writer[v].body, writer[v].plan) /\ ~writer[v].late
    BY <2>1 DEF IInv, Shapes, Over, LateIsLookedUp
  <2> QED  BY <2>1, <2>2 DEF Work, InWork
<1>6. \A v \in Writers : Exists(v)' => Exists(v) \/ v = w
  BY <1>2, CatalogAssumption DEF Exists, NewDatasets, NewEdges, NewRequests
<1>7. \A v \in Writers : Exists(v) => Exists(v)'
  BY <1>2 DEF Exists
<1>8. \A m \in made : (q.key # None => m[1] # q.key) /\ m[2] # w
  <2> SUFFICES ASSUME NEW m \in made PROVE (q.key # None => m[1] # q.key) /\ m[2] # w
    OBVIOUS
  <2>1. m[1] \in Keys /\ m[2] \in Writers /\ m = <<m[1], m[2]>>
    BY DEF IInv, Shapes
  <2>2. ledger[m[1]] # Unused
    BY <2>1 DEF IInv, LedgerIsMade
  <2>3. writer[m[2]].pc = "done"
    BY DEF IInv, RowsAreOfDone
  <2> QED  BY <1>1, <2>1, <2>2, <2>3
<1>9. Shapes'
  <2>1. ledger' \in [Keys -> {Unused} \cup [action: Kind, target: Writers]]
    BY <1>1, <1>2 DEF IInv, Shapes
  <2>2. made' \subseteq Keys \X Writers
    BY <1>1, <1>2 DEF IInv, Shapes
  <2> QED  BY <1>1, <1>3, <1>4, <1>5, <2>1, <2>2 DEF IInv, Shapes
<1>10. \A k \in Keys : ledger[k] # Unused => ledger'[k] = ledger[k]
  BY <1>1, <1>2 DEF IInv, Shapes
<1>11. LedgerIsMade'
  <2>1. \A k \in Keys, v \in Writers :
            <<k, v>> \in made' <=> ledger'[k] # Unused /\ ledger'[k].target = v
    <3>1. CASE q.key = None
      BY <1>2, <3>1 DEF IInv, LedgerIsMade
    <3>2. CASE q.key # None
      <4>1. ledger'[q.key] = [action |-> q.kind, target |-> w]
        BY <1>1, <1>2, <3>2 DEF IInv, Shapes
      <4>2. ledger'[q.key] # Unused
        BY <1>1, <4>1 DEF Unused, None, Kind
      <4> QED  BY <1>1, <1>2, <1>8, <3>2, <4>1, <4>2 DEF IInv, Shapes, LedgerIsMade
    <3> QED  BY <3>1, <3>2
  <2> QED  BY <2>1 DEF LedgerIsMade
<1>12. RowsAreOfDone'
  <2>1. \A m \in made' : writer'[m[2]].pc = "done"
    BY <1>2, <1>3, <1>4, <1>5 DEF IInv, Shapes, RowsAreOfDone
  <2>2. \A v \in Writers : Exists(v)' => writer'[v].pc = "done"
    BY <1>3, <1>4, <1>5, <1>6 DEF IInv, RowsAreOfDone
  <2> QED  BY <2>1, <2>2 DEF RowsAreOfDone
<1>13. SuccessIsMade'
  <2> SUFFICES ASSUME NEW v \in Writers, Success(v)'
               PROVE  <<writer'[v].key, writer'[v].answer.id>> \in made'
    BY DEF SuccessIsMade
  <2>1. CASE v = w
    BY <1>2, <1>3, <1>4, <2>1 DEF Success
  <2>2. CASE v # w
    BY <1>2, <1>4, <1>5, <2>2 DEF IInv, SuccessIsMade, Success
  <2> QED  BY <2>1, <2>2
<1>14. LateIsLookedUp'
  BY <1>3, <1>4, <1>5, <1>10 DEF IInv, LateIsLookedUp, Shapes, Over
<1>15. LateRetryReplays'
  <2> SUFFICES ASSUME NEW v \in Writers, writer'[v].pc = "done", writer'[v].late
               PROVE  (\/ writer[v].answer = Answer("replayed", ledger[writer[v].key].target)
                       \/ /\ writer[v].answer.status = "conflict"
                          /\ \/ ledger[writer[v].key].action # writer[v].kind
                             \/ ~Exists(ledger[writer[v].key].target))'
    BY DEF LateRetryReplays
  <2>1. v # w /\ writer'[v] = writer[v]
    BY <1>3, <1>4, <1>5
  <2> DEFINE k == writer[v].key
  <2>2. k \in Keys /\ ledger[k] # Unused /\ ledger'[k] = ledger[k]
    BY <1>10, <2>1 DEF IInv, LateIsLookedUp
  <2>3. ledger[k].target \in Writers \ {w}
    <3>1. ledger[k].target \in Writers
      BY <2>2 DEF IInv, Shapes
    <3>2. <<k, ledger[k].target>> \in made
      BY <2>2, <3>1 DEF IInv, LedgerIsMade
    <3> QED  BY <1>8, <3>1, <3>2
  <2>4. \/ writer[v].answer = Answer("replayed", ledger[k].target)
        \/ /\ writer[v].answer.status = "conflict"
           /\ ledger[k].action # writer[v].kind \/ ~Exists(ledger[k].target)
    BY <2>1 DEF IInv, LateRetryReplays
  <2> QED  BY <1>6, <2>1, <2>2, <2>3, <2>4 DEF Answer
<1>16. ~Success(w) /\ \A v \in Writers \ {w} : writer'[v] = writer[v] \/ (~Success(v) /\ ~Success(v)')
  BY <1>1, <1>5 DEF Success
<1>17. CASE q.key = None
  <2>1. ~Success(w)'
    BY <1>3, <1>4, <1>17 DEF Success
  <2> QED  BY <1>2, <1>9, <1>11, <1>12, <1>13, <1>14, <1>15, <1>16, <1>17, <2>1, ToldStays DEF IInv, Keeps
<1>18. CASE q.key # None
  <2>1. Success(w)'
    BY <1>3, <1>4, <1>18 DEF Success, Successes
  <2>2. Told' = Told \cup {<<q.key, w>>}
    BY <1>3, <1>4, <1>16, <2>1, ToldGrows
  <2>3. Makes(q.key, w) /\ q.key \in Keys
    BY <1>1, <1>2, <1>8, <1>18, <2>2 DEF Makes
  <2> QED  BY <1>9, <1>11, <1>12, <1>13, <1>14, <1>15, <2>3 DEF IInv
<1> QED  BY <1>17, <1>18

LEMMA CreateStep ==
    ASSUME IInv, NEW w \in Writers, Create(w)
    PROVE  IInv' /\ (Keeps \/ \E k \in Keys, r \in Writers : Tells(k, r) \/ Makes(k, r))
<1> DEFINE q == writer[w]
<1>1. /\ q.pc = "create" /\ q.late = FALSE /\ q \in Work(q.body, q.plan) /\ q.key \in Keys \cup {None}
      /\ kinds' = kinds
  BY DEF Create, IInv, Shapes, Over, Work, LateIsLookedUp
<1>2. CASE Violation(w) = "none"
  BY <1>2, CommitStep
<1>3. CASE Violation(w) = "key"
  <2> DEFINE new == [q EXCEPT !.pc = "catch"]
  <2>1. writer' = [writer EXCEPT ![w] = new] /\ UNCHANGED <<kinds, Rows>>
    BY <1>3 DEF Create
  <2>2. /\ new \in Work(new.body, new.plan) /\ new.pc = "catch" /\ ~new.late
        /\ new.key = q.key
    BY <1>1 DEF Work, InWork
  <2>3. q.key \in Keys /\ ledger[q.key] # Unused
    BY <1>1, <1>3, ViolationIsOne
  <2> HIDE DEF new
  <2> QED  BY <1>1, <2>1, <2>2, <2>3, GoOnIInv DEF Keeps
<1>4. CASE Violation(w) \notin {"none", "key"}
  <2>1. Finish(w, Answer(Violation(w), None)) /\ UNCHANGED <<kinds, Rows>>
    BY <1>4 DEF Create
  <2>2. IsTrue(w, Answer(Violation(w), None))
    BY <1>1, <1>4, ViolationIsOne DEF IsTrue, Answer
  <2> QED  BY <1>1, <2>1, <2>2, EndStep
<1> QED  BY <1>2, <1>3, <1>4

LEMMA SweepStep == ASSUME IInv, Sweep PROVE IInv' /\ Keeps
<1>1. /\ UNCHANGED <<kinds, request, ledger, writer, made>> /\ dataset' = {} /\ edge' = {}
  BY DEF Sweep
<1>2. \A id : Exists(id)' => Exists(id)
  BY <1>1 DEF Exists
<1>3. Shapes' /\ LedgerIsMade' /\ SuccessIsMade' /\ LateIsLookedUp'
  BY <1>1 DEF IInv, Shapes, LedgerIsMade, SuccessIsMade, Success, LateIsLookedUp
<1>4. RowsAreOfDone'
  BY <1>1, <1>2 DEF IInv, RowsAreOfDone
<1>5. LateRetryReplays'
  BY <1>1, <1>2 DEF IInv, LateRetryReplays
<1> QED  BY <1>1, <1>3, <1>4, <1>5 DEF IInv, Keeps, Told, Success

LEMMA NextStep ==
    ASSUME IInv, CatalogNext
    PROVE  IInv' /\ (Keeps \/ \E k \in Keys, r \in Writers : Tells(k, r) \/ Makes(k, r))
<1>1. CASE \E w \in Writers : Begin(w)
  BY <1>1, BeginStep
<1>2. CASE \E w \in Writers : Lookup(w)
  BY <1>2, LookupStep
<1>3. CASE \E w \in Writers : Check(w)
  BY <1>3, CheckStep
<1>4. CASE \E w \in Writers : Create(w)
  BY <1>4, CreateStep
<1>5. CASE \E w \in Writers : Catch(w)
  BY <1>5, CatchStep
<1>6. CASE Sweep
  BY <1>6, SweepStep
<1> QED  BY <1>1, <1>2, <1>3, <1>4, <1>5, <1>6 DEF CatalogNext

LEMMA StutterStep == ASSUME IInv, UNCHANGED catalogVars PROVE IInv' /\ Keeps
<1>1. UNCHANGED <<kinds, dataset, edge, request, ledger, writer, made>>
  BY DEF catalogVars
<1>2. \A id : Exists(id)' <=> Exists(id)
  BY <1>1 DEF Exists
<1>3. Shapes' /\ LedgerIsMade' /\ SuccessIsMade' /\ LateIsLookedUp'
  BY <1>1 DEF IInv, Shapes, LedgerIsMade, SuccessIsMade, Success, LateIsLookedUp
<1>4. RowsAreOfDone' /\ LateRetryReplays'
  BY <1>1, <1>2 DEF IInv, RowsAreOfDone, LateRetryReplays
<1> QED  BY <1>1, <1>3, <1>4 DEF IInv, Keeps, Told, Success

-----------------------------------------------------------------------------
(* The theorems. *)

\* The inductive invariant of the writers.
THEOREM CatalogInductive == CatalogSpec => []IInv
<1>1. CatalogInit => IInv
  BY InitIInv
<1>2. IInv /\ [CatalogNext]_catalogVars => IInv'
  BY NextStep, StutterStep
<1> QED  BY <1>1, <1>2, PTL DEF CatalogSpec

\* A retry that starts after its key was recorded is answered with the original, or told of
\* the conflict, however requests, syncs and the sweep interleave.
THEOREM LateRetryTheorem == CatalogSpec => []LateRetryReplays
<1>1. IInv => LateRetryReplays
  BY DEF IInv
<1> QED  BY <1>1, CatalogInductive, PTL

\* The catalogue implements KeyLedger: a key makes one row at most, in one route, and every
\* success under it names that row.
THEOREM KeyTheorem == CatalogSpec => KeyMakesOneRow
<1>1. CatalogInit => Once!Init
  BY InitIInv DEF Once!Init
<1>2. IInv /\ [CatalogNext]_catalogVars => [Once!Next]_<<made, Told>>
  <2> SUFFICES ASSUME IInv, [CatalogNext]_catalogVars PROVE [Once!Next]_<<made, Told>>
    OBVIOUS
  <2>1. Keeps \/ \E k \in Keys, r \in Writers : Tells(k, r) \/ Makes(k, r)
    BY NextStep, StutterStep
  <2> QED  BY <2>1 DEF Keeps, Tells, Makes, Once!Next, Once!Make, Once!Tell
<1> QED  BY <1>1, <1>2, CatalogInductive, PTL DEF CatalogSpec, KeyMakesOneRow, Once!Spec

-----------------------------------------------------------------------------
(* The greatest of a finite set of integers, and functions on the naturals. *)

\* Induction on the naturals, for a set of them.
LEMMA AllNaturals == ASSUME NEW S, 0 \in S, \A n \in Nat : n \in S => n + 1 \in S PROVE Nat \subseteq S
<1> SUFFICES ASSUME Nat \ S # {} PROVE FALSE
  OBVIOUS
<1> DEFINE Less == OpToRel(<, Nat)
<1>1. \A m, n \in Nat : m < n => <<m, n>> \in Less
  BY DEF OpToRel
<1>2. IsWellFoundedOn(Less, Nat)
  BY NatLessThanWellFounded
<1> HIDE DEF Less
<1>3. PICK n \in Nat \ S : \A m \in Nat \ S : ~ (<<m, n>> \in Less)
  <2> DEFINE T == Nat \ S
  <2>1. T \subseteq Nat /\ T # {}
    OBVIOUS
  <2> HIDE DEF T
  <2>2. \E n \in T : \A m \in T : ~ (<<m, n>> \in Less)
    BY <1>2, <2>1, WFMin
  <2> QED  BY <2>2 DEF T
<1>4. n # 0 /\ n - 1 \in Nat /\ n - 1 < n
  OBVIOUS
<1>5. n - 1 \in S
  BY <1>1, <1>3, <1>4
<1>6. (n - 1) + 1 \in S
  BY <1>4, <1>5
<1> QED  BY <1>3, <1>6

IsMax(m, S) == m \in S /\ \A y \in S : m >= y

LEMMA MaxIs == ASSUME NEW S, S \subseteq Int, NEW m, IsMax(m, S) PROVE Max(S) = m
<1> DEFINE P(x) == \A y \in S : x >= y
<1>1. m \in S /\ P(m)
  BY DEF IsMax
<1>2. \A x \in S : P(x) => x = m
  BY <1>1
<1>3. Max(S) = CHOOSE x \in S : P(x)
  BY DEF Max
<1> HIDE DEF P
<1> QED  BY <1>1, <1>2, <1>3

LEMMA MaxExists ==
    ASSUME NEW S, S \subseteq Int, IsFiniteSet(S), S # {}
    PROVE  IsMax(Max(S), S)
<1> DEFINE T == {n \in Nat : \A U \in SUBSET S : Cardinality(U) = n /\ U # {} => \E m \in U : IsMax(m, U)}
<1>1. 0 \in T
  <2> SUFFICES ASSUME NEW U \in SUBSET S, Cardinality(U) = 0, U # {} PROVE FALSE
    OBVIOUS
  <2>1. IsFiniteSet(U)
    BY FS_Subset
  <2> QED  BY <2>1, FS_EmptySet
<1>2. ASSUME NEW n \in Nat, n \in T PROVE n + 1 \in T
  <2> SUFFICES ASSUME NEW U \in SUBSET S, Cardinality(U) = n + 1, U # {} PROVE \E m \in U : IsMax(m, U)
    OBVIOUS
  <2>1. PICK u \in U : TRUE
    OBVIOUS
  <2>2. IsFiniteSet(U)
    BY FS_Subset
  <2>5. Cardinality(U \ {u}) = n
    <3>1. Cardinality(U \ {u}) = Cardinality(U) - 1
      BY <2>1, <2>2, FS_RemoveElement
    <3> QED  BY <3>1
  <2>3. CASE U \ {u} = {}
    BY <2>1, <2>3 DEF IsMax
  <2>4. CASE U \ {u} # {}
    <3>1. PICK m \in U \ {u} : IsMax(m, U \ {u})
      BY <1>2, <2>4, <2>5
    <3>2. IsMax(m, U) \/ IsMax(u, U)
      BY <3>1 DEF IsMax
    <3> QED  BY <3>1, <3>2
  <2> QED  BY <2>3, <2>4
<1>3. Nat \subseteq T
  <2> HIDE DEF T
  <2> QED  BY <1>1, <1>2, AllNaturals
<1>4. PICK m \in S : IsMax(m, S)
  BY <1>3, FS_CardinalityType
<1> QED  BY <1>4, MaxIs

LEMMA MinExists ==
    ASSUME NEW S, S \subseteq Int, IsFiniteSet(S), S # {}
    PROVE  Min(S) \in S
<1> DEFINE R == {0 - x : x \in S}
           f == [x \in S |-> 0 - x]
<1>1. f \in Surjection(S, R)
  BY DEF Surjection
<1>2. IsFiniteSet(R) /\ R \subseteq Int /\ R # {}
  <2>1. R \subseteq Int /\ R # {}
    OBVIOUS
  <2> HIDE DEF R, f
  <2>2. IsFiniteSet(R)
    BY <1>1, FS_Surjection
  <2> QED  BY <2>1, <2>2
<1>3. PICK m \in R : \A y \in R : m >= y
  <2> HIDE DEF R
  <2> QED  BY <1>2, MaxExists DEF IsMax
<1>4. (0 - m) \in S /\ \A y \in S : 0 - m <= y
  <2>1. PICK x \in S : m = 0 - x
    BY <1>3
  <2>2. \A y \in S : 0 - y \in R
    OBVIOUS
  <2>3. \A y \in S : m >= 0 - y
    BY <1>3, <2>2
  <2>4. x \in Int /\ 0 - m = x
    BY <2>1
  <2> QED  BY <2>1, <2>3, <2>4
<1> DEFINE P(x) == \A y \in S : x <= y
<1>5. Min(S) = CHOOSE x \in S : P(x)
  BY DEF Min
<1>6. P(0 - m) /\ (0 - m) \in S
  BY <1>4
<1> HIDE DEF P
<1> QED  BY <1>5, <1>6

\* A function on the naturals may be defined by its first value and by a step.
LEMMA RecursionExists ==
    ASSUME NEW S, NEW base \in S, NEW step \in [S -> S]
    PROVE  \E f \in [Nat -> S] : f[0] = base /\ \A k \in Nat \ {0} : f[k] = step[f[k - 1]]
<1> DEFINE Starts(g, n) == g[0] = base /\ \A k \in 1..n : g[k] = step[g[k - 1]]
           T == {n \in Nat : \E g \in [0..n -> S] : Starts(g, n)}
<1>1. 0 \in T
  <2>1. PICK g \in [0..0 -> S] : g = [i \in 0..0 |-> base]
    OBVIOUS
  <2>2. Starts(g, 0)
    BY <2>1
  <2> QED  BY <2>1, <2>2
<1>2. ASSUME NEW n \in Nat, n \in T PROVE n + 1 \in T
  <2>1. PICK g \in [0..n -> S] : Starts(g, n)
    BY <1>2
  <2>2. PICK h : h = [i \in 0..(n + 1) |-> IF i <= n THEN g[i] ELSE step[g[n]]]
    OBVIOUS
  <2>3. h \in [0..(n + 1) -> S]
    BY <2>1, <2>2
  <2>4. Starts(h, n + 1)
    BY <2>1, <2>2
  <2> QED  BY <2>3, <2>4
<1>3. Nat \subseteq T
  <2> HIDE DEF T
  <2> QED  BY <1>1, <1>2, AllNaturals
<1>4. ASSUME NEW m \in Nat, NEW n \in Nat, NEW g \in [0..m -> S], NEW h \in [0..n -> S],
             Starts(g, m), Starts(h, n)
      PROVE  \A k \in Nat : k <= m /\ k <= n => g[k] = h[k]
  <2> DEFINE A == {k \in Nat : k <= m /\ k <= n => g[k] = h[k]}
  <2>1. 0 \in A
    BY <1>4
  <2>2. ASSUME NEW k \in Nat, k \in A PROVE k + 1 \in A
    <3> SUFFICES ASSUME k + 1 <= m, k + 1 <= n PROVE g[k + 1] = h[k + 1]
      OBVIOUS
    <3>1. k + 1 \in 1..m /\ k + 1 \in 1..n /\ (k + 1) - 1 = k
      OBVIOUS
    <3>2. g[k] = h[k]
      BY <2>2
    <3>3. g[k + 1] = step[g[k]] /\ h[k + 1] = step[h[k]]
      BY <1>4, <3>1
    <3> QED  BY <3>2, <3>3
  <2>3. Nat \subseteq A
    <3> HIDE DEF A
    <3> QED  BY <2>1, <2>2, AllNaturals
  <2> QED  BY <2>3
<1> DEFINE G(n) == CHOOSE g \in [0..n -> S] : Starts(g, n)
           f == [n \in Nat |-> G(n)[n]]
<1>5. \A n \in Nat : G(n) \in [0..n -> S] /\ Starts(G(n), n)
  BY <1>3
<1> HIDE DEF G
<1>6. f \in [Nat -> S]
  BY <1>5
<1>7. f[0] = base
  BY <1>5
<1>8. ASSUME NEW k \in Nat \ {0} PROVE f[k] = step[f[k - 1]]
  <2>1. k - 1 \in Nat /\ k - 1 <= k /\ k \in 1..k
    OBVIOUS
  <2>2. G(k)[k] = step[G(k)[k - 1]]
    BY <1>5, <2>1
  <2> HIDE DEF Starts
  <2>3. G(k)[k - 1] = G(k - 1)[k - 1]
    BY <1>4, <1>5, <2>1
  <2> QED  BY <2>1, <2>2, <2>3
<1> QED  BY <1>6, <1>7, <1>8

-----------------------------------------------------------------------------
(* What the search of graph-core.ts finds: the rounds of DownstreamOf are enough, and what it  *)
(* returns is the least set that holds the targets of a node and is closed under the edges.     *)

\* One more round of the search from x, and the rounds as a function of their number.
Round(seen, E) == seen \cup UNION {Targets(E, n) : n \in seen}
IsSearch(f, x, E) == f = [k \in Nat |-> IF k = 0 THEN Targets(E, x) ELSE Round(f[k - 1], E)]

\* There is such a function.
LEMMA SearchExists == ASSUME NEW E, NEW x PROVE \E f : IsSearch(f, x, E)
<1> DEFINE S == SUBSET {e[2] : e \in E}
           step == [s \in S |-> Round(s, E)]
<1>1. Targets(E, x) \in S /\ step \in [S -> S]
  BY DEF Targets, Round
<1>4. \A s \in S : step[s] = Round(s, E)
  OBVIOUS
<1> HIDE DEF S, step
<1>2. PICK f \in [Nat -> S] : f[0] = Targets(E, x) /\ \A k \in Nat \ {0} : f[k] = step[f[k - 1]]
  BY <1>1, RecursionExists
<1>3. \A k \in Nat : f[k] = IF k = 0 THEN Targets(E, x) ELSE Round(f[k - 1], E)
  <2> TAKE k \in Nat
  <2>1. CASE k = 0
    BY <1>2, <2>1
  <2>2. CASE k # 0
    <3>1. k \in Nat \ {0} /\ f[k - 1] \in S
      BY <1>2, <2>2
    <3> QED  BY <1>2, <1>4, <2>2, <3>1
  <2> QED  BY <2>1, <2>2
<1>5. IsSearch(f, x, E)
  BY <1>2, <1>3 DEF IsSearch
<1> QED  BY <1>5

LEMMA DownstreamIsSearch ==
    ASSUME NEW E, NEW x
    PROVE  \E f : IsSearch(f, x, E) /\ DownstreamOf(x, E) = f[Cardinality(E)]
<1> DEFINE seen == CHOOSE f : f = [k \in Nat |-> IF k = 0 THEN Targets(E, x)
                                 ELSE f[k - 1] \cup UNION {Targets(E, n) : n \in f[k - 1]}]
<1>1. DownstreamOf(x, E) = seen[Cardinality(E)]
  BY DEF DownstreamOf
<1>2. \E f : f = [k \in Nat |-> IF k = 0 THEN Targets(E, x)
                          ELSE f[k - 1] \cup UNION {Targets(E, n) : n \in f[k - 1]}]
  BY SearchExists DEF IsSearch, Round
<1>3. seen = [k \in Nat |-> IF k = 0 THEN Targets(E, x)
                ELSE seen[k - 1] \cup UNION {Targets(E, n) : n \in seen[k - 1]}]
  BY <1>2, Zenon
<1> HIDE DEF seen
<1>4. IsSearch(seen, x, E)
  BY <1>3 DEF IsSearch, Round
<1> QED  BY <1>1, <1>4

LEMMA SearchRounds ==
    ASSUME NEW E, NEW x, NEW f, IsSearch(f, x, E)
    PROVE  f[0] = Targets(E, x) /\ \A k \in Nat : f[k + 1] = Round(f[k], E)
<1>1. \A k \in Nat : f[k] = IF k = 0 THEN Targets(E, x) ELSE Round(f[k - 1], E)
  BY DEF IsSearch
<1>2. ASSUME NEW k \in Nat PROVE f[k + 1] = Round(f[k], E)
  <2>1. k + 1 \in Nat /\ k + 1 # 0 /\ (k + 1) - 1 = k
    OBVIOUS
  <2> QED  BY <1>1, <2>1
<1> QED  BY <1>1, <1>2

\* A set of nodes that no edge leaves.
Closed(S, E) == \A n \in S : Targets(E, n) \subseteq S

\* downstreamOf gives the least closed set with the targets of its start: the rounds are enough,
\* since one that does not end the search adds a target, and there are no more of those than edges.
LEMMA DownstreamIsLeast ==
    ASSUME NEW E, NEW x, IsFiniteSet(E)
    PROVE  /\ Targets(E, x) \subseteq DownstreamOf(x, E) /\ Closed(DownstreamOf(x, E), E)
           /\ \A S : Targets(E, x) \subseteq S /\ Closed(S, E) => DownstreamOf(x, E) \subseteq S
<1>1. PICK f : IsSearch(f, x, E) /\ DownstreamOf(x, E) = f[Cardinality(E)]
  BY DownstreamIsSearch
<1>2. f[0] = Targets(E, x) /\ \A k \in Nat : f[k + 1] = Round(f[k], E)
  BY <1>1, SearchRounds
<1>3. Cardinality(E) \in Nat
  BY FS_CardinalityType
<1>4. \A k \in Nat : Targets(E, x) \subseteq f[k]
  <2> DEFINE P == {k \in Nat : Targets(E, x) \subseteq f[k]}
  <2>1. 0 \in P /\ \A k \in Nat : k \in P => k + 1 \in P
    BY <1>2 DEF Round
  <2> HIDE DEF P
  <2>2. Nat \subseteq P
    BY <2>1, AllNaturals
  <2> QED  BY <2>2 DEF P
<1>5. ASSUME NEW S, Targets(E, x) \subseteq S, Closed(S, E) PROVE \A k \in Nat : f[k] \subseteq S
  <2> DEFINE P == {k \in Nat : f[k] \subseteq S}
  <2>1. 0 \in P /\ \A k \in Nat : k \in P => k + 1 \in P
    BY <1>2, <1>5 DEF Round, Closed
  <2> HIDE DEF P
  <2>2. Nat \subseteq P
    BY <2>1, AllNaturals
  <2> QED  BY <2>2 DEF P
<1> DEFINE T == {e[2] : e \in E}
<1>6. IsFiniteSet(T) /\ Cardinality(T) \in Nat /\ Cardinality(T) <= Cardinality(E)
  <2>1. PICK g : g = [e \in E |-> e[2]]
    OBVIOUS
  <2>2. g \in Surjection(E, T)
    BY <2>1 DEF Surjection
  <2> HIDE DEF T
  <2>3. IsFiniteSet(T) /\ Cardinality(T) <= Cardinality(E)
    BY <2>2, FS_Surjection
  <2> QED  BY <2>3, FS_CardinalityType
<1>7. \A k \in Nat : f[k] \subseteq T
  <2>1. Targets(E, x) \subseteq T /\ Closed(T, E)
    BY DEF Targets, Closed
  <2> QED  BY <1>5, <2>1
<1> HIDE DEF T
<1>8. \A k \in Nat : IsFiniteSet(f[k]) /\ Cardinality(f[k]) \in Nat /\ Cardinality(f[k]) <= Cardinality(T)
  <2> TAKE k \in Nat
  <2>1. f[k] \in SUBSET T
    BY <1>7
  <2> QED  BY <1>6, <2>1, FS_Subset, FS_CardinalityType
<1>9. \A k \in Nat : Closed(f[k], E) \/ Cardinality(f[k]) > k
  <2> DEFINE P == {k \in Nat : Closed(f[k], E) \/ Cardinality(f[k]) > k}
  <2>1. 0 \in P
    <3>1. CASE f[0] = {}
      BY <3>1 DEF Closed
    <3>2. CASE f[0] # {}
      <4>1. Cardinality(f[0]) # 0
        BY <1>8, <3>2, FS_EmptySet
      <4> QED  BY <1>8, <4>1
    <3> QED  BY <3>1, <3>2
  <2>2. ASSUME NEW k \in Nat, k \in P PROVE k + 1 \in P
    <3>1. f[k + 1] = Round(f[k], E)
      BY <1>2
    <3>2. CASE Closed(f[k], E)
      <4>1. f[k + 1] = f[k]
        BY <3>1, <3>2 DEF Round, Closed
      <4> QED  BY <3>2, <4>1
    <3>3. CASE ~Closed(f[k], E)
      <4>1. PICK n \in f[k + 1] : n \notin f[k]
        BY <3>1, <3>3 DEF Round, Closed
      <4>2. Cardinality(f[k]) > k
        BY <2>2, <3>3
      <4>3. Cardinality(f[k] \cup {n}) = Cardinality(f[k]) + 1 /\ f[k] \cup {n} \in SUBSET f[k + 1]
        BY <1>8, <3>1, <4>1, FS_AddElement DEF Round
      <4>4. Cardinality(f[k] \cup {n}) <= Cardinality(f[k + 1])
        BY <1>8, <4>3, FS_Subset
      <4>5. Cardinality(f[k + 1]) > k + 1
        BY <1>8, <4>2, <4>3, <4>4
      <4> QED  BY <4>5
    <3> QED  BY <3>2, <3>3
  <2> HIDE DEF P
  <2>3. Nat \subseteq P
    BY <2>1, <2>2, AllNaturals
  <2> QED  BY <2>3 DEF P
<1>10. Closed(f[Cardinality(E)], E)
  <2>1. /\ Cardinality(f[Cardinality(E)]) \in Nat
        /\ Cardinality(f[Cardinality(E)]) <= Cardinality(E)
    BY <1>3, <1>6, <1>8
  <2>2. ~(Cardinality(f[Cardinality(E)]) > Cardinality(E))
    BY <1>3, <2>1
  <2> QED  BY <1>3, <1>9, <2>2
<1> QED  BY <1>1, <1>3, <1>4, <1>5, <1>10

\* A graph has no cycle.
Acyclic(E) == \A e \in E : e[1] \notin DownstreamOf(e[1], E)

\* An edge that wouldCreateCycle lets pass makes no cycle, even if the graph it was asked of has
\* more edges than those that have none.
LEMMA CycleCheckIsRight ==
    ASSUME NEW E, NEW F, IsFiniteSet(E), F \subseteq E, Acyclic(F), NEW a, NEW b,
           ~WouldCreateCycle(a, b, E)
    PROVE  Acyclic(F \cup {<<a, b>>})
<1> DEFINE G == F \cup {<<a, b>>}
<1>1. IsFiniteSet(F) /\ IsFiniteSet(G)
  BY FS_Subset, FS_AddElement
<1>2. a # b /\ a \notin DownstreamOf(b, E)
  BY DEF WouldCreateCycle
<1>3. \A n : Targets(F, n) \subseteq Targets(E, n)
  BY DEF Targets
<1>4. \A n : Targets(G, n) = Targets(F, n) \cup (IF n = a THEN {b} ELSE {})
  <2> TAKE n
  <2>1. \A m : m \in Targets(F, n) \/ (n = a /\ m = b) => m \in Targets(G, n)
    <3>1. <<a, b>> \in G /\ <<a, b>>[1] = a /\ <<a, b>>[2] = b
      OBVIOUS
    <3>2. n = a => b \in Targets(G, n)
      BY ONLY <3>1 DEF Targets
    <3>3. \A m : m \in Targets(F, n) => m \in Targets(G, n)
      BY DEF Targets
    <3> QED  BY <3>2, <3>3
  <2>2. \A m : m \in Targets(G, n) => m \in Targets(F, n) \/ (n = a /\ m = b)
    BY DEF Targets
  <2> QED  BY <2>1, <2>2
<1>5. a \notin DownstreamOf(b, F)
  <2>1. Targets(F, b) \subseteq DownstreamOf(b, E) /\ Closed(DownstreamOf(b, E), F)
    BY <1>3, DownstreamIsLeast DEF Closed
  <2>2. DownstreamOf(b, F) \subseteq DownstreamOf(b, E)
    BY <1>1, <2>1, DownstreamIsLeast
  <2> QED  BY <1>2, <2>2
<1> SUFFICES ASSUME NEW e \in G, e[1] \in DownstreamOf(e[1], G) PROVE FALSE
  BY DEF Acyclic
<1> HIDE DEF G
<1> DEFINE x == e[1]
           D == DownstreamOf(x, F)
           B == DownstreamOf(b, F)
<1>6. /\ Targets(F, x) \subseteq D /\ Closed(D, F)
      /\ Targets(F, b) \subseteq B /\ Closed(B, F) /\ a \notin B
  BY <1>1, <1>5, DownstreamIsLeast
<1>7. x \notin D
  <2>1. CASE \E d \in F : d[1] = x
    BY <2>1 DEF Acyclic
  <2>2. CASE ~ \E d \in F : d[1] = x
    <3>1. Targets(F, x) \subseteq {} /\ Closed({}, F)
      BY <2>2 DEF Targets, Closed
    <3>2. D \subseteq {}
      BY <1>1, <3>1, DownstreamIsLeast
    <3> QED  BY <3>2
  <2> QED  BY <2>1, <2>2
<1>8. CASE a \notin D \cup {x}
  <2>1. Targets(G, x) \subseteq D /\ Closed(D, G)
    BY <1>4, <1>6, <1>8 DEF Closed
  <2>2. DownstreamOf(x, G) \subseteq D
    BY <1>1, <2>1, DownstreamIsLeast
  <2> QED  BY <1>7, <2>2
<1>9. CASE a \in D \cup {x}
  <2> DEFINE W == D \cup {b} \cup B
  <2>1. Targets(G, x) \subseteq W /\ Closed(W, G)
    BY <1>4, <1>6 DEF Closed
  <2>2. DownstreamOf(x, G) \subseteq W
    BY <1>1, <2>1, DownstreamIsLeast
  <2>3. x = b \/ x \in B
    BY <1>7, <2>2
  <2>4. Targets(F, x) \subseteq B
    BY <1>6, <2>3 DEF Closed
  <2>5. D \subseteq B
    BY <1>1, <1>6, <2>4, DownstreamIsLeast
  <2> QED  BY <1>2, <1>6, <1>9, <2>3, <2>5
<1> QED  BY <1>8, <1>9

-----------------------------------------------------------------------------
(* What Kahn's algorithm computes: after a pass, the nodes D that have been in the queue. *)

Into(E, n, D) == {e \in E : e[2] = n /\ e[1] \in D}
After(layer, hits) == {layer[e[1]] + 1 : e \in hits}
States(N) == [queue: SUBSET N, indeg: [N -> Int], layer: [N -> Nat]]

\* The in-degrees count the edges from the other nodes, the nodes of D and of the queue are those
\* without such edges, and a layer is the longest path over D.
Passed(D, s, N, E) ==
    /\ D \subseteq N /\ s.queue \cap D = {}
    /\ \A n \in N : s.indeg[n] = Cardinality(Into(E, n, N \ D))
    /\ D \cup s.queue = {n \in N : Into(E, n, N \ D) = {}}
    /\ \A n \in N : IsMax(s.layer[n], {0} \cup After(s.layer, Into(E, n, D)))

LEMMA IntoIsFinite ==
    ASSUME NEW E, IsFiniteSet(E), NEW n, NEW D
    PROVE  IsFiniteSet(Into(E, n, D)) /\ Cardinality(Into(E, n, D)) \in Nat
           /\ (Cardinality(Into(E, n, D)) = 0 <=> Into(E, n, D) = {})
<1>1. Into(E, n, D) \in SUBSET E
  BY DEF Into
<1>2. IsFiniteSet(Into(E, n, D))
  BY <1>1, FS_Subset
<1> QED  BY <1>2, FS_CardinalityType, FS_EmptySet

LEMMA AfterIsFinite ==
    ASSUME NEW N, NEW layer \in [N -> Nat], NEW hits, IsFiniteSet(hits), \A e \in hits : e[1] \in N
    PROVE  IsFiniteSet(After(layer, hits)) /\ After(layer, hits) \subseteq Nat
<1> DEFINE f == [e \in hits |-> layer[e[1]] + 1]
<1>1. f \in Surjection(hits, After(layer, hits))
  BY DEF Surjection, After
<1>2. After(layer, hits) \subseteq Nat
  BY DEF After
<1> QED  BY <1>1, <1>2, FS_Surjection

LEMMA DisjointCardinality ==
    ASSUME NEW A, NEW B, IsFiniteSet(A), IsFiniteSet(B), A \cap B = {}
    PROVE  Cardinality(A \cup B) = Cardinality(A) + Cardinality(B)
<1>1. Cardinality(A) \in Nat /\ Cardinality(B) \in Nat /\ Cardinality({}) = 0
  BY FS_CardinalityType, FS_EmptySet
<1>2. Cardinality(A \cup B) = Cardinality(A) + Cardinality(B) - Cardinality(A \cap B)
  BY FS_Union
<1>3. Cardinality(A \cap B) = 0
  BY <1>1
<1> QED  BY ONLY <1>1, <1>2, <1>3

\* A pass takes the queue to the nodes that have been, whatever it has found.
LEMMA PassStep ==
    ASSUME NEW N, NEW E, IsFiniteSet(E), \A e \in E : e[1] \in N /\ e[2] \in N,
           NEW s \in States(N), NEW D, Passed(D, s, N, E)
    PROVE  Relax(s, N, E) \in States(N) /\ Passed(D \cup s.queue, Relax(s, N, E), N, E)
<1> DEFINE Q == s.queue
           hit(n) == Into(E, n, Q)
           t == Relax(s, N, E)
<1>1. /\ t.queue = {n \in N : hit(n) # {} /\ t.indeg[n] <= 0}
      /\ t.indeg = [n \in N |-> s.indeg[n] - Cardinality(hit(n))]
      /\ t.layer = [n \in N |-> Max({s.layer[n]} \cup After(s.layer, hit(n)))]
      /\ t = [queue |-> t.queue, indeg |-> t.indeg, layer |-> t.layer]
  <2>1. \A n : {e \in E : e[1] \in s.queue /\ e[2] = n} = hit(n)
    BY DEF Into
  <2> QED  BY <2>1 DEF Relax, After
<1>2. /\ D \subseteq N /\ Q \subseteq N /\ Q \cap D = {}
      /\ s.layer \in [N -> Nat]
  BY DEF Passed, States
<1> HIDE DEF t
<1>3. \A n \in N : Into(E, n, N \ D) = Into(E, n, N \ (D \cup Q)) \cup hit(n)
                   /\ Into(E, n, N \ (D \cup Q)) \cap hit(n) = {}
  BY <1>2 DEF Into
<1>4. \A n \in N : Cardinality(hit(n)) \in Nat
                   /\ s.indeg[n] = Cardinality(Into(E, n, N \ (D \cup Q))) + Cardinality(hit(n))
  <2> TAKE n \in N
  <2>1. IsFiniteSet(hit(n)) /\ IsFiniteSet(Into(E, n, N \ (D \cup Q))) /\ Cardinality(hit(n)) \in Nat
        /\ Cardinality(Into(E, n, N \ (D \cup Q))) \in Nat
    BY IntoIsFinite
  <2>2. Cardinality(Into(E, n, N \ D)) = Cardinality(Into(E, n, N \ (D \cup Q))) + Cardinality(hit(n))
    BY <1>3, <2>1, DisjointCardinality
  <2>3. s.indeg[n] = Cardinality(Into(E, n, N \ D))
    BY DEF Passed
  <2> QED  BY <2>1, <2>2, <2>3
<1>5. \A n \in N : t.indeg[n] = Cardinality(Into(E, n, N \ (D \cup Q)))
  <2> TAKE n \in N
  <2>1. Cardinality(Into(E, n, N \ (D \cup Q))) \in Nat
    BY IntoIsFinite
  <2>2. t.indeg[n] = s.indeg[n] - Cardinality(hit(n))
    BY <1>1
  <2> HIDE DEF hit, Q
  <2> QED  BY <1>4, <2>1, <2>2
<1>6. t.queue = {n \in N : hit(n) # {} /\ Into(E, n, N \ (D \cup Q)) = {}}
  <2>1. \A n \in N : t.indeg[n] <= 0 <=> Into(E, n, N \ (D \cup Q)) = {}
    <3> TAKE n \in N
    <3>1. /\ Cardinality(Into(E, n, N \ (D \cup Q))) \in Nat
          /\ Cardinality(Into(E, n, N \ (D \cup Q))) = 0 <=> Into(E, n, N \ (D \cup Q)) = {}
      BY IntoIsFinite
    <3> HIDE DEF Q
    <3> QED  BY <1>5, <3>1
  <2> QED  BY <1>1, <2>1
<1>7. D \cup Q = {n \in N : Into(E, n, N \ D) = {}}
  BY DEF Passed
<1>8. t.queue \cap (D \cup Q) = {} /\ (D \cup Q) \cup t.queue = {n \in N : Into(E, n, N \ (D \cup Q)) = {}}
  BY <1>3, <1>6, <1>7
<1>9. \A n \in N : IsMax(t.layer[n], {s.layer[n]} \cup After(s.layer, hit(n))) /\ t.layer[n] \in Nat
  <2> TAKE n \in N
  <2>1. IsFiniteSet(After(s.layer, hit(n))) /\ After(s.layer, hit(n)) \subseteq Nat
    BY <1>2, IntoIsFinite, AfterIsFinite DEF Into
  <2>2. IsFiniteSet({s.layer[n]} \cup After(s.layer, hit(n))) /\ s.layer[n] \in Nat
    BY <1>2, <2>1, FS_Union, FS_Singleton
  <2>3. IsMax(Max({s.layer[n]} \cup After(s.layer, hit(n))), {s.layer[n]} \cup After(s.layer, hit(n)))
    BY <2>1, <2>2, MaxExists
  <2> QED  BY <1>1, <2>1, <2>2, <2>3 DEF IsMax
<1>10. \A n \in D \cup Q : t.layer[n] = s.layer[n]
  BY <1>2, <1>3, <1>7, <1>9 DEF IsMax, After
<1>11. \A n \in N : IsMax(t.layer[n], {0} \cup After(t.layer, Into(E, n, D \cup Q)))
  <2> TAKE n \in N
  <2>1. After(t.layer, Into(E, n, D \cup Q)) = After(s.layer, Into(E, n, D)) \cup After(s.layer, hit(n))
    BY <1>10 DEF After, Into
  <2>2. IsMax(s.layer[n], {0} \cup After(s.layer, Into(E, n, D)))
    BY DEF Passed
  <2>3. After(s.layer, Into(E, n, D)) \subseteq Nat /\ After(s.layer, hit(n)) \subseteq Nat
    BY <1>2 DEF After, Into
  <2>4. t.layer[n] \in Nat /\ s.layer[n] \in Nat /\ IsMax(t.layer[n], {s.layer[n]} \cup After(s.layer, hit(n)))
    BY <1>2, <1>9
  <2>5. \A y \in {0} \cup After(t.layer, Into(E, n, D \cup Q)) :
            y \in {0} \cup After(s.layer, Into(E, n, D)) \/ y \in After(s.layer, hit(n))
    BY <2>1
  <2> HIDE DEF hit, Q
  <2>6. s.layer[n] \in {0} \cup After(t.layer, Into(E, n, D \cup Q)) /\ s.layer[n] <= t.layer[n]
    BY <2>1, <2>2, <2>4 DEF IsMax
  <2>7. t.layer[n] \in {0} \cup After(t.layer, Into(E, n, D \cup Q))
    BY <2>1, <2>4, <2>6 DEF IsMax
  <2>8. ASSUME NEW y \in {0} \cup After(t.layer, Into(E, n, D \cup Q)) PROVE t.layer[n] >= y
    <3>1. CASE y \in {0} \cup After(s.layer, Into(E, n, D))
      <4>1. s.layer[n] >= y /\ y \in Nat
        BY <2>2, <2>3, <3>1 DEF IsMax
      <4> QED  BY <2>4, <2>6, <4>1
    <3>2. CASE y \in After(s.layer, hit(n))
      BY <2>4, <3>2 DEF IsMax
    <3> QED  BY <2>5, <2>8, <3>1, <3>2
  <2> QED  BY <2>7, <2>8 DEF IsMax
<1>12. t \in States(N)
  <2>1. t.queue \in SUBSET N
    BY <1>1
  <2>2. t.layer \in [N -> Nat]
    BY <1>1, <1>9
  <2>3. t.indeg \in [N -> Int]
    <3>1. \A n \in N : t.indeg[n] \in Int
      <4> TAKE n \in N
      <4>1. Cardinality(Into(E, n, N \ (D \cup Q))) \in Nat
        BY IntoIsFinite
      <4> QED  BY <1>5, <4>1
    <3> HIDE DEF hit, Q
    <3>2. t.indeg = [n \in N |-> t.indeg[n]]
      BY <1>1
    <3> QED  BY <3>1, <3>2
  <2> QED  BY <1>1, <2>1, <2>2, <2>3 DEF States
<1> QED  BY <1>2, <1>5, <1>8, <1>11, <1>12 DEF Passed, t

Start(N, E) == [queue |-> {n \in N : Into(E, n, N) = {}}, indeg |-> [n \in N |-> Cardinality(Into(E, n, N))],
                layer |-> [n \in N |-> 0]]
IsPass(f, N, E) == f = [k \in Nat |-> IF k = 0 THEN Start(N, E) ELSE Relax(f[k - 1], N, E)]

LEMMA StartPassed ==
    ASSUME NEW N, NEW E, IsFiniteSet(E)
    PROVE  Start(N, E) \in States(N) /\ Passed({}, Start(N, E), N, E)
<1>1. \A n \in N : Cardinality(Into(E, n, N)) \in Nat
  BY IntoIsFinite
<1>2. Start(N, E) \in States(N)
  BY <1>1 DEF Start, States
<1>3. Passed({}, Start(N, E), N, E)
  <2>1. N \ {} = N
    OBVIOUS
  <2>2. \A n \in N : {0} \cup After(Start(N, E).layer, Into(E, n, {})) = {0} /\ Start(N, E).layer[n] = 0
    BY DEF After, Into, Start
  <2> QED  BY <2>1, <2>2 DEF Passed, Start, IsMax
<1> QED  BY <1>2, <1>3

\* The passes of layerNodes, each of which has passed some nodes: one more each time, until the
\* queue is empty.
LEMMA Passes ==
    ASSUME NEW N, NEW E, IsFiniteSet(N), IsFiniteSet(E), \A e \in E : e[1] \in N /\ e[2] \in N
    PROVE  \E f : /\ IsPass(f, N, E)
                  /\ \A k \in Nat : f[k] \in States(N) /\ \E D \in SUBSET N :
                         Passed(D, f[k], N, E) /\ (Cardinality(D) >= k \/ f[k].queue = {})
<1> DEFINE S == {s \in States(N) : \E D \in SUBSET N : Passed(D, s, N, E)}
           step == [s \in S |-> Relax(s, N, E)]
<1>1. Start(N, E) \in S
  BY StartPassed
<1>2. ASSUME NEW s \in States(N), NEW D \in SUBSET N, Passed(D, s, N, E)
      PROVE  /\ Relax(s, N, E) \in States(N) /\ D \cup s.queue \in SUBSET N
             /\ Passed(D \cup s.queue, Relax(s, N, E), N, E)
             /\ s.queue = {} => Relax(s, N, E).queue = {}
  <2>1. s.queue \in SUBSET N
    BY DEF States
  <2>2. s.queue = {} => Relax(s, N, E).queue = {}
    BY DEF Relax
  <2> QED  BY <1>2, <2>1, <2>2, PassStep
<1>3. step \in [S -> S]
  <2>1. \A s \in S : Relax(s, N, E) \in S
    BY <1>2
  <2> HIDE DEF S
  <2> QED  BY <2>1
<1>4. (\A s \in S : step[s] = Relax(s, N, E)) /\ S \subseteq States(N)
  OBVIOUS
<1> HIDE DEF step
<1>5. PICK f \in [Nat -> S] : f[0] = Start(N, E) /\ \A k \in Nat \ {0} : f[k] = step[f[k - 1]]
  <2> HIDE DEF S
  <2> QED  BY <1>1, <1>3, RecursionExists
<1>6. f[0] = Start(N, E) /\ \A k \in Nat : f[k + 1] = Relax(f[k], N, E) /\ f[k] \in States(N)
  <2> HIDE DEF S
  <2>1. ASSUME NEW k \in Nat PROVE f[k + 1] = Relax(f[k], N, E) /\ f[k] \in States(N)
    <3>1. k + 1 \in Nat \ {0} /\ (k + 1) - 1 = k
      OBVIOUS
    <3> QED  BY <1>4, <1>5, <3>1
  <2> QED  BY <1>5, <2>1
<1>7. IsPass(f, N, E)
  <2>1. \A k \in Nat : f[k] = IF k = 0 THEN Start(N, E) ELSE Relax(f[k - 1], N, E)
    <3> HIDE DEF S
    <3> TAKE k \in Nat
    <3>1. CASE k = 0
      BY <1>6, <3>1
    <3>2. CASE k # 0
      <4>1. k - 1 \in Nat /\ (k - 1) + 1 = k
        BY <3>2
      <4> QED  BY <1>6, <3>2, <4>1
    <3> QED  BY <3>1, <3>2
  <2> HIDE DEF S
  <2> QED  BY <1>5, <2>1 DEF IsPass
<1> DEFINE Far(k) == \E D \in SUBSET N : Passed(D, f[k], N, E) /\ (Cardinality(D) >= k \/ f[k].queue = {})
           T == {k \in Nat : Far(k)}
<1>8. 0 \in T
  <2>1. Cardinality({}) >= 0
    BY FS_EmptySet
  <2> QED  BY <1>6, <2>1, StartPassed
<1>9. ASSUME NEW k \in Nat, k \in T PROVE k + 1 \in T
  <2>1. PICK D \in SUBSET N : Passed(D, f[k], N, E) /\ (Cardinality(D) >= k \/ f[k].queue = {})
    BY <1>9
  <2> DEFINE C == D \cup f[k].queue
  <2>2. C \in SUBSET N /\ Passed(C, f[k + 1], N, E) /\ (f[k].queue = {} => f[k + 1].queue = {})
    BY <1>2, <1>6, <2>1
  <2>3. CASE f[k].queue # {}
    <3>1. PICK q \in f[k].queue : TRUE
      BY <2>3
    <3>2. q \notin D
      BY <2>1 DEF Passed
    <3>3. IsFiniteSet(D) /\ IsFiniteSet(C)
      BY <2>2, FS_Subset
    <3>4. IsFiniteSet(D \cup {q}) /\ Cardinality(D \cup {q}) = Cardinality(D) + 1 /\ Cardinality(D) \in Nat
      BY <3>2, <3>3, FS_AddElement, FS_CardinalityType
    <3>5. D \cup {q} \in SUBSET C
      OBVIOUS
    <3>6. Cardinality(D \cup {q}) <= Cardinality(C) /\ Cardinality(C) \in Nat
      BY <3>3, <3>5, FS_Subset, FS_CardinalityType
    <3>7. Cardinality(C) >= k + 1
      <4> HIDE DEF C
      <4> QED  BY <2>1, <2>3, <3>4, <3>6
    <3> QED  BY <2>2, <3>7
  <2> QED  BY <2>2, <2>3
<1>10. Nat \subseteq T
  <2> HIDE DEF T
  <2> QED  BY <1>8, <1>9, AllNaturals
<1>11. \A k \in Nat : Far(k)
  BY <1>10
<1> QED  BY <1>6, <1>7, <1>11

LEMMA LayerNodesIsPass ==
    ASSUME NEW N, NEW E, IsFiniteSet(N), IsFiniteSet(E), \A e \in E : e[1] \in N /\ e[2] \in N,
           NEW f, IsPass(f, N, E)
    PROVE  LayerNodes(N, E) = f[Cardinality(N)].layer
<1> DEFINE inner == {e \in E : e[1] \in N /\ e[2] \in N}
           indeg == [n \in N |-> Cardinality({e \in inner : e[2] = n})]
           first == [queue |-> {n \in N : indeg[n] = 0}, indeg |-> indeg, layer |-> [n \in N |-> 0]]
           pass == CHOOSE g : g = [k \in Nat |-> IF k = 0 THEN first ELSE Relax(g[k - 1], N, inner)]
<1>1. LayerNodes(N, E) = pass[Cardinality(N)].layer
  BY DEF LayerNodes
<1>2. inner = E
  OBVIOUS
<1>3. first = Start(N, E)
  <2>1. \A n \in N : {e \in inner : e[2] = n} = Into(E, n, N)
    BY DEF Into
  <2>2. indeg = [n \in N |-> Cardinality(Into(E, n, N))]
    BY <2>1
  <2> HIDE DEF indeg
  <2>3. {n \in N : indeg[n] = 0} = {n \in N : Into(E, n, N) = {}}
    BY <2>2, IntoIsFinite
  <2> QED  BY <2>2, <2>3 DEF Start
<1> HIDE DEF first, inner
<1>4. pass = [k \in Nat |-> IF k = 0 THEN first ELSE Relax(pass[k - 1], N, inner)]
  <2>1. f = [k \in Nat |-> IF k = 0 THEN first ELSE Relax(f[k - 1], N, inner)]
    BY <1>2, <1>3 DEF IsPass
  <2> QED  BY <2>1, Zenon
<1>5. f[0] = Start(N, E) /\ \A k \in Nat : f[k + 1] = Relax(f[k], N, E)
  <2>1. ASSUME NEW k \in Nat PROVE f[k + 1] = Relax(f[k], N, E)
    <3>1. k + 1 \in Nat /\ k + 1 # 0 /\ (k + 1) - 1 = k
      OBVIOUS
    <3> QED  BY <3>1 DEF IsPass
  <2> QED  BY <2>1 DEF IsPass
<1> HIDE DEF pass
<1>6. pass[0] = Start(N, E) /\ \A k \in Nat : pass[k + 1] = Relax(pass[k], N, E)
  <2>1. ASSUME NEW k \in Nat PROVE pass[k + 1] = Relax(pass[k], N, E)
    <3>1. k + 1 \in Nat /\ k + 1 # 0 /\ (k + 1) - 1 = k
      OBVIOUS
    <3> QED  BY <1>2, <1>4, <3>1
  <2> QED  BY <1>3, <1>4, <2>1
<1> DEFINE A == {k \in Nat : f[k] = pass[k]}
<1>7. 0 \in A /\ \A k \in Nat : k \in A => k + 1 \in A
  BY <1>5, <1>6
<1>8. Nat \subseteq A
  <2> HIDE DEF A
  <2> QED  BY <1>7, AllNaturals
<1>9. Cardinality(N) \in Nat
  BY FS_CardinalityType
<1> QED  BY <1>1, <1>8, <1>9

-----------------------------------------------------------------------------
(* The layers of the view: a longest path from a node without sources. *)

\* A node all of whose sources are not yet through is on a cycle or behind one: among the nodes
\* that lead to it, one that leads to the most others leads to itself.
LEMMA StuckIsBehind ==
    ASSUME NEW E, IsFiniteSet(E), NEW U, \A n \in U : \E e \in E : e[2] = n /\ e[1] \in U
    PROVE  U \subseteq Behind(E)
<1> SUFFICES ASSUME NEW n \in U PROVE n \in Behind(E)
  OBVIOUS
<1> DEFINE Down(m) == DownstreamOf(m, E)
           P == {m \in U : n = m \/ n \in Down(m)}
           All == {e[2] : e \in E}
           Sizes == {Cardinality(Down(m)) : m \in P}
<1>1. \A m : Targets(E, m) \subseteq Down(m) /\ Closed(Down(m), E) /\ Down(m) \subseteq All
  <2> TAKE m
  <2>1. Targets(E, m) \subseteq All /\ Closed(All, E)
    BY DEF Targets, Closed
  <2> HIDE DEF All
  <2> QED  BY <2>1, DownstreamIsLeast
<1>2. IsFiniteSet(All)
  <2> DEFINE g == [e \in E |-> e[2]]
  <2>1. g \in Surjection(E, All)
    BY DEF Surjection
  <2> HIDE DEF g, All
  <2> QED  BY <2>1, FS_Surjection
<1> HIDE DEF Down, All
<1>3. \A m : IsFiniteSet(Down(m)) /\ Cardinality(Down(m)) \in 0..Cardinality(All)
  <2> TAKE m
  <2>1. Down(m) \in SUBSET All
    BY <1>1
  <2>2. IsFiniteSet(Down(m)) /\ Cardinality(Down(m)) <= Cardinality(All)
    BY <1>2, <2>1, FS_Subset
  <2> QED  BY <1>2, <2>2, FS_CardinalityType
<1>4. PICK m \in P : \A u \in P : Cardinality(Down(m)) >= Cardinality(Down(u))
  <2>1. Sizes \in SUBSET (0..Cardinality(All)) /\ Sizes # {}
    BY <1>3
  <2>2. IsFiniteSet(0..Cardinality(All)) /\ Cardinality(All) \in Nat
    BY <1>2, FS_CardinalityType, FS_Interval
  <2> HIDE DEF Sizes
  <2>3. Sizes \subseteq Int /\ IsFiniteSet(Sizes)
    <3>1. Sizes \subseteq Int
      BY <2>1, <2>2
    <3>2. IsFiniteSet(Sizes)
      BY <2>1, <2>2, FS_Subset
    <3> QED  BY <3>1, <3>2
  <2>4. IsMax(Max(Sizes), Sizes)
    BY <2>1, <2>3, MaxExists
  <2> QED  BY <2>4 DEF IsMax, Sizes
<1>5. PICK e \in E : e[2] = m /\ e[1] \in U
  OBVIOUS
<1> DEFINE u == e[1]
<1>6. m \in Down(u) /\ Targets(E, m) \subseteq Down(u)
  BY <1>1, <1>5 DEF Targets, Closed
<1>7. Down(m) \subseteq Down(u)
  BY <1>1, <1>6, DownstreamIsLeast DEF Down
<1>8. u \in P
  BY <1>4, <1>5, <1>6, <1>7
<1>9. m \in Down(m)
  <2> SUFFICES ASSUME m \notin Down(m) PROVE FALSE
    OBVIOUS
  <2>1. Down(m) \cup {m} \in SUBSET Down(u)
    BY <1>6, <1>7
  <2>2. Cardinality(Down(m) \cup {m}) = Cardinality(Down(m)) + 1
    BY <1>3, FS_AddElement
  <2>3. Cardinality(Down(m) \cup {m}) <= Cardinality(Down(u))
    BY <1>3, <2>1, FS_Subset
  <2>4. Cardinality(Down(m)) >= Cardinality(Down(u)) /\ Cardinality(Down(m)) \in Int
        /\ Cardinality(Down(u)) \in Int
    BY <1>3, <1>4, <1>8
  <2> QED  BY <2>2, <2>3, <2>4
<1>10. PICK d \in E : d[1] = m
  <2> SUFFICES ASSUME \A d \in E : d[1] # m PROVE FALSE
    OBVIOUS
  <2>1. Targets(E, m) \subseteq {} /\ Closed({}, E)
    BY DEF Targets, Closed
  <2>2. Down(m) \subseteq {}
    BY <2>1, DownstreamIsLeast DEF Down
  <2> QED  BY <1>9, <2>2
<1>11. n \in {e2[2] : e2 \in E}
  OBVIOUS
<1> QED  BY <1>4, <1>9, <1>10, <1>11 DEF Behind, Down

\* layerNodes: whatever the graph, each node that no cycle leads to is one layer behind the last of
\* its sources.
LEMMA LayersAreLongest ==
    ASSUME NEW N, NEW E, IsFiniteSet(N), IsFiniteSet(E), \A e \in E : e[1] \in N /\ e[2] \in N,
           NEW n \in N \ Behind(E)
    PROVE  LayerNodes(N, E)[n] = Max({0} \cup After(LayerNodes(N, E), {e \in E : e[2] = n}))
<1>1. PICK f : /\ IsPass(f, N, E)
               /\ \A k \in Nat : f[k] \in States(N) /\ \E D \in SUBSET N :
                      Passed(D, f[k], N, E) /\ (Cardinality(D) >= k \/ f[k].queue = {})
  BY Passes
<1> DEFINE s == f[Cardinality(N)]
<1>2. LayerNodes(N, E) = s.layer
  BY <1>1, LayerNodesIsPass
<1>3. Cardinality(N) \in Nat
  BY FS_CardinalityType
<1>4. PICK D \in SUBSET N : Passed(D, s, N, E) /\ (Cardinality(D) >= Cardinality(N) \/ s.queue = {})
  BY <1>1, <1>3
<1>5. s \in States(N)
  BY <1>1, <1>3
<1> HIDE DEF s
<1>6. s.queue = {}
  <2>1. CASE Cardinality(D) >= Cardinality(N)
    <3>1. Cardinality(D) <= Cardinality(N) /\ Cardinality(D) \in Nat
      BY FS_Subset, FS_CardinalityType
    <3>2. N = D
      BY <1>3, <2>1, <3>1, FS_Subset
    <3> QED  BY <1>4, <1>5, <3>2 DEF Passed, States
  <2> QED  BY <1>4, <2>1
<1>7. \A m \in N \ D : \E e \in E : e[2] = m /\ e[1] \in N \ D
  BY <1>4, <1>6 DEF Passed, Into
<1>8. N \ D \subseteq Behind(E)
  <2> DEFINE U == N \ D
  <2>1. \A m \in U : \E e \in E : e[2] = m /\ e[1] \in U
    BY <1>7
  <2> HIDE DEF U
  <2>2. U \subseteq Behind(E)
    BY <2>1, StuckIsBehind
  <2> QED  BY <2>2 DEF U
<1>9. Into(E, n, N \ D) = {}
  BY <1>4, <1>6, <1>8 DEF Passed
<1>10. Into(E, n, D) = {e \in E : e[2] = n}
  BY <1>9 DEF Into
<1>11. IsMax(s.layer[n], {0} \cup After(s.layer, {e \in E : e[2] = n}))
  BY <1>4, <1>10 DEF Passed
<1>12. After(s.layer, {e \in E : e[2] = n}) \subseteq Nat
  BY <1>5 DEF After, States
<1> DEFINE S == {0} \cup After(s.layer, {e \in E : e[2] = n})
<1>13. IsMax(s.layer[n], S) /\ S \subseteq Int
  BY <1>11, <1>12
<1> HIDE DEF S
<1>14. s.layer[n] = Max(S)
  BY <1>13, MaxIs
<1> QED  BY <1>2, <1>14 DEF S

-----------------------------------------------------------------------------
(* What the view shows. *)

\* What getLineage builds the view from: datasets numbered by name, sources and services.
IsCatalogue(ds, E, src, links) ==
    /\ ds \subseteq Nat /\ IsFiniteSet(ds) /\ ds # {} /\ IsFiniteSet(E) /\ IsFiniteSet(links)
    /\ DOMAIN src \subseteq ds /\ \A d \in DOMAIN src : src[d] \in Nat
    /\ \A l \in links : l[2] \in Nat

LEMMA NodesAreFinite ==
    ASSUME NEW ds, NEW E, NEW src, NEW links, IsCatalogue(ds, E, src, links)
    PROVE  IsFiniteSet(Nodes(ds, src, links)) /\ IsFiniteSet(WholeGraph(ds, E, src, links))
<1> DEFINE D == DOMAIN src
           R == Range(src)
           L == {l[2] : l \in links}
           S == {<<src[d], d>> : d \in D}
           F == {e \in E : {e[1], e[2]} \subseteq ds}
           K == {l \in links : l[1] \in ds}
<1>1. IsFiniteSet(D)
  BY FS_Subset DEF IsCatalogue
<1>2. IsFiniteSet(R)
  <2> DEFINE f == [d \in D |-> src[d]]
  <2>1. f \in Surjection(D, R)
    BY DEF Surjection, Range
  <2> HIDE DEF f, D, R
  <2> QED  BY <1>1, <2>1, FS_Surjection
<1>3. IsFiniteSet(L)
  <2> DEFINE f == [l \in links |-> l[2]]
  <2>1. f \in Surjection(links, L)
    BY DEF Surjection
  <2> HIDE DEF f, L
  <2> QED  BY <2>1, FS_Surjection DEF IsCatalogue
<1>4. IsFiniteSet(S)
  <2> DEFINE f == [d \in D |-> <<src[d], d>>]
  <2>1. f \in Surjection(D, S)
    BY DEF Surjection
  <2> HIDE DEF f, D, S
  <2> QED  BY <1>1, <2>1, FS_Surjection
<1>5. IsFiniteSet(F) /\ IsFiniteSet(K)
  <2>1. F \in SUBSET E /\ K \in SUBSET links
    OBVIOUS
  <2> HIDE DEF F, K
  <2> QED  BY <2>1, FS_Subset DEF IsCatalogue
<1>6. Nodes(ds, src, links) = (ds \cup R) \cup L
  BY DEF Nodes
<1>7. WholeGraph(ds, E, src, links) = (S \cup F) \cup K
  BY DEF WholeGraph
<1> HIDE DEF D, R, L, S, F, K
<1>8. IsFiniteSet((ds \cup R) \cup L)
  BY <1>2, <1>3, FS_Union DEF IsCatalogue
<1>9. IsFiniteSet((S \cup F) \cup K)
  BY <1>4, <1>5, FS_Union
<1> QED  BY <1>6, <1>7, <1>8, <1>9

LEMMA PlaceIsNumber ==
    ASSUME NEW ds, NEW E, NEW src, NEW links, IsCatalogue(ds, E, src, links),
           NEW n \in Nodes(ds, src, links)
    PROVE  Place(ds, src, n) \in Int
<1>1. CASE n \in ds
  BY <1>1 DEF Place, IsCatalogue
<1>2. CASE n \notin ds /\ n \in Range(src)
  <2> DEFINE S == {d \in DOMAIN src : src[d] = n}
  <2>1. S \in SUBSET ds /\ S # {} /\ S \subseteq Int
    <3>1. (\A d \in S : d \in ds) /\ \A d \in ds : d \in Nat
      BY DEF IsCatalogue
    <3>2. \E d \in DOMAIN src : src[d] = n
      BY <1>2 DEF Range
    <3>3. S # {}
      BY <3>2
    <3> HIDE DEF S
    <3>4. S \subseteq Int
      BY <3>1
    <3>5. S \in SUBSET ds
      BY <3>1
    <3> QED  BY <3>3, <3>4, <3>5
  <2>2. Place(ds, src, n) = 2 * Min(S) + 1
    BY <1>2 DEF Place
  <2> HIDE DEF S
  <2>3. IsFiniteSet(S)
    BY <2>1, FS_Subset DEF IsCatalogue
  <2>4. Min(S) \in Int
    BY <2>1, <2>3, MinExists
  <2> QED  BY <2>2, <2>4
<1>3. CASE n \notin ds /\ n \notin Range(src)
  <2>1. n \in Nat
    BY <1>3 DEF Nodes, IsCatalogue
  <2>2. ds \subseteq Int /\ IsFiniteSet(ds) /\ ds # {}
    BY DEF IsCatalogue
  <2>3. Max(ds) \in Int
    BY <2>2, MaxExists DEF IsMax
  <2> QED  BY <1>3, <2>1, <2>3 DEF Place
<1> QED  BY <1>1, <1>2, <1>3

\* The edges of the view are those between its nodes, all of them if none was cut.
LEMMA ViewEdges ==
    ASSUME NEW ds, NEW E, NEW src, NEW links, IsCatalogue(ds, E, src, links), NEW wanted, NEW cap \in Nat,
           NEW v, v = LineageView(ds, E, src, links, wanted, cap)
    PROVE  /\ IsFiniteSet(v.nodes) /\ v.edges \subseteq WholeGraph(ds, E, src, links)
           /\ \A e \in v.edges : e[1] \in v.nodes /\ e[2] \in v.nodes
           /\ ~v.truncated => v.edges = WholeGraph(ds, E, src, links)
           /\ v.layer = LayerNodes(v.nodes, v.edges) /\ v.impact = DownstreamOf(v.subject, v.edges)
<1> DEFINE all == WholeGraph(ds, E, src, links)
           connected == {v.subject} \cup UNION {{e[1], e[2]} : e \in all}
           listed == Nodes(ds, src, links) \cap connected
           before(n) == {m \in listed : Place(ds, src, m) < Place(ds, src, n)}
<1>1. /\ v.nodes = {n \in listed : Cardinality(before(n)) < cap}
      /\ v.edges = {e \in all : {e[1], e[2]} \subseteq v.nodes}
      /\ ~v.truncated => ~(Cardinality(listed) > cap)
      /\ v.layer = LayerNodes(v.nodes, v.edges) /\ v.impact = DownstreamOf(v.subject, v.edges)
  BY DEF LineageView
<1>2. IsFiniteSet(listed)
  <2>1. listed \in SUBSET Nodes(ds, src, links)
    OBVIOUS
  <2> HIDE DEF listed
  <2> QED  BY <2>1, NodesAreFinite, FS_Subset
<1>3. v.nodes \in SUBSET listed
  BY <1>1
<1>4. IsFiniteSet(v.nodes)
  <2> HIDE DEF listed
  <2> QED  BY <1>2, <1>3, FS_Subset
<1>5. ASSUME ~v.truncated, NEW n \in listed PROVE n \in v.nodes
  <2>1. Place(ds, src, n) \in Int
    BY PlaceIsNumber
  <2>2. before(n) \in SUBSET (listed \ {n})
    BY <2>1
  <2>3. IsFiniteSet(listed \ {n}) /\ Cardinality(listed \ {n}) = Cardinality(listed) - 1
    <3> HIDE DEF listed
    <3> QED  BY <1>2, <1>5, FS_RemoveElement
  <2>4. Cardinality(listed) \in Nat /\ Cardinality(listed) <= cap
    <3>1. Cardinality(listed) \in Nat
      BY <1>2, FS_CardinalityType
    <3> HIDE DEF listed
    <3> QED  BY <1>1, <1>5, <3>1
  <2> DEFINE B == before(n)
  <2>5. n \in v.nodes <=> Cardinality(B) < cap
    BY <1>1, <1>5
  <2> HIDE DEF listed, B
  <2>6. IsFiniteSet(B) /\ Cardinality(B) <= Cardinality(listed \ {n})
    BY <2>2, <2>3, FS_Subset DEF B
  <2>7. Cardinality(B) \in Nat
    BY <2>6, FS_CardinalityType
  <2> QED  BY <2>3, <2>4, <2>5, <2>6, <2>7
<1>6. ASSUME NEW e \in all PROVE e[1] \in listed /\ e[2] \in listed
  <2>1. e[1] \in Nodes(ds, src, links) /\ e[2] \in Nodes(ds, src, links)
    BY DEF WholeGraph, Nodes, IsCatalogue, Range
  <2>2. e[1] \in connected /\ e[2] \in connected
    OBVIOUS
  <2> QED  BY <2>1, <2>2
<1> HIDE DEF listed
<1>7. ~v.truncated => v.edges = all
  BY <1>1, <1>5, <1>6
<1> QED  BY <1>1, <1>4, <1>7

Incoming(E, n) == {e \in E : e[2] = n}
Aims(E) == {e[2] : e \in E}

\* getLineage: the layers are longest paths, and the impact is the least set that holds all that
\* the subject leads to, of the edges shown and, if no node was cut, of all.
LEMMA ViewIsSound ==
    ASSUME NEW ds, NEW E, NEW src, NEW links, IsCatalogue(ds, E, src, links), NEW wanted, NEW cap \in Nat,
           NEW v, v = LineageView(ds, E, src, links, wanted, cap),
           NEW whole, whole = WholeGraph(ds, E, src, links)
    PROVE  /\ \A n \in v.nodes \ Behind(v.edges) :
                  v.layer[n] = Max({0} \cup After(v.layer, Incoming(v.edges, n)))
           /\ \A N : (\A e \in whole : e[1] \in N \cup {v.subject} => e[2] \in N) => v.impact \subseteq N
           /\ ~v.truncated => \A e \in whole : e[1] \in v.impact \cup {v.subject} => e[2] \in v.impact
           /\ v.impact \subseteq Aims(whole)
<1>1. /\ IsFiniteSet(v.nodes) /\ v.edges \subseteq whole /\ IsFiniteSet(v.edges)
      /\ \A e \in v.edges : e[1] \in v.nodes /\ e[2] \in v.nodes
      /\ ~v.truncated => v.edges = whole
      /\ v.layer = LayerNodes(v.nodes, v.edges) /\ v.impact = DownstreamOf(v.subject, v.edges)
  <2>1. v.edges \subseteq whole
    BY ViewEdges
  <2>2. IsFiniteSet(v.edges)
    BY <2>1, NodesAreFinite, FS_Subset
  <2> QED  BY <2>2, ViewEdges
<1>2. ASSUME NEW n \in v.nodes \ Behind(v.edges)
      PROVE  v.layer[n] = Max({0} \cup After(v.layer, Incoming(v.edges, n)))
  <2> DEFINE N == v.nodes
             G == v.edges
  <2>1. IsFiniteSet(N) /\ IsFiniteSet(G) /\ (\A e \in G : e[1] \in N /\ e[2] \in N) /\ n \in N \ Behind(G)
    BY <1>1
  <2> HIDE DEF N, G
  <2>2. LayerNodes(N, G)[n] = Max({0} \cup After(LayerNodes(N, G), {e \in G : e[2] = n}))
    BY <2>1, LayersAreLongest
  <2> QED  BY <1>1, <2>2 DEF N, G, Incoming
<1>3. Targets(v.edges, v.subject) \subseteq v.impact /\ Closed(v.impact, v.edges)
  BY <1>1, DownstreamIsLeast
<1>4. \A S : Targets(v.edges, v.subject) \subseteq S /\ Closed(S, v.edges) => v.impact \subseteq S
  BY <1>1, DownstreamIsLeast
<1>5. ASSUME NEW N, \A e \in whole : e[1] \in N \cup {v.subject} => e[2] \in N PROVE v.impact \subseteq N
  <2>1. Targets(v.edges, v.subject) \subseteq N /\ Closed(N, v.edges)
    BY <1>1, <1>5 DEF Targets, Closed
  <2> QED  BY <1>4, <2>1
<1>6. ~v.truncated => \A e \in whole : e[1] \in v.impact \cup {v.subject} => e[2] \in v.impact
  BY <1>1, <1>3 DEF Targets, Closed
<1>7. v.impact \subseteq Aims(whole)
  <2> DEFINE N == {e[2] : e \in whole}
  <2>1. \A e \in whole : e[2] \in N
    OBVIOUS
  <2> HIDE DEF N
  <2>2. v.impact \subseteq N
    BY <1>5, <2>1
  <2> QED  BY <2>2 DEF N, Aims
<1> QED  BY <1>2, <1>5, <1>6, <1>7

-----------------------------------------------------------------------------
(* The lineage graph has no cycle but through an edge whose check had missed another. *)

Sound == {e[1] : e \in edge \ raced}
IsEdgeWriter(q) == q.kind \in {"edge", "action"}

\* What is asked for is made of codes.
IsOfCodes(q) == /\ IsEdgeWriter(q) => q.body \in Codes \X Codes
                /\ q.kind = "dataset" => q.body \in Codes
                /\ q.kind = "sync" => q.body \subseteq Codes /\ q.plan \subseteq Codes

\* An edge that is about to be created has been checked on the graph as it is, until another
\* commit to the table of edges has passed.
GraphInv ==
    /\ edge \subseteq (Codes \X Codes) \X Writers /\ raced \subseteq edge
    /\ dataset \subseteq Codes \X (Writers \cup {"source", "old"}) /\ request \subseteq Writers
    /\ \A w \in Writers : writer[w].pc \in {"lookup", "check", "create"} => IsOfCodes(writer[w])
    /\ \A w \in Writers : writer[w].pc = "create" /\ IsEdgeWriter(writer[w]) /\ ~writer[w].moved =>
           ~WouldCreateCycle(writer[w].body[1], writer[w].body[2], EdgePairs)
    /\ Acyclic(Sound)

LEMMA EdgesAreFinite == ASSUME edge \subseteq (Codes \X Codes) \X Writers PROVE IsFiniteSet(EdgePairs)
<1>1. EdgePairs \in SUBSET (Codes \X Codes)
  BY DEF EdgePairs
<1>2. IsFiniteSet(Codes \X Codes)
  BY CatalogAssumption, FS_Product
<1> QED  BY <1>1, <1>2, FS_Subset

LEMMA InitGraph == CatalogInit => GraphInv
<1> SUFFICES ASSUME CatalogInit PROVE GraphInv
  OBVIOUS
<1>1. /\ edge = {} /\ raced = {} /\ request = {} /\ \A w \in Writers : writer[w].pc = "idle"
      /\ dataset \subseteq Codes \X (Writers \cup {"source", "old"})
  BY CatalogAssumption DEF CatalogInit
<1>2. Sound = {}
  BY <1>1 DEF Sound
<1> QED  BY <1>1, <1>2 DEF GraphInv, Acyclic

\* Steps that leave the edges alone, of a writer that keeps or gets what the invariant asks of it.
LEMMA GraphStays ==
    ASSUME GraphInv, UNCHANGED <<edge, raced>>, NEW w \in Writers,
           dataset' \subseteq Codes \X (Writers \cup {"source", "old"}), request' \subseteq Writers,
           \A v \in Writers \ {w} :
               \/ writer'[v] = writer[v]
               \/ /\ writer'[v].pc = writer[v].pc /\ writer'[v].kind = writer[v].kind
                  /\ writer'[v].body = writer[v].body /\ writer'[v].plan = writer[v].plan
                  /\ writer'[v].moved,
           \/ writer'[w].pc \in {"idle", "done", "catch"}
           \/ /\ IsOfCodes(writer'[w])
              /\ writer'[w].pc = "create" /\ IsEdgeWriter(writer'[w]) =>
                    ~WouldCreateCycle(writer'[w].body[1], writer'[w].body[2], EdgePairs)
    PROVE  GraphInv'
<1>1. EdgePairs' = EdgePairs /\ Sound' = Sound
  BY DEF EdgePairs, Sound
<1>2. ASSUME NEW v \in Writers, writer'[v].pc \in {"lookup", "check", "create"}
      PROVE  /\ IsOfCodes(writer'[v])
             /\ writer'[v].pc = "create" /\ IsEdgeWriter(writer'[v]) /\ ~writer'[v].moved =>
                   ~WouldCreateCycle(writer'[v].body[1], writer'[v].body[2], EdgePairs)
  BY <1>2 DEF GraphInv, IsEdgeWriter, IsOfCodes
<1>3. Acyclic(Sound)'
  BY <1>1 DEF GraphInv, Acyclic
<1> QED  BY <1>1, <1>2, <1>3 DEF GraphInv, IsEdgeWriter, IsOfCodes, WouldCreateCycle

LEMMA GraphBegin == ASSUME IInv, GraphInv, NEW w \in Writers, Begin(w) PROVE GraphInv'
<1>1. PICK kind \in kinds : \E body \in Bodies(kind) :
      \E k \in {None} \cup (IF kind \in {"action", "sync"} THEN {} ELSE Keys) :
        writer' = [writer EXCEPT ![w] =
           [pc |-> IF k = None THEN "check" ELSE "lookup", kind |-> kind, body |-> body,
            key |-> k, late |-> k # None /\ ledger[k] # Unused, moved |-> FALSE, plan |-> {}]]
  BY DEF Begin
<1>2. PICK body \in Bodies(kind) : \E k : \E new :
        /\ new.pc \in {"check", "lookup"} /\ new.kind = kind /\ new.body = body /\ new.plan = {}
        /\ writer' = [writer EXCEPT ![w] = new]
  <2>1. PICK body \in Bodies(kind), k \in {None} \cup Keys :
        writer' = [writer EXCEPT ![w] =
           [pc |-> IF k = None THEN "check" ELSE "lookup", kind |-> kind, body |-> body,
            key |-> k, late |-> k # None /\ ledger[k] # Unused, moved |-> FALSE, plan |-> {}]]
    BY <1>1
  <2>2. PICK new : new = [pc |-> IF k = None THEN "check" ELSE "lookup", kind |-> kind, body |-> body,
            key |-> k, late |-> k # None /\ ledger[k] # Unused, moved |-> FALSE, plan |-> {}]
    OBVIOUS
  <2>3. new.pc \in {"check", "lookup"} /\ new.kind = kind /\ new.body = body /\ new.plan = {}
    BY <2>2
  <2>4. writer' = [writer EXCEPT ![w] = new]
    BY <2>1, <2>2, Zenon
  <2> QED  BY <2>3, <2>4
<1>3. PICK new : /\ new.pc \in {"check", "lookup"} /\ new.kind = kind /\ new.body = body /\ new.plan = {}
                 /\ writer' = [writer EXCEPT ![w] = new]
  BY <1>2
<1>4. /\ writer'[w] = new /\ \A v \in Writers \ {w} : writer'[v] = writer[v]
      /\ UNCHANGED <<edge, raced, dataset, request>>
  BY <1>3, AtWriter DEF IInv, Begin, Rows
<1>5. IsOfCodes(new)
  BY <1>3 DEF IsOfCodes, IsEdgeWriter, Bodies
<1>6. dataset' \subseteq Codes \X (Writers \cup {"source", "old"}) /\ request' \subseteq Writers
  BY <1>4 DEF GraphInv
<1> QED  BY <1>3, <1>4, <1>5, <1>6, GraphStays

\* The checks of an edge include the one for cycles.
LEMMA GraphCheck == ASSUME IInv, GraphInv, NEW w \in Writers, Check(w) PROVE GraphInv'
<1> DEFINE q == writer[w]
           no == Refusal(q.kind, q.body)
<1>1. /\ q.pc = "check" /\ UNCHANGED <<edge, raced>> /\ q \in Work(q.body, q.plan)
      /\ dataset' \subseteq Codes \X (Writers \cup {"source", "old"}) /\ request' \subseteq Writers
  BY DEF Check, IInv, Shapes, Over, Work, Rows, GraphInv
<1>2. CASE no # "ok"
  <2>1. Finish(w, Answer(no, None))
    BY <1>2 DEF Check
  <2>2. writer'[w].pc = "done" /\ \A v \in Writers \ {w} : writer'[v] = writer[v]
    BY <2>1 DEF Finish, IInv, Shapes
  <2> QED  BY <1>1, <2>2, GraphStays
<1>3. CASE no = "ok"
  <2>1. PICK p : /\ q.kind = "sync" => p \subseteq q.body
                 /\ writer' = [writer EXCEPT ![w] = [q EXCEPT !.pc = "create", !.plan = p]]
    <3>1. \A known, count : PlanSync(q.body, known, count) \subseteq q.body
      BY DEF PlanSync
    <3> DEFINE p == IF q.kind # "sync" THEN {} ELSE
                    PlanSync(q.body, {d[1] : d \in {e \in dataset : e[2] = "source"}}, Cardinality(dataset))
    <3>2. q.kind = "sync" => p \subseteq q.body
      BY <3>1
    <3>3. writer' = [writer EXCEPT ![w] = [q EXCEPT !.pc = "create", !.plan = p]]
      BY <1>3 DEF Check
    <3> HIDE DEF p
    <3> QED  BY <3>2, <3>3
  <2>2. PICK new : new = [q EXCEPT !.pc = "create", !.plan = p]
    OBVIOUS
  <2>3. new.kind = q.kind /\ new.body = q.body /\ new.plan = p
    BY <1>1, <2>2 DEF Work
  <2>4. writer'[w] = new /\ \A v \in Writers \ {w} : writer'[v] = writer[v]
    BY <2>1, <2>2, AtWriter DEF IInv
  <2>5. IsEdgeWriter(q) => ~WouldCreateCycle(q.body[1], q.body[2], EdgePairs)
    BY <1>1, <1>3 DEF IsEdgeWriter, Refusal, RefusalOfEdge
  <2>6. IsOfCodes(q)
    BY <1>1 DEF GraphInv
  <2> HIDE DEF q
  <2>7. IsOfCodes(new)
    BY <2>1, <2>3, <2>6 DEF IsOfCodes, IsEdgeWriter
  <2> QED  BY <1>1, <2>3, <2>4, <2>5, <2>7, GraphStays DEF IsEdgeWriter
<1> QED  BY <1>2, <1>3

\* The lookup and the catch write nothing.
LEMMA GraphReply == ASSUME IInv, GraphInv, NEW w \in Writers, Lookup(w) \/ Catch(w) PROVE GraphInv'
<1>1. /\ writer[w] \in Work(writer[w].body, writer[w].plan) /\ UNCHANGED <<edge, raced>>
      /\ dataset' \subseteq Codes \X (Writers \cup {"source", "old"}) /\ request' \subseteq Writers
  BY DEF Lookup, Catch, IInv, Shapes, Over, Rows, GraphInv
<1>2. CASE \E answer : Finish(w, answer)
  <2>1. writer'[w].pc = "done" /\ \A v \in Writers \ {w} : writer'[v] = writer[v]
    BY <1>2 DEF Finish, IInv, Shapes
  <2> QED  BY <1>1, <2>1, GraphStays
<1>3. CASE writer[w].pc = "lookup" /\ writer' = [writer EXCEPT ![w].pc = "check"]
  <2>1. PICK new : new = [writer[w] EXCEPT !.pc = "check"]
    OBVIOUS
  <2>2. /\ new.kind = writer[w].kind /\ new.body = writer[w].body /\ new.plan = writer[w].plan
        /\ new.pc = "check"
    BY <1>1, <2>1 DEF Work
  <2>3. writer'[w] = new /\ \A v \in Writers \ {w} : writer'[v] = writer[v]
    BY <1>3, <2>1, AtWriter DEF IInv
  <2>4. IsOfCodes(new)
    BY <1>3, <2>2 DEF GraphInv, IsOfCodes, IsEdgeWriter
  <2> QED  BY <1>1, <2>2, <2>3, <2>4, GraphStays
<1> QED  BY <1>2, <1>3 DEF Lookup, Catch

\* The transaction: an edge that is not raced was checked on the graph as it is.
LEMMA GraphCreate == ASSUME IInv, GraphInv, NEW w \in Writers, Create(w) PROVE GraphInv'
<1> DEFINE q == writer[w]
<1>1. q.pc = "create" /\ q \in Work(q.body, q.plan)
  BY DEF Create, IInv, Shapes, Over, Work
<1>2. CASE Violation(w) = "none"
  <2>1. /\ edge' = edge \cup NewEdges(q, w)
        /\ raced' = IF q.moved THEN raced \cup (edge' \ edge) ELSE raced
        /\ writer'[w].pc = "done"
        /\ \A v \in Writers \ {w} : writer'[v] =
              IF writer[v].pc = "create" /\ Outdates(q.kind, writer[v].kind)
              THEN [writer[v] EXCEPT !.moved = TRUE] ELSE writer[v]
    BY <1>2 DEF Create
  <2>2. \A v \in Writers \ {w} :
           \/ /\ writer'[v] = writer[v]
              /\ ~(writer[v].pc = "create" /\ Outdates(q.kind, writer[v].kind))
           \/ /\ writer'[v].pc = writer[v].pc /\ writer'[v].kind = writer[v].kind
              /\ writer'[v].body = writer[v].body /\ writer'[v].plan = writer[v].plan
              /\ writer'[v].moved
    <3> SUFFICES ASSUME NEW v \in Writers \ {w}, writer[v].pc = "create", Outdates(q.kind, writer[v].kind)
                 PROVE  /\ writer'[v].pc = writer[v].pc /\ writer'[v].kind = writer[v].kind
                        /\ writer'[v].body = writer[v].body /\ writer'[v].plan = writer[v].plan
                        /\ writer'[v].moved
      BY <2>1
    <3>1. writer[v] \in Work(writer[v].body, writer[v].plan)
      BY DEF IInv, Shapes, Over
    <3>2. writer'[v] = [writer[v] EXCEPT !.moved = TRUE]
      BY <2>1
    <3> QED  BY <3>1, <3>2 DEF Work
  <2>5. dataset' \subseteq Codes \X (Writers \cup {"source", "old"}) /\ request' \subseteq Writers
    <3>1. dataset' = dataset \cup NewDatasets(q, w) /\ request' = request \cup NewRequests(q, w)
      BY <1>2 DEF Create
    <3>2. NewDatasets(q, w) \subseteq Codes \X (Writers \cup {"source", "old"})
      BY <1>1 DEF NewDatasets, GraphInv, IsOfCodes
    <3>3. NewRequests(q, w) \subseteq Writers
      BY DEF NewRequests
    <3> HIDE DEF q
    <3> QED  BY <3>1, <3>2, <3>3 DEF GraphInv
  <2>3. CASE ~IsEdgeWriter(q)
    <3>1. edge' = edge /\ raced' = raced
      BY <2>1, <2>3 DEF NewEdges, IsEdgeWriter
    <3> QED  BY <2>1, <2>2, <2>5, <3>1, GraphStays
  <2>4. CASE IsEdgeWriter(q)
    <3>1. /\ edge' = edge \cup {<<q.body, w>>} /\ q.body \notin EdgePairs
          /\ q.body \in Codes \X Codes
      BY <1>1, <1>2, <2>1, <2>4 DEF NewEdges, IsEdgeWriter, IsOfCodes, Violation, GraphInv
    <3>2. edge' \subseteq (Codes \X Codes) \X Writers /\ raced' \subseteq edge'
      BY <2>1, <3>1 DEF GraphInv
    <3>3. \A v \in Writers : writer'[v].pc = "create" /\ IsEdgeWriter(writer'[v]) => writer'[v].moved
      <4> SUFFICES ASSUME NEW v \in Writers, writer'[v].pc = "create", IsEdgeWriter(writer'[v])
                   PROVE  writer'[v].moved
        OBVIOUS
      <4>1. v \in Writers \ {w}
        BY <2>1
      <4>2. writer[v].pc = "create" /\ Outdates(q.kind, writer[v].kind)
        BY <2>2, <2>4, <4>1 DEF Outdates, IsEdgeWriter
      <4> QED  BY <2>2, <4>1, <4>2
    <3>4. \A v \in Writers : writer'[v].pc \in {"lookup", "check", "create"} => IsOfCodes(writer'[v])
      BY <2>1, <2>2 DEF GraphInv, IsOfCodes, IsEdgeWriter
    <3>5. Acyclic(Sound')
      <4>1. <<q.body, w>> \notin edge
        BY <3>1 DEF EdgePairs
      <4>2. CASE q.moved
        <5>1. edge' \ raced' = edge \ raced
          BY <2>1, <3>1, <4>1, <4>2 DEF GraphInv
        <5>2. Sound' = Sound
          BY <5>1 DEF Sound
        <5> QED  BY <5>2 DEF GraphInv
      <4>3. CASE ~q.moved
        <5>1. edge' \ raced' = (edge \ raced) \cup {<<q.body, w>>}
          BY <2>1, <3>1, <4>1, <4>3 DEF GraphInv
        <5>2. Sound' = Sound \cup {q.body}
          <6>1. \A p : p \in Sound' <=> \E e \in (edge \ raced) \cup {<<q.body, w>>} : p = e[1]
            BY <5>1 DEF Sound
          <6>2. \A p : p \in Sound' <=> p \in Sound \/ p = q.body
            <7>1. <<q.body, w>>[1] = q.body
              OBVIOUS
            <7>2. \A p : p \in Sound <=> \E e \in edge \ raced : p = e[1]
              BY DEF Sound
            <7> HIDE DEF q
            <7> QED  BY ONLY <6>1, <7>1, <7>2
          <6> QED  BY <6>2
        <5>3. Sound \subseteq EdgePairs /\ IsFiniteSet(EdgePairs)
          BY EdgesAreFinite DEF Sound, EdgePairs, GraphInv
        <5>4. ~WouldCreateCycle(q.body[1], q.body[2], EdgePairs)
          BY <1>1, <2>4, <4>3 DEF GraphInv
        <5>5. Acyclic(Sound \cup {<<q.body[1], q.body[2]>>})
          BY <5>3, <5>4, CycleCheckIsRight DEF GraphInv
        <5>6. q.body = <<q.body[1], q.body[2]>>
          BY <3>1
        <5> QED  BY <5>2, <5>5, <5>6
      <4> QED  BY <4>2, <4>3
    <3> QED  BY <2>5, <3>2, <3>3, <3>4, <3>5 DEF GraphInv, IsOfCodes, IsEdgeWriter
  <2> QED  BY <2>3, <2>4
<1>3. CASE Violation(w) # "none"
  <2>1. /\ UNCHANGED <<edge, raced>>
        /\ dataset' \subseteq Codes \X (Writers \cup {"source", "old"}) /\ request' \subseteq Writers
    BY <1>3 DEF Create, Rows, GraphInv
  <2>2. writer'[w].pc \in {"done", "catch"} /\ \A v \in Writers \ {w} : writer'[v] = writer[v]
    <3>1. CASE Finish(w, Answer(Violation(w), None))
      BY <3>1 DEF Finish, IInv, Shapes
    <3>2. CASE writer' = [writer EXCEPT ![w].pc = "catch"]
      BY <1>1, <3>2 DEF IInv, Shapes, Work
    <3> QED  BY <1>3, <3>1, <3>2 DEF Create
  <2> QED  BY <2>1, <2>2, GraphStays
<1> QED  BY <1>2, <1>3

LEMMA GraphSweep == ASSUME GraphInv, Sweep PROVE GraphInv'
<1>1. /\ edge' = {} /\ raced' = {} /\ dataset' = {} /\ UNCHANGED <<writer, request>>
      /\ \A w \in Writers : writer[w].pc \in {"idle", "done"}
  BY DEF Sweep
<1>2. Sound' = {}
  BY <1>1 DEF Sound
<1> QED  BY <1>1, <1>2 DEF GraphInv, Acyclic

\* Whatever the writers have made, the view of it is right.
LEMMA GraphIsViewed == ASSUME GraphInv, NODE_CAP \in Nat PROVE ViewIsRight
<1> SUFFICES ASSUME dataset # {}, NEW wanted \in Codes,
                    NEW v, v = View(wanted),
                    NEW whole, whole = WholeGraph(TakenCodes, EdgePairs, SyncedFrom, Served)
             PROVE  /\ \A n \in v.nodes \ Behind(v.edges) : v.layer[n] =
                           Max({0} \cup {v.layer[e[1]] + 1 : e \in {f \in v.edges : f[2] = n}})
                    /\ \A N : (\A e \in whole : e[1] \in N \cup {v.subject} => e[2] \in N) =>
                           v.impact \subseteq N
                    /\ ~v.truncated => \A e \in whole : e[1] \in v.impact \cup {v.subject} => e[2] \in v.impact
                    /\ v.impact \subseteq Codes \cup {Max(Codes) + 1, Max(Codes) + 2}
  BY DEF ViewIsRight
<1>1. Codes \subseteq Int /\ IsFiniteSet(Codes) /\ Codes # {}
  BY CatalogAssumption
<1>2. Max(Codes) \in Codes
  BY <1>1, MaxExists DEF IsMax
<1>3. TakenCodes \in SUBSET Codes /\ TakenCodes # {}
  BY DEF TakenCodes, GraphInv
<1>4. IsFiniteSet(TakenCodes)
  BY <1>1, <1>3, FS_Subset
<1>5. IsFiniteSet(EdgePairs)
  BY EdgesAreFinite DEF GraphInv
<1>6. IsFiniteSet(Served) /\ \A l \in Served : l[2] = Max(Codes) + 2
  <2>1. PICK p : p = <<Max(TakenCodes), Max(Codes) + 2>>
    OBVIOUS
  <2>2. p[2] = Max(Codes) + 2
    BY <2>1
  <2>3. Served = {p}
    BY <2>1 DEF Served
  <2> QED  BY <2>2, <2>3, FS_Singleton
<1>7. DOMAIN SyncedFrom \subseteq TakenCodes /\ \A d \in DOMAIN SyncedFrom : SyncedFrom[d] = Max(Codes) + 1
  BY DEF SyncedFrom, TakenCodes
<1>8. IsCatalogue(TakenCodes, EdgePairs, SyncedFrom, Served)
  <2>1. Max(Codes) \in Nat /\ Max(Codes) + 1 \in Nat /\ Max(Codes) + 2 \in Nat
    <3>1. PICK m \in Nat : m = Max(Codes)
      BY <1>2, CatalogAssumption
    <3> QED  BY <3>1
  <2>2. TakenCodes \subseteq Nat
    BY <1>3, CatalogAssumption
  <2>3. /\ \A d \in DOMAIN SyncedFrom : SyncedFrom[d] \in Nat
        /\ \A l \in Served : l[2] \in Nat
    BY <1>6, <1>7, <2>1
  <2> QED  BY <1>3, <1>4, <1>5, <1>6, <1>7, <2>2, <2>3 DEF IsCatalogue
<1>9. v = LineageView(TakenCodes, EdgePairs, SyncedFrom, Served, wanted, NODE_CAP)
  BY DEF View
<1>10. /\ \A n \in v.nodes \ Behind(v.edges) :
              v.layer[n] = Max({0} \cup After(v.layer, Incoming(v.edges, n)))
       /\ \A N : (\A e \in whole : e[1] \in N \cup {v.subject} => e[2] \in N) => v.impact \subseteq N
       /\ ~v.truncated => \A e \in whole : e[1] \in v.impact \cup {v.subject} => e[2] \in v.impact
       /\ v.impact \subseteq Aims(whole)
  <2>1. NODE_CAP \in Nat /\ whole = WholeGraph(TakenCodes, EdgePairs, SyncedFrom, Served)
    OBVIOUS
  <2> QED  BY ONLY <1>8, <1>9, <2>1, ViewIsSound
<1>11. \A e \in whole : e[2] \in Codes \cup {Max(Codes) + 2}
  BY <1>3, <1>6, <1>7 DEF WholeGraph
<1>12. v.impact \subseteq Codes \cup {Max(Codes) + 1, Max(Codes) + 2}
  BY <1>10, <1>11 DEF Aims
<1> QED  BY <1>10, <1>12 DEF After, Incoming

\* The invariant of the graph: rows are of known datasets, an edge that waits for its commit closes
\* no cycle unless another one has come between, and the edges checked in time have no cycle
\* (graph-core.ts, api/v1/lineage/route.ts, (app)/lineage/actions.ts).
THEOREM GraphInductive == CatalogSpec => []GraphInv
<1>1. CatalogInit => GraphInv
  BY InitGraph
<1>2. IInv /\ GraphInv /\ [CatalogNext]_catalogVars => GraphInv'
  <2> SUFFICES ASSUME IInv, GraphInv, [CatalogNext]_catalogVars PROVE GraphInv'
    OBVIOUS
  <2>1. CASE UNCHANGED catalogVars
    <3>1. UNCHANGED <<edge, raced, writer, dataset, request>>
      BY <2>1 DEF catalogVars
    <3>2. EdgePairs' = EdgePairs /\ Sound' = Sound
      BY <3>1 DEF EdgePairs, Sound
    <3> QED  BY <3>1, <3>2 DEF GraphInv, IsOfCodes, IsEdgeWriter, WouldCreateCycle, Acyclic
  <2>2. CASE CatalogNext
    BY <2>2, GraphBegin, GraphReply, GraphCheck, GraphCreate, GraphSweep DEF CatalogNext
  <2> QED  BY <2>1, <2>2
<1> QED  BY <1>1, <1>2, CatalogInductive, PTL DEF CatalogSpec


\* The graph of lineage edges has no cycle but through an edge whose check had missed another, and
\* the view of it has the layers and the impact of that graph
\* (api/v1/lineage/route.ts, (app)/lineage/actions.ts, graph-core.ts, data.ts), for all codes,
\* writers and interleavings.
THEOREM LineageTheorem == CatalogSpec => []LineageIsSound
<1>1. GraphInv => LineageIsSound
  <2> SUFFICES ASSUME GraphInv PROVE LineageIsSound
    OBVIOUS
  <2>1. LineageIsAcyclic
    BY DEF GraphInv, Acyclic, Sound, LineageIsAcyclic
  <2> QED  BY <2>1, GraphIsViewed, CatalogAssumption DEF LineageIsSound
<1> QED  BY <1>1, GraphInductive, PTL
=============================================================================
