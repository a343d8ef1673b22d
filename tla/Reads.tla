------------------------------- MODULE Reads --------------------------------
(***************************************************************************)
(* The lists of api/v1: datasets, quality rules, quality results           *)
(* (lib/reads/catalog.ts, quality.ts).  A client walks a list page by page *)
(* with the cursor of the last one (lib/api/pagination.ts) while the rows  *)
(* change.  The order of a list never changes for a row that is in it.     *)
(***************************************************************************)
EXTENDS Integers, FiniteSets, SequencesExt

CONSTANTS
    Ids,           \* row ids, numbered in their order
    SortKeys,      \* names, codes or run times, by rank
    RawLimits,     \* values of the limit parameter, in tenths
    LIMIT_DEFAULT, LIMIT_MAX,
    Unused, Deleted,  \* ids of no row yet, and no more
    NoCursor

VARIABLES
    list,    \* the list that is walked
    row,     \* its table: owner, sort key, whether the filter matches
    walk,    \* what the client is doing: phase, limit, search, filter, cursor, rows received
    steady,  \* history: rows that have matched ever since the walk began
    touched  \* history: a row was deleted or ceased to match while the cursor stood on it

readVars == <<list, row, walk, steady, touched>>

Row == [owner: {"own", "platform", "other"}, sort: SortKeys, match: BOOLEAN]
RowIds == {i \in Ids : row[i] \notin {Unused, Deleted}}

\* Floored and capped; what is no positive number is the default.
clampLimit(raw) == IF raw <= 0 THEN LIMIT_DEFAULT
                   ELSE IF raw \div 10 < LIMIT_MAX THEN raw \div 10 ELSE LIMIT_MAX

\* Datasets and rules ascend, results descend; the id decides among equals.
Before(i, j) == \/ row[i].sort = row[j].sort /\ i < j
                \/ IF list = "results" THEN row[i].sort > row[j].sort ELSE row[i].sort < row[j].sort

\* listDatasets: the workspace's and the platform's; a search has an OR of its own, which
\* replaces that of the scope.  listQualityRules, listQualityResults: the workspace's.
InScope(i) == IF list = "datasets" THEN walk.search \/ row[i].owner \in {"own", "platform"}
              ELSE row[i].owner = "own"
Where == {i \in RowIds : InScope(i) /\ (walk.filter => row[i].match)}

\* The rows of a set, each at the place that those before it leave.
Rank(S, i) == Cardinality({j \in S : Before(j, i)})
InOrder(S) == [n \in 1..Cardinality(S) |-> CHOOSE i \in S : Rank(S, i) = n - 1]

\* Prisma: from the cursor's row on, whether it matches or not, less the first.
FromCursorAgain ==            \* mutant: the cursor's row is not skipped
    IF walk.cursor = NoCursor THEN InOrder(Where)
    ELSE InOrder({i \in Where : i = walk.cursor \/ Before(walk.cursor, i)})
FromCursor ==
    IF walk.cursor = NoCursor THEN InOrder(Where)
    ELSE IF walk.cursor \notin RowIds THEN <<>>
    ELSE LET rest == InOrder({i \in Where : i = walk.cursor \/ Before(walk.cursor, i)})
         IN  IF rest = <<>> THEN <<>> ELSE Tail(rest)

NoWalk == [pc |-> "idle", limit |-> 0, search |-> FALSE, filter |-> FALSE, cursor |-> NoCursor, got |-> <<>>]
ReadsInit ==
    /\ list \in {"datasets", "rules", "results"}
    /\ row \in [Ids -> {Unused} \cup [owner: IF list = "datasets" THEN {"own", "platform", "other"} ELSE {"own"},
                                      sort: SortKeys, match: BOOLEAN]]
    /\ walk = NoWalk /\ steady = {} /\ touched = FALSE

BeginWalk == \E raw \in RawLimits, search, filter \in BOOLEAN :
    /\ walk.pc = "idle" /\ (search => list = "datasets")
    /\ walk' = [NoWalk EXCEPT !.pc = "page", !.limit = clampLimit(raw), !.search = search, !.filter = filter]
    /\ steady' = {i \in RowIds : row[i].owner # "other" /\ (filter => row[i].match)}
    /\ UNCHANGED <<list, row, touched>>

\* One row more than the limit says that another page exists.  pageOf takes the cursor from
\* the last row of the page, and throws when the limit left none.
FetchPage ==
    /\ walk.pc = "page"
    /\ LET rows == SubSeq(FromCursor, 1, IF Len(FromCursor) <= walk.limit THEN Len(FromCursor)
                                         ELSE walk.limit + 1)
           data == SubSeq(rows, 1, walk.limit)
       IN  walk' = IF Len(rows) <= walk.limit THEN [walk EXCEPT !.pc = "done", !.got = @ \o rows]
                   ELSE IF data = <<>> THEN [walk EXCEPT !.pc = "error"]
                   ELSE [walk EXCEPT !.cursor = Last(data), !.got = @ \o data]
    /\ UNCHANGED <<list, row, steady, touched>>

\* The rows change while they are walked; before, they may be any.
\* A dataset is registered, a rule authored, a result written.
InsertRow == \E i \in Ids, s \in SortKeys :
    /\ walk.pc = "page" /\ row[i] = Unused
    /\ row' = [row EXCEPT ![i] = [owner |-> "own", sort |-> s, match |-> TRUE]]
    /\ UNCHANGED <<list, walk, steady, touched>>

Loses(i) ==
    /\ steady' = steady \ {i}
    /\ touched' = (touched \/ walk.cursor = i)
\* A rule is deleted with its results; datasets only go with their workspace.
DeleteRow == \E i \in RowIds :
    /\ walk.pc = "page" /\ list # "datasets" /\ row' = [row EXCEPT ![i] = Deleted]
    /\ Loses(i)
    /\ UNCHANGED <<list, walk>>
\* A dataset is reclassified, a rule enabled or disabled.
MatchMoves == \E i \in RowIds :
    /\ walk.pc = "page" /\ list # "results" /\ row' = [row EXCEPT ![i].match = ~@]
    /\ IF walk.filter THEN Loses(i) ELSE UNCHANGED <<steady, touched>>
    /\ UNCHANGED <<list, walk>>

ReadsNext == BeginWalk \/ FetchPage \/ InsertRow \/ DeleteRow \/ MatchMoves
ReadsSpec == ReadsInit /\ [][ReadsNext]_readVars

-----------------------------------------------------------------------------
(* Properties. *)

ReadsTypeOK ==
    /\ row \in [Ids -> Row \cup {Unused, Deleted}]
    /\ walk.pc \in {"idle", "page", "done", "error"} /\ walk.limit \in 0..LIMIT_MAX
    /\ steady \subseteq RowIds

\* "Pages stay consistent under concurrent inserts" (pagination.ts:6): no row comes twice, and
\* a walk that ends has received every row that matched all the while, unless the row under
\* the cursor was deleted or ceased to match before the next page; and a page fails only for
\* a limit between none and one.
PagesAreComplete ==
    /\ \A m, n \in DOMAIN walk.got : walk.got[m] = walk.got[n] => m = n
    /\ walk.pc = "done" /\ ~touched => steady \subseteq ToSet(walk.got)
    /\ walk.pc = "error" => walk.limit = 0

\* Every list is scoped to the caller's workspace and the platform's overlay ("every query is
\* scoped to the caller's workspace plus the read-only platform overlay", catalog.ts:7).
EveryQueryIsScoped == \A m \in DOMAIN walk.got : row[walk.got[m]] = Deleted \/ row[walk.got[m]].owner # "other"
=============================================================================
