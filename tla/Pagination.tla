------------------------------- MODULE Pagination -------------------------------
(***************************************************************************)
(* A client walks the pages of GET /courses or GET /users while rows are   *)
(* inserted, changed and deleted: the repositories of                      *)
(* src/src/course/infrastructure/repositories/ and src/src/user/, the use  *)
(* cases that page with them, and findAll of the controllers.              *)
(*                                                                         *)
(* A page is one query, ordered by id, of the rows after the cursor, which *)
(* is the id of the last row of the page before.  Ids are random, so a row *)
(* is inserted anywhere.  The client (external) asks for the next page     *)
(* with the cursor it got, until it gets none.                             *)
(***************************************************************************)
EXTENDS Integers, FiniteSets

CONSTANTS
    Id,             \* ids, numbers for their order; 0 is no cursor
    Category,       \* the column that is filtered by: category of a course,
    Difficulty,     \* emailHash of a user; and the difficulty of a course
    Unset,          \* no filter, or no row
    Limit,          \* the limits asked for
    DefaultLimit    \* 20

(* Finitely many numbers: all of them up to one.                           *)
ASSUME IdsAreNumbers == \E n \in Id \cup {0} : n \in Nat /\ Id \subseteq 1..n
ASSUME UnsetIsNone ==
    Unset \notin Category \cup Difficulty \cup [category : Category, difficulty : Difficulty]
ASSUME LimitsAreNumbers == Limit \subseteq Int /\ DefaultLimit \in Nat \ {0}

VARIABLES
    rows,           \* id -> the row, or Unset
    walk,           \* what the client asks for, and its cursor
    page,           \* the rows of the page got last
    seen,           \* history: the rows of the pages before
    stayed          \* history: rows that matched ever since the walk began

pageVars == <<rows, walk, page, seen, stayed>>

Table == {"courses", "users"}
RowShape == [category : Category, difficulty : Difficulty]
Filter == [category : Category \cup {Unset}, difficulty : Difficulty \cup {Unset}]
NoWalk == [state |-> "none"]

-----------------------------------------------------------------------------
Present == {i \in Id : rows[i] # Unset}

(* The WHERE clauses of the repositories.                                  *)
findPaginated == Present
findByCategory(c) == {i \in Present : rows[i].category = c}
findByDifficulty(d) == {i \in Present : rows[i].difficulty = d}
findByCategoryAndDifficulty(c, d) == findByCategory(c) \cap findByDifficulty(d)
findBySearchTerm(h) == findByCategory(h)

(* ListCoursesUseCase and ListUsersUseCase choose among them.              *)
ListCourses(f) ==
    IF f.category # Unset /\ f.difficulty # Unset
    THEN findByCategoryAndDifficulty(f.category, f.difficulty)
    ELSE IF f.category # Unset THEN findByCategory(f.category)
    ELSE IF f.difficulty # Unset THEN findByDifficulty(f.difficulty)
    ELSE findPaginated
ListUsers(f) == IF f.category # Unset THEN findBySearchTerm(f.category) ELSE findPaginated

Matching(table, f) == IF table = "courses" THEN ListCourses(f) ELSE ListUsers(f)

(* The first n of S in the order of their ids: LIMIT n.                    *)
First(S, n) ==
    {F \in SUBSET S : /\ \A i \in F, j \in S \ F : i < j
                      /\ Cardinality(F) = n \/ (Cardinality(F) < n /\ F = S)}
Greatest(S) == CHOOSE i \in S : \A j \in S : j <= i

(* Variant: the cursor's row again.                                        *)
afterInclusive(S, cursor) == IF cursor = 0 THEN S ELSE {i \in S : i >= cursor}
after(S, cursor) == IF cursor = 0 THEN S ELSE {i \in S : i > cursor}

(* Variant: no row more than the page, so that hasMore is never true.      *)
takeExactly(S, limit) == IF limit = 0 THEN {S} ELSE First(S, limit)
(* take(limit + 1); take(0) is no LIMIT, and Postgres refuses a negative   *)
(* one.                                                                    *)
take(S, limit) == IF limit = -1 THEN {S} ELSE First(S, limit + 1)

(* slice(0, limit); slice(0, -1) is all but the last.                      *)
slice(S, limit) ==
    IF limit = -1 THEN {IF S = {} THEN {} ELSE S \ {Greatest(S)}} ELSE First(S, limit)

(* execute: limit || 20.                                                   *)
limitOf(limit) == IF limit = 0 THEN DefaultLimit ELSE limit
-----------------------------------------------------------------------------
(* The client asks for the first page next.                                *)
startWalk(table, f, limit) ==
    /\ walk = NoWalk
    /\ walk' = [state |-> "walking", table |-> table, filter |-> f, limit |-> limitOf(limit),
                cursor |-> 0]
    /\ stayed' = Matching(table, f)
    /\ UNCHANGED <<rows, page, seen>>

(* execute of the use case: a page, and nextCursor if there is more.       *)
nextPage ==
    /\ walk.state = "walking" /\ walk.limit >= -1
    /\ \E fetched \in take(after(Matching(walk.table, walk.filter), walk.cursor), walk.limit) :
         \E items \in slice(fetched, walk.limit) :
             /\ page' = items
             /\ walk' = IF Cardinality(fetched) > walk.limit /\ items # {}
                        THEN [walk EXCEPT !.cursor = Greatest(items)]
                        ELSE [walk EXCEPT !.state = "ended"]
    /\ seen' = seen \cup page
    /\ UNCHANGED <<rows, stayed>>

(* A negative limit but -1: the query fails, 400.                          *)
refusePage ==
    /\ walk.state = "walking" /\ walk.limit < -1
    /\ walk' = [walk EXCEPT !.state = "refused"]
    /\ UNCHANGED <<rows, page, seen, stayed>>

(* A request of somebody else inserts, changes or deletes a row.           *)
writeRow(i, r) ==
    /\ rows[i] # r
    /\ rows' = [rows EXCEPT ![i] = r]
    /\ UNCHANGED <<walk, page, seen>>
    /\ stayed' = IF walk = NoWalk THEN stayed ELSE stayed \cap Matching(walk.table, walk.filter)'

PageInit ==
    /\ rows \in [Id -> RowShape \cup {Unset}]
    /\ walk = NoWalk /\ page = {} /\ seen = {} /\ stayed = {}

PageNext ==
    \/ nextPage \/ refusePage
    \/ \E table \in Table, f \in Filter, limit \in Limit : startWalk(table, f, limit)
    \/ \E i \in Id, r \in RowShape \cup {Unset} : writeRow(i, r)

PageSpec == PageInit /\ [][PageNext]_pageVars

(* A client that has begun asks on, and is answered.                       *)
PageFairness == WF_pageVars(nextPage) /\ WF_pageVars(refusePage)
-----------------------------------------------------------------------------
PageTypeOK ==
    /\ rows \in [Id -> RowShape \cup {Unset}]
    /\ walk = NoWalk \/ walk \in [state : {"walking", "ended", "refused"}, table : Table,
                                  filter : Filter, limit : Int, cursor : Id \cup {0}]
    /\ page \subseteq Id /\ seen \subseteq Id /\ stayed \subseteq Id

NoRepeats == \A i \in seen, j \in page : i < j

(* Nothing is listed twice, and the pages follow each other in order, even *)
(* if the row of the cursor is deleted or inserted again between them.     *)
(* And when the walk is over, every row that matched all the while was     *)
(* listed, whatever was inserted and deleted around it - if the limit was  *)
(* at least one.  With a limit of -1 the last row is never listed.         *)
ListedOnce ==
    /\ NoRepeats
    /\ walk # NoWalk /\ walk.state = "ended" /\ walk.limit >= 1 => stayed \subseteq seen \cup page

(* A walk comes to an end however many rows are inserted and deleted       *)
(* meanwhile.                                                              *)
WalkEnds == walk # NoWalk ~> walk # NoWalk /\ walk.state \in {"ended", "refused"}
=============================================================================
