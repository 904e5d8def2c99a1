---------------------------- MODULE PaginationProofs ----------------------------
(***************************************************************************)
(* Proofs about the pages, for any ids, filters, limits and writes of      *)
(* others.                                                                 *)
(*                                                                         *)
(* The cursor cuts the ids in two: nothing listed lies beyond it, and, if  *)
(* the limit is at least one, no row that has matched ever since the walk  *)
(* began lies before it unlisted.  A page is all that matches from the     *)
(* cursor to its own last row, whatever was written meanwhile.             *)
(***************************************************************************)
EXTENDS Pagination, FiniteSetTheorems, WellFoundedInduction, TLAPS

(* Nothing listed lies beyond the cursor, and nothing that stayed before   *)
(* it is missing.                                                          *)
CursorCuts ==
    walk.state = "walking" =>
        /\ \A i \in seen \cup page : i <= walk.cursor
        /\ walk.limit >= 1 => \A i \in stayed : i <= walk.cursor => i \in seen \cup page

PageInv ==
    /\ PageTypeOK /\ ListedOnce /\ CursorCuts
    /\ walk = NoWalk => page = {} /\ seen = {}
    /\ walk # NoWalk => stayed \subseteq Matching(walk.table, walk.filter)

-----------------------------------------------------------------------------
(* A set of numbers up to n has a greatest one: the least distance from n. *)
LEMMA HasGreatest ==
    ASSUME NEW n \in Nat, NEW S, S \subseteq 1..n, S # {}
    PROVE  \E i \in S : \A j \in S : j <= i
<1>. DEFINE T == {n - i : i \in S}
            R == {p \in Nat \X Nat : p[1] < p[2]}
<1>1. \A i \in S : n - i \in T /\ n - i \in Nat /\ i \in Nat
  OBVIOUS
<1>2. \A k \in T : \E i \in S : k = n - i
  OBVIOUS
<1>3. IsWellFoundedOn(R, Nat)
  BY NatLessThanWellFounded DEF OpToRel
<1>4. \A a, b \in Nat : a < b => <<a, b>> \in R
  OBVIOUS
<1>. HIDE DEF T, R
<1>5. T \subseteq Nat /\ T # {}
  BY <1>1, <1>2
<1>6. PICK m \in T : \A k \in T : ~(<<k, m>> \in R)
  BY <1>3, <1>5, WFMin
<1>7. \A k \in T : ~(k < m)
  BY <1>4, <1>5, <1>6
<1>8. PICK i \in S : m = n - i
  BY <1>2, <1>6
<1>9. \A j \in S : j <= i
  BY <1>1, <1>7, <1>8
<1>. QED  BY <1>9

LEMMA GreatestOfIds ==
    ASSUME NEW S, S \subseteq Id, S # {}
    PROVE  Greatest(S) \in S /\ \A j \in S : j <= Greatest(S)
<1>1. PICK n \in Nat : Id \subseteq 1..n
  BY IdsAreNumbers
<1>2. \E i \in S : \A j \in S : j <= i
  BY <1>1, HasGreatest
<1>. QED  BY <1>2 DEF Greatest

LEMMA IdsAreFinite ==
    /\ Id \subseteq Nat \ {0}
    /\ \A S \in SUBSET Id : IsFiniteSet(S) /\ Cardinality(S) \in Nat
<1>1. PICK n \in Nat : Id \subseteq 1..n
  BY IdsAreNumbers
<1>2. IsFiniteSet(1..n)
  BY FS_Interval
<1>3. IsFiniteSet(Id)
  BY <1>1, <1>2, FS_Subset
<1>4. Id \subseteq Nat \ {0}
  BY <1>1
<1>5. \A S \in SUBSET Id : IsFiniteSet(S) /\ Cardinality(S) \in Nat
  BY <1>3, FS_Subset, FS_CardinalityType
<1>. QED  BY <1>4, <1>5

-----------------------------------------------------------------------------
(* What matches are ids; those after a cursor are the greater ones.        *)
LEMMA MatchingAreIds ==
    ASSUME NEW table, NEW f
    PROVE  Matching(table, f) \subseteq Id
BY DEF Matching, ListCourses, ListUsers, findPaginated, findByCategory, findByDifficulty,
       findByCategoryAndDifficulty, findBySearchTerm, Present

LEMMA AfterIsGreater ==
    ASSUME NEW S, S \subseteq Id, NEW cursor \in Id \cup {0}
    PROVE  after(S, cursor) = {i \in S : i > cursor}
<1>1. \A i \in S : i \in Nat /\ i > 0
  BY IdsAreFinite
<1>. QED  BY <1>1 DEF after

LEMMA PrefixOf ==
    ASSUME NEW S, NEW n, NEW F \in First(S, n)
    PROVE  /\ F \subseteq S
           /\ \A i \in F, j \in S \ F : i < j
           /\ Cardinality(F) = n \/ (Cardinality(F) < n /\ F = S)
BY DEF First

(* A page is a part of what the query found, which is a part of what       *)
(* matched.                                                                *)
LEMMA PageIsPart ==
    ASSUME NEW S, NEW limit, NEW fetched \in take(S, limit), NEW items \in slice(fetched, limit)
    PROVE  items \subseteq fetched /\ fetched \subseteq S
BY PrefixOf DEF take, slice

(* With a limit of at least one, it is a first part; and if the query      *)
(* found no more than the limit, it is all.                                *)
LEMMA PageIsFirst ==
    ASSUME NEW S, S \subseteq Id, NEW limit \in Int, limit >= 1,
           NEW fetched \in take(S, limit), NEW items \in slice(fetched, limit)
    PROVE  /\ \A i \in items, j \in S \ items : i < j
           /\ Cardinality(fetched) > limit => items # {}
           /\ ~(Cardinality(fetched) > limit) => items = S
<1>1. fetched \in First(S, limit + 1) /\ items \in First(fetched, limit)
  BY DEF take, slice
<1>2. items \subseteq fetched /\ fetched \subseteq S
  BY <1>1, PrefixOf
<1>3. /\ IsFiniteSet(fetched) /\ Cardinality(fetched) \in Nat
      /\ IsFiniteSet(items) /\ Cardinality(items) \in Nat
  BY <1>2, IdsAreFinite
<1>4. \A i \in items, j \in S \ items : i < j
  BY <1>1, <1>2, PrefixOf
<1>5. ASSUME Cardinality(fetched) > limit PROVE items # {}
  <2>1. items # {} \/ items = fetched
    BY <1>1, <1>3, PrefixOf, FS_EmptySet
  <2>2. fetched # {}
    BY <1>3, <1>5, FS_EmptySet
  <2>. QED  BY <2>1, <2>2
<1>6. ASSUME ~(Cardinality(fetched) > limit) PROVE items = S
  <2>1. fetched = S
    BY <1>1, <1>3, <1>6, PrefixOf
  <2>2. CASE Cardinality(items) = limit
    <3>1. Cardinality(items) = Cardinality(fetched)
      BY <1>2, <1>3, <1>6, <2>2, FS_Subset
    <3>. QED  BY <1>2, <1>3, <2>1, <3>1, FS_Subset
  <2>3. CASE items = fetched
    BY <2>1, <2>3
  <2>. QED  BY <1>1, <2>2, <2>3, PrefixOf
<1>. QED  BY <1>4, <1>5, <1>6

-----------------------------------------------------------------------------
(* A walk that is under way is a walk.                                     *)
LEMMA WalkType ==
    ASSUME PageTypeOK, walk # NoWalk
    PROVE  /\ walk \in [state : {"walking", "ended", "refused"}, table : Table, filter : Filter,
                         limit : Int, cursor : Id \cup {0}]
           /\ walk.limit \in Int /\ walk.cursor \in Id \cup {0} /\ walk.cursor \in Nat
<1>1. walk \in [state : {"walking", "ended", "refused"}, table : Table, filter : Filter,
                limit : Int, cursor : Id \cup {0}]
  BY DEF PageTypeOK
<1>2. walk.limit \in Int /\ walk.cursor \in Id \cup {0}
  BY <1>1
<1>3. \A c \in Id \cup {0} : c \in Nat
  <2>1. \A c \in Id : c \in Nat
    BY IdsAreFinite
  <2>. QED  BY <2>1
<1>4. walk.cursor \in Nat
  BY <1>2, <1>3
<1>. QED  BY <1>1, <1>2, <1>4

LEMMA PageInitInv == PageInit => PageInv
<1>1. NoWalk.state = "none"
  BY DEF NoWalk
<1>2. PageInit => PageTypeOK
  BY DEF PageInit, PageTypeOK
<1>3. PageInit => ListedOnce /\ CursorCuts
  BY <1>1 DEF PageInit, ListedOnce, NoRepeats, CursorCuts
<1>. QED  BY <1>2, <1>3 DEF PageInit, PageInv

LEMMA StartKeeps ==
    ASSUME PageInv, NEW table \in Table, NEW f \in Filter, NEW limit \in Limit,
           startWalk(table, f, limit)
    PROVE  PageInv'
<1>. DEFINE w == [state |-> "walking", table |-> table, filter |-> f, limit |-> limitOf(limit),
                  cursor |-> 0]
<1>1. /\ walk = NoWalk /\ walk' = w
      /\ stayed' = Matching(table, f)
      /\ rows' = rows /\ page' = {} /\ seen' = {}
  BY DEF startWalk, PageInv
<1>2. limitOf(limit) \in Int
  BY LimitsAreNumbers DEF limitOf
<1>3. /\ w \in [state : {"walking", "ended", "refused"}, table : Table, filter : Filter,
                 limit : Int, cursor : Id \cup {0}]
      /\ w.state = "walking" /\ w.cursor = 0 /\ w.table = table /\ w.filter = f /\ w # NoWalk
  BY <1>2 DEF NoWalk
<1>. HIDE DEF w
<1>4. stayed' \subseteq Id
  BY <1>1, MatchingAreIds
<1>5. PageTypeOK'
  BY <1>1, <1>3, <1>4 DEF PageInv, PageTypeOK
<1>6. ListedOnce'
  BY <1>1, <1>3 DEF ListedOnce, NoRepeats
<1>7. CursorCuts'
  BY <1>1, <1>3, <1>4, IdsAreFinite DEF CursorCuts
<1>8. Matching(table, f)' = Matching(table, f)
  BY <1>1 DEF Matching, ListCourses, ListUsers, findPaginated, findByCategory, findByDifficulty,
              findByCategoryAndDifficulty, findBySearchTerm, Present
<1>9. stayed' \subseteq Matching(walk.table, walk.filter)'
  BY <1>1, <1>3, <1>8 DEF Matching, ListCourses, ListUsers, findPaginated, findByCategory,
              findByDifficulty, findByCategoryAndDifficulty, findBySearchTerm, Present
<1>. QED  BY <1>1, <1>3, <1>5, <1>6, <1>7, <1>9 DEF PageInv

LEMMA NextPageKeeps ==
    ASSUME PageInv, nextPage
    PROVE  PageInv'
<1>. DEFINE S == after(Matching(walk.table, walk.filter), walk.cursor)
<1>1. /\ walk.state = "walking" /\ walk # NoWalk
      /\ seen' = seen \cup page /\ rows' = rows /\ stayed' = stayed
  BY DEF nextPage, NoWalk
<1>2. PICK fetched \in take(S, walk.limit) : \E items \in slice(fetched, walk.limit) :
          /\ page' = items
          /\ walk' = IF Cardinality(fetched) > walk.limit /\ items # {}
                     THEN [walk EXCEPT !.cursor = Greatest(items)]
                     ELSE [walk EXCEPT !.state = "ended"]
  BY DEF nextPage
<1>3. PICK items \in slice(fetched, walk.limit) :
          /\ page' = items
          /\ walk' = IF Cardinality(fetched) > walk.limit /\ items # {}
                     THEN [walk EXCEPT !.cursor = Greatest(items)]
                     ELSE [walk EXCEPT !.state = "ended"]
  BY <1>2
<1>4. /\ walk \in [state : {"walking", "ended", "refused"}, table : Table, filter : Filter,
                    limit : Int, cursor : Id \cup {0}]
      /\ walk.limit \in Int /\ walk.cursor \in Id \cup {0} /\ walk.cursor \in Nat
  BY <1>1, WalkType DEF PageInv
<1>5. S = {i \in Matching(walk.table, walk.filter) : i > walk.cursor} /\ S \subseteq Id
  BY <1>4, AfterIsGreater, MatchingAreIds
<1>. HIDE DEF S
<1>6. items \subseteq fetched /\ fetched \subseteq S /\ items \subseteq Id /\ Id \subseteq Nat
  BY <1>5, PageIsPart, IdsAreFinite
<1>7. seen \subseteq Id /\ page \subseteq Id /\ stayed \subseteq Id
  BY DEF PageInv, PageTypeOK
<1>8. \A i \in seen \cup page, j \in items : i < j
  <2>1. \A i \in seen \cup page : i <= walk.cursor /\ i \in Nat
    BY <1>1, <1>6, <1>7 DEF PageInv, CursorCuts
  <2>2. \A j \in items : walk.cursor < j /\ j \in Nat
    BY <1>5, <1>6
  <2>. QED  BY <1>4, <2>1, <2>2
<1>9. NoRepeats'
  BY <1>1, <1>3, <1>8 DEF NoRepeats
<1>10. \A i \in stayed : i > walk.cursor => i \in S
  BY <1>1, <1>5, <1>7 DEF PageInv
<1>11. walk.limit >= 1 => \A i \in stayed : ~(i > walk.cursor) => i \in seen \cup page
  <2>1. \A i \in stayed : ~(i > walk.cursor) => i <= walk.cursor
    BY <1>4, <1>6, <1>7
  <2>. QED  BY <1>1, <2>1 DEF PageInv, CursorCuts
<1>12. \A t, g : Matching(t, g)' = Matching(t, g)
  BY <1>1 DEF Matching, ListCourses, ListUsers, findPaginated, findByCategory, findByDifficulty,
              findByCategoryAndDifficulty, findBySearchTerm, Present
<1>13. CASE Cardinality(fetched) > walk.limit /\ items # {}
  <2>1. Greatest(items) \in items /\ \A j \in items : j <= Greatest(items)
    BY <1>6, <1>13, GreatestOfIds
  <2>2. /\ walk' = [walk EXCEPT !.cursor = Greatest(items)]
        /\ walk' \in [state : {"walking", "ended", "refused"}, table : Table, filter : Filter,
                      limit : Int, cursor : Id \cup {0}]
        /\ walk'.cursor = Greatest(items) /\ walk'.limit = walk.limit
        /\ walk'.state = "walking" /\ walk'.table = walk.table /\ walk'.filter = walk.filter
    BY <1>1, <1>3, <1>4, <1>6, <1>13, <2>1
  <2>3. PageTypeOK'
    BY <1>1, <1>3, <1>6, <2>2 DEF PageInv, PageTypeOK
  <2>4. \A i \in seen' \cup page' : i <= walk'.cursor
    BY <1>1, <1>3, <1>6, <1>7, <1>8, <2>1, <2>2
  <2>5. ASSUME walk.limit >= 1, NEW i \in stayed, i <= Greatest(items)
        PROVE  i \in seen' \cup page'
    <3>1. CASE i > walk.cursor
      <4>1. i \in items \/ Greatest(items) < i
        BY <1>4, <1>5, <1>10, <2>1, <2>5, <3>1, PageIsFirst
      <4>. QED  BY <1>3, <1>6, <1>7, <2>1, <2>5, <4>1
    <3>2. CASE ~(i > walk.cursor)
      BY <1>1, <1>11, <2>5, <3>2
    <3>. QED  BY <3>1, <3>2
  <2>6. walk' # NoWalk
    BY <2>2 DEF NoWalk
  <2>7. stayed' \subseteq Matching(walk.table, walk.filter)
    BY <1>1 DEF PageInv
  <2>. QED  BY <1>1, <1>9, <1>12, <2>2, <2>3, <2>4, <2>5, <2>6, <2>7
            DEF PageInv, ListedOnce, CursorCuts
<1>14. CASE ~(Cardinality(fetched) > walk.limit /\ items # {})
  <2>1. /\ walk' = [walk EXCEPT !.state = "ended"]
        /\ walk' \in [state : {"walking", "ended", "refused"}, table : Table, filter : Filter,
                      limit : Int, cursor : Id \cup {0}]
        /\ walk'.limit = walk.limit /\ walk'.state = "ended"
        /\ walk'.table = walk.table /\ walk'.filter = walk.filter
    BY <1>3, <1>4, <1>14
  <2>2. PageTypeOK'
    BY <1>1, <1>3, <1>6, <2>1 DEF PageInv, PageTypeOK
  <2>3. ASSUME walk.limit >= 1, NEW i \in stayed PROVE i \in seen' \cup page'
    <3>1. items = S
      BY <1>4, <1>5, <1>14, <2>3, PageIsFirst
    <3>. QED  BY <1>1, <1>3, <1>10, <1>11, <2>3, <3>1
  <2>4. walk' # NoWalk
    BY <2>1 DEF NoWalk
  <2>5. stayed' \subseteq Matching(walk.table, walk.filter)
    BY <1>1 DEF PageInv
  <2>. QED  BY <1>1, <1>9, <1>12, <2>1, <2>2, <2>3, <2>4, <2>5 DEF PageInv, ListedOnce, CursorCuts
<1>. QED  BY <1>13, <1>14

LEMMA RefuseKeeps ==
    ASSUME PageInv, refusePage
    PROVE  PageInv'
<1>1. /\ walk.state = "walking" /\ walk # NoWalk /\ walk' = [walk EXCEPT !.state = "refused"]
      /\ UNCHANGED <<rows, page, seen, stayed>>
  BY DEF refusePage, NoWalk
<1>2. /\ walk' \in [state : {"walking", "ended", "refused"}, table : Table, filter : Filter,
                    limit : Int, cursor : Id \cup {0}]
      /\ walk'.state = "refused" /\ walk'.table = walk.table /\ walk'.filter = walk.filter
  BY <1>1, WalkType DEF PageInv
<1>3. walk' # NoWalk
  BY <1>2 DEF NoWalk
<1>4. Matching(walk.table, walk.filter)' = Matching(walk.table, walk.filter)
  BY <1>1, <1>2 DEF Matching, ListCourses, ListUsers, findPaginated, findByCategory,
              findByDifficulty, findByCategoryAndDifficulty, findBySearchTerm, Present
<1>. QED  BY <1>1, <1>2, <1>3, <1>4 DEF PageInv, PageTypeOK, ListedOnce, NoRepeats, CursorCuts

LEMMA WriteKeeps ==
    ASSUME PageInv, NEW i \in Id, NEW r \in RowShape \cup {Unset}, writeRow(i, r)
    PROVE  PageInv'
<1>1. /\ rows' = [rows EXCEPT ![i] = r]
      /\ UNCHANGED <<walk, page, seen>>
      /\ stayed' \subseteq stayed
      /\ walk # NoWalk => stayed' \subseteq Matching(walk.table, walk.filter)'
  BY DEF writeRow
<1>2. PageTypeOK'
  BY <1>1 DEF PageInv, PageTypeOK
<1>. QED  BY <1>1, <1>2 DEF PageInv, ListedOnce, NoRepeats, CursorCuts

LEMMA PageStepInv == PageInv /\ [PageNext]_pageVars => PageInv'
<1>. SUFFICES ASSUME PageInv, [PageNext]_pageVars PROVE PageInv'
  OBVIOUS
<1>1. CASE nextPage
  BY <1>1, NextPageKeeps
<1>2. CASE refusePage
  BY <1>2, RefuseKeeps
<1>3. ASSUME NEW table \in Table, NEW f \in Filter, NEW limit \in Limit, startWalk(table, f, limit)
      PROVE  PageInv'
  BY <1>3, StartKeeps
<1>4. ASSUME NEW i \in Id, NEW r \in RowShape \cup {Unset}, writeRow(i, r) PROVE PageInv'
  BY <1>4, WriteKeeps
<1>5. CASE UNCHANGED pageVars
  BY <1>5 DEF pageVars, PageInv, PageTypeOK, ListedOnce, NoRepeats, CursorCuts, Matching,
              ListCourses, ListUsers, findPaginated, findByCategory, findByDifficulty,
              findByCategoryAndDifficulty, findBySearchTerm, Present
<1>. QED  BY <1>1, <1>2, <1>3, <1>4, <1>5 DEF PageNext

(* For any ids, filters, limits and writes of others: no row is listed     *)
(* twice, and a walk with a limit of at least one lists every row that     *)
(* matched all the while (execute of ListCoursesUseCase and                *)
(* ListUsersUseCase over the queries of the repositories).                 *)
THEOREM PagesSound == PageSpec => [](PageTypeOK /\ ListedOnce)
<1>1. PageInit => PageInv
  BY PageInitInv
<1>2. PageInv /\ [PageNext]_pageVars => PageInv'
  BY PageStepInv
<1>3. PageInv => PageTypeOK /\ ListedOnce
  BY DEF PageInv
<1>. QED  BY <1>1, <1>2, <1>3, PTL DEF PageSpec

(* A walk that is over, and the ids one may still list.                    *)
Over == walk.state \in {"ended", "refused"}
Ahead == {i \in Id : i > walk.cursor}

(* The safety half of WalkEnds: writes of others take the walk nowhere,    *)
(* and a page ends it or leaves it strictly fewer ids ahead, of which      *)
(* there are finitely many.                                                *)
WalkRunsOut ==
    [][walk.state = "walking" =>
           /\ walk' # walk => Over' \/ (Ahead' \subseteq Ahead /\ Ahead' # Ahead)
           /\ nextPage => walk' # walk]_pageVars

(* However rows come and go, no page asks for what an earlier one asked    *)
(* for: the cursor only moves up (nextCursor of the use cases).            *)
THEOREM WalksRunOut == PageSpec => WalkRunsOut
<1>. DEFINE Closer == Over' \/ (Ahead' \subseteq Ahead /\ Ahead' # Ahead)
<1>1. ASSUME PageInv, walk.state = "walking", nextPage
      PROVE  Closer /\ walk' # walk
  <2>. DEFINE S == after(Matching(walk.table, walk.filter), walk.cursor)
  <2>1. PICK fetched \in take(S, walk.limit) : \E items \in slice(fetched, walk.limit) :
            walk' = IF Cardinality(fetched) > walk.limit /\ items # {}
                    THEN [walk EXCEPT !.cursor = Greatest(items)]
                    ELSE [walk EXCEPT !.state = "ended"]
    BY <1>1 DEF nextPage
  <2>2. PICK items \in slice(fetched, walk.limit) :
            walk' = IF Cardinality(fetched) > walk.limit /\ items # {}
                    THEN [walk EXCEPT !.cursor = Greatest(items)]
                    ELSE [walk EXCEPT !.state = "ended"]
    BY <2>1
  <2>3. /\ walk \in [state : {"walking", "ended", "refused"}, table : Table, filter : Filter,
                      limit : Int, cursor : Id \cup {0}]
        /\ walk.cursor \in Id \cup {0} /\ walk.cursor \in Nat
    BY <1>1, WalkType DEF PageInv, NoWalk
  <2>4. S = {i \in Matching(walk.table, walk.filter) : i > walk.cursor} /\ S \subseteq Id
    BY <2>3, AfterIsGreater, MatchingAreIds
  <2>. HIDE DEF S
  <2>5. items \subseteq S /\ items \subseteq Id /\ Id \subseteq Nat
    BY <2>4, PageIsPart, IdsAreFinite
  <2>6. CASE Cardinality(fetched) > walk.limit /\ items # {}
    <3>1. Greatest(items) \in items
      BY <2>5, <2>6, GreatestOfIds
    <3>2. walk'.cursor = Greatest(items)
      BY <2>2, <2>3, <2>6
    <3>3. walk'.cursor \in Id /\ walk'.cursor \in Nat /\ walk'.cursor > walk.cursor
      BY <2>4, <2>5, <3>1, <3>2
    <3>4. walk'.cursor \in Ahead /\ walk'.cursor \notin Ahead'
      BY <3>3 DEF Ahead
    <3>5. ASSUME NEW i \in Id, i > walk'.cursor PROVE i > walk.cursor
      BY <2>3, <2>5, <3>3, <3>5
    <3>6. Ahead' \subseteq Ahead
      BY <3>5 DEF Ahead
    <3>7. walk' # walk
      BY <2>3, <3>3
    <3>. QED  BY <3>4, <3>6, <3>7
  <2>7. CASE ~(Cardinality(fetched) > walk.limit /\ items # {})
    <3>1. walk' = [walk EXCEPT !.state = "ended"]
      BY <2>2, <2>7
    <3>2. walk'.state = "ended"
      BY <2>3, <3>1
    <3>. QED  BY <1>1, <3>2 DEF Over
  <2>. QED  BY <2>6, <2>7
<1>2. ASSUME PageInv, walk.state = "walking", refusePage PROVE Closer
  <2>1. walk' = [walk EXCEPT !.state = "refused"]
    BY <1>2 DEF refusePage
  <2>2. walk'.state = "refused"
    BY <1>2, <2>1, WalkType DEF PageInv, NoWalk
  <2>. QED  BY <2>2 DEF Over
<1>3. ASSUME PageInv, [PageNext]_pageVars, walk.state = "walking", ~nextPage, ~refusePage
      PROVE  walk' = walk
  BY <1>3 DEF PageNext, startWalk, writeRow, pageVars, NoWalk
<1>. HIDE DEF Closer
<1>4. PageInv /\ [PageNext]_pageVars
      => [walk.state = "walking" => (walk' # walk => Closer) /\ (nextPage => walk' # walk)]_pageVars
  BY <1>1, <1>2, <1>3
<1>5. PageInv /\ [PageNext]_pageVars
      => [walk.state = "walking" =>
             /\ walk' # walk => Over' \/ (Ahead' \subseteq Ahead /\ Ahead' # Ahead)
             /\ nextPage => walk' # walk]_pageVars
  BY <1>4 DEF Closer
<1>. QED  BY <1>5, PageInitInv, PageStepInv, PTL DEF PageSpec, WalkRunsOut
=============================================================================
