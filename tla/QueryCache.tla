------------------------------ MODULE QueryCache ------------------------------
(***************************************************************************)
(* Reads of a course through the cache: getOrSet of                        *)
(* src/src/common/cache/query-cache.service.ts under findOne of            *)
(* course.service.ts, and the interceptor that empties the cache after a   *)
(* write (cache-invalidation.interceptor.ts; no controller uses it yet,    *)
(* its writes are modelled as those of a controller that does).            *)
(*                                                                         *)
(* getOrSet awaits the cache, the query and the cache again; between any   *)
(* two of them other requests run.  The row has versions; Absent is null,  *)
(* which is a miss when it is found in the cache.                          *)
(***************************************************************************)
EXTENDS Naturals

CONSTANTS
    Reader,
    Version,        \* contents of the row, each written once
    Absent,         \* no row: null
    Miss            \* nothing cached, or not read yet

ASSUME VersionsAreValues == Absent \notin Version /\ Miss \notin Version \cup {Absent}

VARIABLES
    row,            \* the row in the database
    cached,         \* the cache's entry
    stage,          \* of each reader, between its awaits
    value,          \* what a reader has read
    clears,         \* writes done whose interceptor has not run yet
    written,        \* history: the versions written
    outdated,       \* history: the contents that must not be cached again
    witnessed       \* history: readers whose row was absent since they asked

cacheVars == <<row, cached, stage, value, clears, written, outdated, witnessed>>

Row == Version \cup {Absent}
ReaderStage == {"idle", "miss", "queried", "answered"}
(* A reader that has a value and has not put it in the cache.              *)
Queried == {r \in Reader : stage[r] = "queried"}

-----------------------------------------------------------------------------
(* Variant: only undefined counts as nothing.                              *)
lookupUndefined(r) ==
    /\ stage[r] = "idle"
    /\ IF cached = Miss
       THEN stage' = [stage EXCEPT ![r] = "miss"] /\ UNCHANGED value
       ELSE stage' = [stage EXCEPT ![r] = "answered"] /\ value' = [value EXCEPT ![r] = cached]
    /\ witnessed' = IF row = Absent THEN witnessed \cup {r} ELSE witnessed
    /\ UNCHANGED <<row, cached, clears, written, outdated>>

(* The first await: findOne asks the cache.  null counts as nothing.       *)
lookup(r) ==
    /\ stage[r] = "idle"
    /\ IF cached \in {Miss, Absent}
       THEN stage' = [stage EXCEPT ![r] = "miss"] /\ UNCHANGED value
       ELSE stage' = [stage EXCEPT ![r] = "answered"] /\ value' = [value EXCEPT ![r] = cached]
    /\ witnessed' = IF row = Absent THEN witnessed \cup {r} ELSE witnessed
    /\ UNCHANGED <<row, cached, clears, written, outdated>>

(* The second: the factory queries the row.                                *)
query(r) ==
    /\ stage[r] = "miss"
    /\ stage' = [stage EXCEPT ![r] = "queried"]
    /\ value' = [value EXCEPT ![r] = row]
    /\ UNCHANGED <<row, cached, clears, written, outdated, witnessed>>

(* The third: the value goes into the cache, whatever came between.        *)
fill(r) ==
    /\ stage[r] = "queried"
    /\ cached' = value[r]
    /\ stage' = [stage EXCEPT ![r] = "answered"]
    /\ UNCHANGED <<row, value, clears, written, outdated, witnessed>>

returned(r) ==
    /\ stage[r] = "answered"
    /\ stage' = [stage EXCEPT ![r] = "idle"]
    /\ value' = [value EXCEPT ![r] = Miss]
    /\ witnessed' = witnessed \ {r}
    /\ UNCHANGED <<row, cached, clears, written, outdated>>

(* Variant: set without a ttl.                                             *)
expireNever == cached = Absent /\ UNCHANGED cacheVars

(* ttlMs of the entry is over (external: cache-manager).                   *)
expire ==
    /\ cached # Miss
    /\ cached' = Miss
    /\ UNCHANGED <<row, stage, value, clears, written, outdated, witnessed>>

(* A request inserts, updates or deletes the row.                          *)
write(v) ==
    /\ v # row /\ v \notin written
    /\ row' = v /\ written' = written \cup ({v} \ {Absent})
    /\ clears' = clears + 1
    /\ witnessed' = IF v = Absent THEN {r \in Reader : stage[r] # "idle"} ELSE witnessed
    /\ UNCHANGED <<cached, stage, value, outdated>>

(* Variant: a cache manager without stores is left alone.                  *)
interceptNoStores ==
    /\ clears > 0 /\ clears' = clears - 1
    /\ outdated' = IF Queried = {} THEN written \ {row} ELSE outdated
    /\ UNCHANGED <<row, cached, stage, value, written, witnessed>>

(* The interceptor, after the handler that wrote: it empties the cache.    *)
intercept ==
    /\ clears > 0 /\ clears' = clears - 1
    /\ cached' = Miss
    /\ outdated' = IF Queried = {} THEN written \ {row} ELSE outdated
    /\ UNCHANGED <<row, stage, value, written, witnessed>>

CacheInit ==
    /\ row = Absent /\ cached = Miss
    /\ stage = [r \in Reader |-> "idle"] /\ value = [r \in Reader |-> Miss]
    /\ clears = 0 /\ written = {} /\ outdated = {} /\ witnessed = {}

CacheNext ==
    \/ expire \/ intercept
    \/ \E v \in Row : write(v)
    \/ \E r \in Reader : lookup(r) \/ query(r) \/ fill(r) \/ returned(r)

CacheSpec == CacheInit /\ [][CacheNext]_cacheVars

(* The query and the cache answer, and entries expire.  Nobody need read,  *)
(* and nobody clears.                                                      *)
CacheFairness ==
    /\ WF_cacheVars(expire)
    /\ \A r \in Reader : WF_cacheVars(query(r) \/ fill(r))
-----------------------------------------------------------------------------
CacheTypeOK ==
    /\ row \in Row /\ cached \in Row \cup {Miss}
    /\ stage \in [Reader -> ReaderStage] /\ value \in [Reader -> Row \cup {Miss}]
    /\ clears \in Nat /\ written \subseteq Version /\ outdated \subseteq written
    /\ witnessed \subseteq Reader

(* A course that is not there is asked for again each time: whoever is     *)
(* told that there is none asked while there was none, and never because   *)
(* an earlier reader found none, although null is put in the cache too.    *)
NoStaleAbsence ==
    \A r \in Reader : stage[r] = "answered" /\ value[r] = Absent => r \in witnessed

(* What was overwritten before the cache was emptied is not cached again;  *)
(* but for one case, a reader that had queried the row and not yet filled  *)
(* the cache with it when the cache was emptied.                           *)
ClearedForGood == cached \notin outdated

(* Nobody reads an old course for ever: when the writes are over, what is  *)
(* cached is what is in the database, whatever the readers did and even if *)
(* no interceptor ever runs.                                               *)
CacheConverges == <>[](cached \in {Miss, row})
=============================================================================
