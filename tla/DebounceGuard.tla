----------------------------- MODULE DebounceGuard -----------------------------
(***************************************************************************)
(* src/src/common/debounce/debounce.guard.ts: one request of a caller to a *)
(* route, then none for windowMs.  A key is the route and the caller       *)
(* (keyBy of debounce.decorator.ts).  canActivate has no await: a call is  *)
(* one step.  Time is counted in ticks; several calls may fall in one.     *)
(***************************************************************************)
EXTENDS Naturals, FiniteSets

CONSTANTS
    DebounceKey,
    WindowMs,       \* windowMs of a key's route, in ticks
    StoreLimit      \* the store is swept when it holds more keys: 10_000

ASSUME WindowsPositive == WindowMs \in [DebounceKey -> Nat \ {0}]
ASSUME StoreLimitNat == StoreLimit \in Nat

VARIABLES
    expiry,     \* the keys stored, with the time left until their expiry
    since       \* history: time since a key's last admitted request

debounceVars == <<expiry, since>>

Stored(e) == DOMAIN e
InWindow(k) == k \in Stored(expiry) /\ expiry[k] > 0

-----------------------------------------------------------------------------
(* Variant: a full store is emptied.                                       *)
sweepAll(e) == IF Cardinality(Stored(e)) > StoreLimit THEN [k \in {} |-> 0] ELSE e

(* Deletes what has expired, once the store is too large.                  *)
sweep(e) ==
    IF Cardinality(Stored(e)) > StoreLimit
    THEN [k \in {j \in Stored(e) : e[j] > 0} |-> e[k]]
    ELSE e

(* canActivate returns true.                                               *)
Admit(k) ==
    /\ ~InWindow(k)
    /\ expiry' = sweep([j \in Stored(expiry) \cup {k} |-> IF j = k THEN WindowMs[k] ELSE expiry[j]])
    /\ since' = [since EXCEPT ![k] = 0]

(* It answers 429, and the window stays as it is.                          *)
Reject(k) == InWindow(k) /\ UNCHANGED debounceVars

DebounceTick ==
    /\ expiry' = [k \in Stored(expiry) |-> IF expiry[k] > 0 THEN expiry[k] - 1 ELSE 0]
    /\ since' = [k \in DebounceKey |-> IF since[k] < WindowMs[k] THEN since[k] + 1 ELSE since[k]]

DebounceInit ==
    /\ expiry = [k \in {} |-> 0]
    /\ since = WindowMs

DebounceNext ==
    \/ DebounceTick
    \/ \E k \in DebounceKey : Admit(k) \/ Reject(k)

DebounceSpec == DebounceInit /\ [][DebounceNext]_debounceVars
-----------------------------------------------------------------------------
DebounceTypeOK ==
    /\ Stored(expiry) \subseteq DebounceKey
    /\ expiry = [k \in Stored(expiry) |-> expiry[k]]
    /\ \A k \in Stored(expiry) : expiry[k] \in 0..WindowMs[k]
    /\ since \in [DebounceKey -> Nat]
    /\ \A k \in DebounceKey : since[k] <= WindowMs[k]

(* Two requests of one caller to one route are never admitted less than a  *)
(* window apart, however often the store outgrows its limit and is swept   *)
(* in between; and a caller that waited for a window is admitted, whatever *)
(* was rejected meanwhile.                                                 *)
DebounceExact == \A k \in DebounceKey : since[k] < WindowMs[k] <=> InWindow(k)
=============================================================================
