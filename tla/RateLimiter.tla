------------------------------ MODULE RateLimiter ------------------------------
(***************************************************************************)
(* The fixed windows of src/src/auth/guards/rate-limiter.service.ts, one   *)
(* per key; a key is the prefix of a limit (rate-limit.config.ts) and the  *)
(* address of the client (rate-limit.guard.ts).                            *)
(*                                                                         *)
(* isAllowed has no await, so a call of it is one step.  Time is counted   *)
(* in ticks, several calls may fall in one.  An entry keeps resetTime -    *)
(* now, and -1 once that is negative: the code only compares it with 0.    *)
(***************************************************************************)
EXTENDS Integers, FiniteSets

CONSTANTS
    LimitKey,       \* keys of the store
    MaxRequests,    \* maxRequests of a key's limit
    Window,         \* windowMs of it, in ticks
    NoEntry

ASSUME LimitsPositive ==
    MaxRequests \in [LimitKey -> Nat \ {0}] /\ Window \in [LimitKey -> Nat \ {0}]
ASSUME NoEntryIsNone == NoEntry \notin [count : Nat, left : Int]

VARIABLES
    store,      \* key -> its entry
    recent      \* history: the ages of the calls allowed within the last window

limiterVars == <<store, recent>>

(* A call allowed takes a free slot for its age.  The slots are as many as *)
(* calls in two windows, one more than the bound AtMostTwoWindows states.  *)
Slot(k) == 1..(2 * MaxRequests[k])
Old(k) == Window[k] + 1
Recent(k) == {s \in Slot(k) : recent[k][s] # Old(k)}
FreeSlot(k) == CHOOSE s \in Slot(k) : s \notin Recent(k)

-----------------------------------------------------------------------------
Live(k) == store[k] # NoEntry /\ store[k].left >= 0

(* Variant: any call in a window moves its end.                            *)
isAllowedSliding(k) ==
    IF Live(k) /\ store[k].count >= MaxRequests[k]
    THEN [allowed |-> FALSE, entry |-> [store[k] EXCEPT !.left = Window[k]]]
    ELSE [allowed |-> TRUE,
          entry |-> [count |-> IF Live(k) THEN store[k].count + 1 ELSE 1, left |-> Window[k]]]

(* Variant: a refused call moves the end of the window.                    *)
isAllowedPenalty(k) ==
    IF ~Live(k) THEN [allowed |-> TRUE, entry |-> [count |-> 1, left |-> Window[k]]]
    ELSE IF store[k].count < MaxRequests[k]
    THEN [allowed |-> TRUE, entry |-> [store[k] EXCEPT !.count = @ + 1]]
    ELSE [allowed |-> FALSE, entry |-> [store[k] EXCEPT !.left = Window[k]]]

(* Variant: <= for <.                                                      *)
isAllowedOneMore(k) ==
    IF ~Live(k) THEN [allowed |-> TRUE, entry |-> [count |-> 1, left |-> Window[k]]]
    ELSE IF store[k].count <= MaxRequests[k]
    THEN [allowed |-> TRUE, entry |-> [store[k] EXCEPT !.count = @ + 1]]
    ELSE [allowed |-> FALSE, entry |-> store[k]]

(* The verdict on a call, and the entry it leaves.                         *)
isAllowed(k) ==
    IF ~Live(k) THEN [allowed |-> TRUE, entry |-> [count |-> 1, left |-> Window[k]]]
    ELSE IF store[k].count < MaxRequests[k]
    THEN [allowed |-> TRUE, entry |-> [store[k] EXCEPT !.count = @ + 1]]
    ELSE [allowed |-> FALSE, entry |-> store[k]]

(* RateLimitGuard.canActivate lets the request through.                    *)
Allow(k) ==
    /\ isAllowed(k).allowed
    /\ store' = [store EXCEPT ![k] = isAllowed(k).entry]
    /\ recent' = [recent EXCEPT ![k][FreeSlot(k)] = 0]

(* It answers 429.                                                         *)
Refuse(k) ==
    /\ ~isAllowed(k).allowed
    /\ store' = [store EXCEPT ![k] = isAllowed(k).entry]
    /\ UNCHANGED recent

(* Removes the entries whose window is over.                               *)
cleanup ==
    /\ store' = [k \in LimitKey |-> IF Live(k) THEN store[k] ELSE NoEntry]
    /\ UNCHANGED recent

(* reset of one key; resetAll is a reset of each.  What was allowed before *)
(* it is deliberately forgotten.                                           *)
reset(k) ==
    /\ store' = [store EXCEPT ![k] = NoEntry]
    /\ recent' = [recent EXCEPT ![k] = [s \in Slot(k) |-> Old(k)]]

Older(e) == [e EXCEPT !.left = IF @ >= 0 THEN @ - 1 ELSE @]

Tick ==
    /\ store' = [k \in LimitKey |-> IF store[k] = NoEntry THEN NoEntry ELSE Older(store[k])]
    /\ recent' = [k \in LimitKey |-> [s \in Slot(k) |->
                     IF recent[k][s] = Old(k) THEN Old(k) ELSE recent[k][s] + 1]]

LimiterInit ==
    /\ store = [k \in LimitKey |-> NoEntry]
    /\ recent = [k \in LimitKey |-> [s \in Slot(k) |-> Old(k)]]

LimiterNext ==
    \/ Tick \/ cleanup
    \/ \E k \in LimitKey : Allow(k) \/ Refuse(k) \/ reset(k)

LimiterSpec == LimiterInit /\ [][LimiterNext]_limiterVars
-----------------------------------------------------------------------------
LimiterTypeOK ==
    /\ store = [k \in LimitKey |-> store[k]]
    /\ recent = [k \in LimitKey |-> recent[k]]
    /\ \A k \in LimitKey :
           /\ store[k] \in {NoEntry} \cup [count : 1..MaxRequests[k], left : (-1)..Window[k]]
           /\ recent[k] \in [Slot(k) -> 0..Old(k)]

(* Two windows side by side allow more than one window's worth, but never  *)
(* two: of any window's length of time, at most 2 * maxRequests - 1        *)
(* attempts were allowed, cleanups at any moment included.                 *)
AtMostTwoWindows ==
    \A k \in LimitKey : Cardinality(Recent(k)) <= 2 * MaxRequests[k] - 1

(* A client is refused only if its address really made maxRequests         *)
(* attempts in the last window: no entry outlives its window, and no       *)
(* refused attempt counts as one.                                          *)
FullWhenRefusing ==
    \A k \in LimitKey : ~isAllowed(k).allowed => Cardinality(Recent(k)) >= MaxRequests[k]
=============================================================================
