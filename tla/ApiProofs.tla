------------------------------- MODULE ApiProofs -------------------------------
(***************************************************************************)
(* Proofs about the requests to the API: the limiter's fixed windows, for  *)
(* any keys, limits and windows; the pages of a browser behind the CSRF    *)
(* guard and the limiter, for any number of pages; and the answers of      *)
(* every operation of Routes.                                              *)
(*                                                                         *)
(* The windows, one key at a time.  While its window is open, the calls    *)
(* allowed since its beginning are as many as the entry counts, the first  *)
(* of them at the beginning itself; and what was allowed before and still  *)
(* is within a window's length is less than a window's worth.  That holds  *)
(* because the call that began the window before is older than a window    *)
(* when the entry expires.                                                 *)
(*                                                                         *)
(* The pages.  A page waits for its answer, so three tokens for each are   *)
(* more than are in use, and a fresh one is there to be given out.         *)
(***************************************************************************)
EXTENDS HttpApi, RequestPipeline, FiniteSetTheorems, TLAPS

(* The time since the window began, the calls since and those before.      *)
Elapsed(k) == Window[k] - store[k].left
Young(k) == {s \in Slot(k) : recent[k][s] <= Elapsed(k)}
Aged(k) == {s \in Recent(k) : recent[k][s] > Elapsed(k)}

KeyInv(k) ==
    IF Live(k)
    THEN /\ Cardinality(Young(k)) = store[k].count
         /\ \E s \in Slot(k) : recent[k][s] = Elapsed(k)
         /\ Cardinality(Aged(k)) <= MaxRequests[k] - 1
    ELSE /\ Cardinality(Recent(k)) <= MaxRequests[k] - 1
         /\ \A s \in Slot(k) : recent[k][s] >= 1

LimiterInv == LimiterTypeOK /\ \A k \in LimitKey : KeyInv(k)

-----------------------------------------------------------------------------
LEMMA Bounds ==
    ASSUME NEW k \in LimitKey
    PROVE  MaxRequests[k] \in Nat \ {0} /\ Window[k] \in Nat \ {0}
BY LimitsPositive

(* Slots are finitely many, two windows' worth.                            *)
LEMMA Slots ==
    ASSUME NEW k \in LimitKey
    PROVE  /\ IsFiniteSet(Slot(k))
           /\ Cardinality(Slot(k)) = 2 * MaxRequests[k]
           /\ \A T \in SUBSET Slot(k) :
                  IsFiniteSet(T) /\ Cardinality(T) \in Nat /\ Cardinality(T) <= 2 * MaxRequests[k]
<1>1. MaxRequests[k] \in Nat \ {0}
  BY Bounds
<1>2. IsFiniteSet(Slot(k)) /\ Cardinality(Slot(k)) = 2 * MaxRequests[k]
  BY <1>1, FS_Interval DEF Slot
<1>. QED  BY <1>2, FS_Subset, FS_CardinalityType

(* What the type of an entry says.                                         *)
LEMMA EntryType ==
    ASSUME LimiterTypeOK, NEW k \in LimitKey
    PROVE  /\ recent[k] \in [Slot(k) -> 0..Old(k)]
           /\ store[k] # NoEntry => /\ store[k] \in [count : 1..MaxRequests[k], left : (-1)..Window[k]]
                                    /\ store[k].count \in 1..MaxRequests[k]
                                    /\ store[k].left \in (-1)..Window[k]
           /\ Live(k) => Elapsed(k) \in 0..Window[k]
BY Bounds DEF LimiterTypeOK, Live, Elapsed

(* An open window: the calls of two windows are those since it began, and  *)
(* those before.                                                           *)
LEMMA YoungAndAged ==
    ASSUME LimiterInv, NEW k \in LimitKey, Live(k)
    PROVE  /\ Recent(k) = Young(k) \cup Aged(k)
           /\ Young(k) \subseteq Slot(k) /\ Aged(k) \subseteq Slot(k)
           /\ Cardinality(Recent(k)) <= store[k].count + MaxRequests[k] - 1
           /\ Cardinality(Recent(k)) >= store[k].count
<1>1. LimiterTypeOK /\ KeyInv(k)
  BY DEF LimiterInv
<1>2. Elapsed(k) \in 0..Window[k] /\ recent[k] \in [Slot(k) -> 0..Old(k)]
  BY <1>1, EntryType
<1>3. MaxRequests[k] \in Nat \ {0} /\ Window[k] \in Nat \ {0}
  BY Bounds
<1>4. Recent(k) = Young(k) \cup Aged(k)
  BY <1>2, <1>3 DEF Recent, Young, Aged, Old
<1>5. Young(k) \subseteq Slot(k) /\ Aged(k) \subseteq Slot(k) /\ Recent(k) \subseteq Slot(k)
  BY DEF Young, Aged, Recent
<1>6. IsFiniteSet(Young(k)) /\ IsFiniteSet(Aged(k)) /\ IsFiniteSet(Recent(k))
  BY <1>5, Slots
<1>7. /\ Cardinality(Young(k)) \in Nat /\ Cardinality(Aged(k)) \in Nat
      /\ Cardinality(Young(k) \cap Aged(k)) \in Nat
  BY <1>6, FS_CardinalityType, FS_Intersection
<1>8. /\ Cardinality(Recent(k)) =
             Cardinality(Young(k)) + Cardinality(Aged(k)) - Cardinality(Young(k) \cap Aged(k))
      /\ Cardinality(Young(k)) <= Cardinality(Recent(k))
  BY <1>4, <1>6, FS_Union, FS_Subset
<1>9. /\ Cardinality(Young(k)) = store[k].count
      /\ Cardinality(Aged(k)) <= MaxRequests[k] - 1
  BY <1>1 DEF KeyInv
<1>. QED  BY <1>3, <1>4, <1>5, <1>7, <1>8, <1>9

(* The slot an allowed call takes is free.                                 *)
LEMMA SlotIsFree ==
    ASSUME LimiterInv, NEW k \in LimitKey, isAllowed(k).allowed
    PROVE  FreeSlot(k) \in Slot(k) \ Recent(k)
<1>1. MaxRequests[k] \in Nat \ {0} /\ LimiterTypeOK /\ KeyInv(k)
  BY Bounds DEF LimiterInv
<1>2. Recent(k) \subseteq Slot(k) /\ Cardinality(Recent(k)) \in Nat
  BY Slots DEF Recent
<1>3. Cardinality(Recent(k)) < 2 * MaxRequests[k]
  <2>1. CASE Live(k)
    <3>1. store[k].count < MaxRequests[k]
      BY <2>1 DEF isAllowed
    <3>2. store[k].count \in Nat
      BY <1>1, <2>1, EntryType DEF Live
    <3>. QED  BY <1>1, <1>2, <2>1, <3>1, <3>2, YoungAndAged
  <2>2. CASE ~Live(k)
    BY <1>1, <1>2, <2>2 DEF KeyInv
  <2>. QED  BY <2>1, <2>2
<1>4. Recent(k) # Slot(k)
  BY <1>1, <1>3, Slots
<1>5. \E s \in Slot(k) : s \notin Recent(k)
  BY <1>2, <1>4
<1>. QED  BY <1>5 DEF FreeSlot

-----------------------------------------------------------------------------
(* A step that leaves a key alone keeps its part of the invariant.         *)
LEMMA OtherKey ==
    ASSUME NEW k \in LimitKey, KeyInv(k), store'[k] = store[k], recent'[k] = recent[k]
    PROVE  KeyInv(k)'
BY DEF KeyInv, Live, Young, Aged, Recent, Elapsed, Slot, Old

(* The first call of a window: it is the only one since its beginning.     *)
LEMMA FirstCall ==
    ASSUME LimiterInv, NEW k \in LimitKey, ~Live(k), NEW s \in Slot(k) \ Recent(k),
           store'[k] = [count |-> 1, left |-> Window[k]],
           recent'[k] = [recent[k] EXCEPT ![s] = 0]
    PROVE  KeyInv(k)'
<1>1. MaxRequests[k] \in Nat \ {0} /\ Window[k] \in Nat \ {0}
  BY Bounds
<1>2. recent[k] \in [Slot(k) -> 0..Old(k)]
  BY EntryType DEF LimiterInv
<1>3. Live(k)' /\ Elapsed(k)' = 0 /\ store'[k].count = 1
  BY <1>1, NoEntryIsNone DEF Live, Elapsed
<1>4. recent'[k][s] = 0 /\ \A r \in Slot(k) \ {s} : recent'[k][r] = recent[k][r]
  BY <1>2
<1>5. Young(k)' = {s}
  <2>1. \A r \in Slot(k) \ {s} : recent'[k][r] >= 1 /\ recent'[k][r] \in Int
    BY <1>1, <1>2, <1>4 DEF LimiterInv, KeyInv, Old
  <2>. QED  BY <1>3, <1>4, <2>1 DEF Young, Slot
<1>6. Aged(k)' \subseteq Recent(k)
  BY <1>1, <1>2, <1>3, <1>4 DEF Aged, Recent, Slot, Old
<1>7. Cardinality(Young(k)') = 1
  BY <1>5, FS_EmptySet, FS_AddElement
<1>8. Cardinality(Aged(k)') <= MaxRequests[k] - 1
  <2>1. Recent(k) \subseteq Slot(k) /\ Cardinality(Recent(k)) <= MaxRequests[k] - 1
    BY DEF Recent, LimiterInv, KeyInv
  <2>2. IsFiniteSet(Recent(k)) /\ Cardinality(Recent(k)) \in Nat
    BY <2>1, Slots
  <2>3. Cardinality(Aged(k)') \in Nat /\ Cardinality(Aged(k)') <= Cardinality(Recent(k))
    BY <1>6, <2>2, FS_Subset, FS_CardinalityType
  <2>. QED  BY <1>1, <2>1, <2>2, <2>3
<1>. QED  BY <1>3, <1>4, <1>7, <1>8 DEF KeyInv, Slot

(* A later call of it.                                                     *)
LEMMA LaterCall ==
    ASSUME LimiterInv, NEW k \in LimitKey, Live(k), NEW s \in Slot(k) \ Recent(k),
           store'[k] = [store[k] EXCEPT !.count = @ + 1],
           recent'[k] = [recent[k] EXCEPT ![s] = 0]
    PROVE  KeyInv(k)'
<1>1. MaxRequests[k] \in Nat \ {0} /\ Window[k] \in Nat \ {0}
  BY Bounds
<1>2. recent[k] \in [Slot(k) -> 0..Old(k)] /\ Elapsed(k) \in 0..Window[k] /\ KeyInv(k)
  BY EntryType DEF LimiterInv
<1>3. store[k] \in [count : 1..MaxRequests[k], left : (-1)..Window[k]]
  BY EntryType DEF LimiterInv, Live
<1>4. Live(k)' /\ Elapsed(k)' = Elapsed(k) /\ store'[k].count = store[k].count + 1
  BY <1>1, <1>3, NoEntryIsNone DEF Live, Elapsed
<1>5. recent'[k][s] = 0 /\ \A r \in Slot(k) \ {s} : recent'[k][r] = recent[k][r]
  BY <1>2
<1>6. recent[k][s] = Window[k] + 1
  BY DEF Recent, Old
<1>7. Young(k)' = Young(k) \cup {s} /\ s \notin Young(k)
  BY <1>1, <1>2, <1>4, <1>5, <1>6 DEF Young, Slot
<1>8. Aged(k)' = Aged(k)
  BY <1>1, <1>2, <1>4, <1>5, <1>6 DEF Aged, Recent, Slot, Old
<1>9. Cardinality(Young(k)') = store[k].count + 1
  <2>1. Young(k) \subseteq Slot(k) /\ Cardinality(Young(k)) = store[k].count
    BY <1>2 DEF Young, KeyInv
  <2>. QED  BY <1>7, <2>1, Slots, FS_AddElement
<1>10. \E r \in Slot(k) : recent'[k][r] = Elapsed(k)
  <2>1. PICK r \in Slot(k) : recent[k][r] = Elapsed(k)
    BY <1>2 DEF KeyInv
  <2>2. r # s
    BY <1>1, <1>2, <1>6, <2>1
  <2>. QED  BY <1>5, <2>1, <2>2
<1>. QED  BY <1>2, <1>4, <1>8, <1>9, <1>10 DEF KeyInv, Slot

(* The key of a call that is allowed.                                      *)
LEMMA AllowKeepsKey ==
    ASSUME LimiterInv, NEW k \in LimitKey, Allow(k)
    PROVE  KeyInv(k)'
<1>1. isAllowed(k).allowed /\ store'[k] = isAllowed(k).entry
  BY DEF Allow, LimiterInv, LimiterTypeOK
<1>2. recent'[k] = [recent[k] EXCEPT ![FreeSlot(k)] = 0]
  BY DEF Allow, LimiterInv, LimiterTypeOK
<1>3. FreeSlot(k) \in Slot(k) \ Recent(k)
  BY <1>1, SlotIsFree
<1>4. CASE Live(k)
  <2>1. store'[k] = [store[k] EXCEPT !.count = @ + 1]
    BY <1>1, <1>4 DEF isAllowed
  <2>. QED  BY <1>2, <1>3, <1>4, <2>1, LaterCall
<1>5. CASE ~Live(k)
  <2>1. store'[k] = [count |-> 1, left |-> Window[k]]
    BY <1>1, <1>5 DEF isAllowed
  <2>. QED  BY <1>2, <1>3, <1>5, <2>1, FirstCall
<1>. QED  BY <1>4, <1>5

(* A key a tick later.                                                     *)
LEMMA TickKeepsKey ==
    ASSUME LimiterInv, NEW k \in LimitKey, Tick
    PROVE  KeyInv(k)'
<1>1. MaxRequests[k] \in Nat \ {0} /\ Window[k] \in Nat \ {0}
  BY Bounds
<1>2. recent[k] \in [Slot(k) -> 0..Old(k)] /\ KeyInv(k) /\ LimiterTypeOK
  BY EntryType DEF LimiterInv
<1>3. store'[k] = IF store[k] = NoEntry THEN NoEntry ELSE Older(store[k])
  BY DEF Tick
<1>4. recent'[k] = [s \in Slot(k) |-> IF recent[k][s] = Old(k) THEN Old(k) ELSE recent[k][s] + 1]
  BY DEF Tick
<1>5. \A s \in Slot(k) : recent'[k][s] >= 1 /\ recent'[k][s] \in Int
  BY <1>1, <1>2, <1>4 DEF Old
<1>6. Recent(k) \subseteq Slot(k) /\ Recent(k)' \subseteq Recent(k)
  BY <1>1, <1>2, <1>4 DEF Recent, Slot, Old
<1>7. CASE ~Live(k)
  <2>1. ~Live(k)'
    <3>1. CASE store[k] = NoEntry
      BY <1>3, <3>1 DEF Live
    <3>2. CASE store[k] # NoEntry
      <4>1. store[k].left \in Int /\ store[k].left < 0
        BY <1>2, <1>7, <3>2, EntryType DEF Live
      <4>2. store[k] \in [count : 1..MaxRequests[k], left : (-1)..Window[k]]
        BY <1>2, <3>2, EntryType
      <4>3. store'[k].left = store[k].left
        BY <1>3, <3>2, <4>1, <4>2 DEF Older
      <4>. QED  BY <4>1, <4>3 DEF Live
    <3>. QED  BY <3>1, <3>2
  <2>2. Cardinality(Recent(k)) <= MaxRequests[k] - 1
    BY <1>2, <1>7 DEF KeyInv
  <2>3. Cardinality(Recent(k)') <= MaxRequests[k] - 1
    BY <1>1, <1>6, <2>2, Slots, FS_Subset
  <2>. QED  BY <1>5, <2>1, <2>3 DEF KeyInv, Slot
<1>8. CASE Live(k)
  <2>1. /\ store[k] \in [count : 1..MaxRequests[k], left : (-1)..Window[k]]
        /\ store[k].count \in 1..MaxRequests[k] /\ store[k].left \in 0..Window[k]
        /\ Elapsed(k) \in 0..Window[k] /\ store[k] # NoEntry
    BY <1>1, <1>2, <1>8, EntryType DEF Live
  <2>2. store'[k] \in [count : 1..MaxRequests[k], left : (-1)..Window[k]]
        /\ store'[k].count = store[k].count /\ store'[k].left = store[k].left - 1
    BY <1>1, <1>3, <2>1 DEF Older
  <2>3. store'[k] # NoEntry
    BY <1>1, <2>2, NoEntryIsNone
  <2>4. PICK t \in Slot(k) : recent[k][t] = Elapsed(k)
    BY <1>2, <1>8 DEF KeyInv
  <2>5. /\ Young(k) \subseteq Slot(k) /\ Aged(k) \subseteq Slot(k)
        /\ Cardinality(Young(k)) = store[k].count
        /\ Cardinality(Aged(k)) <= MaxRequests[k] - 1
    BY <1>2, <1>8 DEF KeyInv, Young, Aged, Recent
  <2>6. CASE store[k].left > 0
    <3>1. Live(k)' /\ Elapsed(k)' = Elapsed(k) + 1 /\ Elapsed(k) < Window[k]
      BY <1>1, <2>1, <2>2, <2>3, <2>6 DEF Live, Elapsed
    <3>2. Young(k)' = Young(k)
      <4>1. ASSUME NEW s \in Slot(k)
            PROVE  recent'[k][s] <= Elapsed(k) + 1 <=> recent[k][s] <= Elapsed(k)
        BY <1>1, <1>2, <1>4, <2>1, <3>1 DEF Old
      <4>2. Young(k)' = {s \in Slot(k) : recent'[k][s] <= Elapsed(k) + 1}
        BY <3>1 DEF Young, Slot
      <4>. QED  BY <4>1, <4>2 DEF Young
    <3>3. Aged(k)' \subseteq Aged(k)
      BY <1>1, <1>2, <1>4, <2>1, <3>1 DEF Aged, Recent, Slot, Old
    <3>4. Cardinality(Aged(k)') <= MaxRequests[k] - 1
      BY <1>1, <2>5, <3>3, Slots, FS_Subset
    <3>5. recent'[k][t] = Elapsed(k) + 1
      BY <1>1, <1>4, <2>1, <2>4, <3>1 DEF Old
    <3>. QED  BY <2>2, <2>4, <2>5, <3>1, <3>2, <3>4, <3>5 DEF KeyInv, Slot
  <2>7. CASE store[k].left = 0
    <3>1. ~Live(k)' /\ Elapsed(k) = Window[k]
      BY <1>1, <2>1, <2>2, <2>7 DEF Live, Elapsed
    <3>2. Recent(k)' \subseteq Young(k) \ {t} /\ t \in Young(k)
      BY <1>1, <1>2, <1>4, <2>4, <3>1 DEF Recent, Young, Slot, Old
    <3>3. /\ IsFiniteSet(Young(k))
          /\ IsFiniteSet(Young(k) \ {t})
          /\ Cardinality(Young(k) \ {t}) = store[k].count - 1
      BY <2>5, <3>2, Slots, FS_RemoveElement
    <3>4. Cardinality(Recent(k)') <= store[k].count - 1 /\ Cardinality(Recent(k)') \in Nat
      BY <3>2, <3>3, FS_Subset, FS_CardinalityType
    <3>5. Cardinality(Recent(k)') <= MaxRequests[k] - 1
      BY <1>1, <2>1, <3>4
    <3>. QED  BY <1>5, <3>1, <3>5 DEF KeyInv, Slot
  <2>. QED  BY <2>1, <2>6, <2>7
<1>. QED  BY <1>7, <1>8

LEMMA CleanupKeepsKey ==
    ASSUME LimiterInv, NEW k \in LimitKey, cleanup
    PROVE  KeyInv(k)'
<1>1. CASE Live(k)
  BY <1>1, OtherKey DEF cleanup, LimiterInv
<1>2. CASE ~Live(k)
  <2>1. ~Live(k)' /\ recent' = recent
    BY <1>2 DEF cleanup, Live
  <2>. QED  BY <1>2, <2>1 DEF LimiterInv, KeyInv, Recent, Slot, Old
<1>. QED  BY <1>1, <1>2

LEMMA ResetKeepsKey ==
    ASSUME LimiterInv, NEW k \in LimitKey, reset(k)
    PROVE  KeyInv(k)'
<1>1. store'[k] = NoEntry /\ recent'[k] = [s \in Slot(k) |-> Old(k)]
  BY DEF reset, LimiterInv, LimiterTypeOK
<1>2. ~Live(k)'
  BY <1>1 DEF Live
<1>3. Recent(k)' = {} /\ \A s \in Slot(k) : recent'[k][s] = Old(k)
  BY <1>1 DEF Recent, Slot, Old
<1>. QED  BY <1>2, <1>3, Bounds, FS_EmptySet DEF KeyInv, Slot, Old

-----------------------------------------------------------------------------
LEMMA LimiterInitInv == LimiterInit => LimiterInv
<1>. SUFFICES ASSUME LimiterInit PROVE LimiterInv
  OBVIOUS
<1>1. LimiterTypeOK
  BY Bounds DEF LimiterInit, LimiterTypeOK, Old
<1>2. ASSUME NEW k \in LimitKey PROVE KeyInv(k)
  <2>1. ~Live(k) /\ Recent(k) = {} /\ \A s \in Slot(k) : recent[k][s] = Old(k)
    BY DEF LimiterInit, Live, Recent
  <2>. QED  BY <2>1, Bounds, FS_EmptySet DEF KeyInv, Old
<1>. QED  BY <1>1, <1>2 DEF LimiterInv

LEMMA LimiterStepType == LimiterInv /\ [LimiterNext]_limiterVars => LimiterTypeOK'
<1>. SUFFICES ASSUME LimiterInv, [LimiterNext]_limiterVars PROVE LimiterTypeOK'
  OBVIOUS
<1>0. LimiterTypeOK
  BY DEF LimiterInv
<1>1. CASE Tick
  <2>1. ASSUME NEW k \in LimitKey
        PROVE  store'[k] \in {NoEntry} \cup [count : 1..MaxRequests[k], left : (-1)..Window[k]]
    BY <1>0, <1>1, Bounds DEF Tick, Older, LimiterTypeOK
  <2>2. ASSUME NEW k \in LimitKey PROVE recent'[k] \in [Slot(k) -> 0..Old(k)]
    BY <1>0, <1>1, Bounds DEF Tick, Old, LimiterTypeOK
  <2>. QED  BY <1>1, <2>1, <2>2 DEF Tick, LimiterTypeOK, Slot, Old
<1>2. CASE cleanup
  BY <1>0, <1>2 DEF cleanup, LimiterTypeOK, Slot, Old
<1>3. ASSUME NEW k \in LimitKey, Allow(k) PROVE LimiterTypeOK'
  <2>1. isAllowed(k).entry \in [count : 1..MaxRequests[k], left : (-1)..Window[k]]
    <3>1. isAllowed(k).allowed
      BY <1>3 DEF Allow
    <3>2. CASE Live(k)
      <4>1. isAllowed(k).entry = [store[k] EXCEPT !.count = @ + 1] /\ store[k].count < MaxRequests[k]
        BY <3>1, <3>2 DEF isAllowed
      <4>2. /\ store[k] \in [count : 1..MaxRequests[k], left : (-1)..Window[k]]
            /\ store[k].count + 1 \in 1..MaxRequests[k]
        BY <1>0, <3>2, <4>1, Bounds, EntryType DEF Live
      <4>. QED  BY <4>1, <4>2
    <3>3. CASE ~Live(k)
      BY <3>3, Bounds DEF isAllowed
    <3>. QED  BY <3>2, <3>3
  <2>2. FreeSlot(k) \in Slot(k)
    BY <1>3, SlotIsFree DEF Allow
  <2>3. \A j \in LimitKey : recent'[j] \in [Slot(j) -> 0..Old(j)]
    BY <1>0, <1>3, <2>2, Bounds DEF Allow, LimiterTypeOK, Old
  <2>. QED  BY <1>0, <1>3, <2>1, <2>3 DEF Allow, LimiterTypeOK, Slot, Old
<1>4. ASSUME NEW k \in LimitKey, Refuse(k) PROVE LimiterTypeOK'
  BY <1>0, <1>4 DEF Refuse, isAllowed, LimiterTypeOK, Slot, Old
<1>5. ASSUME NEW k \in LimitKey, reset(k) PROVE LimiterTypeOK'
  <2>1. Old(k) \in 0..Old(k)
    BY Bounds DEF Old
  <2>. QED  BY <1>0, <1>5, <2>1 DEF reset, LimiterTypeOK, Slot, Old
<1>6. CASE UNCHANGED limiterVars
  BY <1>0, <1>6 DEF limiterVars, LimiterTypeOK, Slot, Old
<1>. QED  BY <1>1, <1>2, <1>3, <1>4, <1>5, <1>6 DEF LimiterNext

LEMMA LimiterStepInv == LimiterInv /\ [LimiterNext]_limiterVars => LimiterInv'
<1>. SUFFICES ASSUME LimiterInv, [LimiterNext]_limiterVars, NEW k \in LimitKey
              PROVE  KeyInv(k)'
  BY LimiterStepType DEF LimiterInv
<1>0. KeyInv(k)
  BY DEF LimiterInv
<1>1. CASE Tick
  BY <1>1, TickKeepsKey
<1>2. CASE cleanup
  BY <1>2, CleanupKeepsKey
<1>3. ASSUME NEW j \in LimitKey, Allow(j) PROVE KeyInv(k)'
  <2>1. CASE j = k
    BY <1>3, <2>1, AllowKeepsKey
  <2>2. CASE j # k
    BY <1>0, <1>3, <2>2, OtherKey DEF Allow, LimiterInv, LimiterTypeOK
  <2>. QED  BY <2>1, <2>2
<1>4. ASSUME NEW j \in LimitKey, Refuse(j) PROVE KeyInv(k)'
  <2>1. store'[k] = store[k] /\ recent' = recent
    BY <1>4 DEF Refuse, isAllowed, LimiterInv, LimiterTypeOK
  <2>. QED  BY <1>0, <2>1, OtherKey
<1>5. ASSUME NEW j \in LimitKey, reset(j) PROVE KeyInv(k)'
  <2>1. CASE j = k
    BY <1>5, <2>1, ResetKeepsKey
  <2>2. CASE j # k
    BY <1>0, <1>5, <2>2, OtherKey DEF reset, LimiterInv, LimiterTypeOK
  <2>. QED  BY <2>1, <2>2
<1>6. CASE UNCHANGED limiterVars
  BY <1>0, <1>6, OtherKey DEF limiterVars
<1>. QED  BY <1>1, <1>2, <1>3, <1>4, <1>5, <1>6 DEF LimiterNext

(* What the invariant says of a window's length of time, and of a refusal. *)
LEMMA LimiterInvSound == LimiterInv => AtMostTwoWindows /\ FullWhenRefusing
<1>. SUFFICES ASSUME LimiterInv, NEW k \in LimitKey
              PROVE  /\ Cardinality(Recent(k)) <= 2 * MaxRequests[k] - 1
                     /\ ~isAllowed(k).allowed => Cardinality(Recent(k)) >= MaxRequests[k]
  BY DEF AtMostTwoWindows, FullWhenRefusing
<1>1. MaxRequests[k] \in Nat \ {0} /\ Cardinality(Recent(k)) \in Nat
  BY Bounds, Slots DEF Recent
<1>2. CASE Live(k)
  <2>1. store[k].count \in 1..MaxRequests[k]
    BY <1>2, EntryType DEF LimiterInv, Live
  <2>2. ~isAllowed(k).allowed => store[k].count >= MaxRequests[k]
    BY <1>1, <1>2, <2>1 DEF isAllowed
  <2>. QED  BY <1>1, <1>2, <2>1, <2>2, YoungAndAged
<1>3. CASE ~Live(k)
  <2>1. isAllowed(k).allowed
    BY <1>3 DEF isAllowed
  <2>. QED  BY <1>1, <1>3, <2>1 DEF LimiterInv, KeyInv
<1>. QED  BY <1>2, <1>3

LEMMA LimiterInvHolds == LimiterSpec => []LimiterInv
BY LimiterInitInv, LimiterStepInv, PTL DEF LimiterSpec

(* The types of the store hold for any keys, limits and windows.           *)
THEOREM LimiterTyped == LimiterSpec => []LimiterTypeOK
<1>1. LimiterInv => LimiterTypeOK
  BY DEF LimiterInv
<1>. QED  BY <1>1, LimiterInvHolds, PTL

(* For any keys, limits and windows: in a window's length of time fewer    *)
(* than two windows' worth of attempts are allowed (isAllowed, reset and   *)
(* cleanup of RateLimiterService).                                         *)
THEOREM LimiterSound == LimiterSpec => []AtMostTwoWindows
BY LimiterInvHolds, LimiterInvSound, PTL

(* An attempt is refused only after a window's worth of them within a      *)
(* window's length of time (isAllowed of RateLimiterService).              *)
THEOREM RefusedOnlyWhenFull == LimiterSpec => []FullWhenRefusing
BY LimiterInvHolds, LimiterInvSound, PTL

(* The safety half of NotLockedOut: nothing moves the end of a window that *)
(* is open, least of all a refused attempt, and time brings it closer; an  *)
(* attempt is refused in an open window only.                              *)
WindowsRunOut ==
    [][\A k \in LimitKey :
           /\ Refuse(k) => Live(k)
           /\ Live(k) /\ store'[k] # NoEntry =>
                 /\ store'[k].left <= store[k].left
                 /\ Tick => store'[k].left < store[k].left]_limiterVars

(* Attempts, cleanups and resets never put off the end of a window         *)
(* (isAllowed of RateLimiterService keeps resetTime of an entry).          *)
THEOREM WindowsEnd == LimiterSpec => WindowsRunOut
<1>1. ASSUME LimiterTypeOK, [LimiterNext]_limiterVars, NEW k \in LimitKey,
             Live(k), store'[k] # NoEntry
      PROVE  /\ store'[k].left <= store[k].left
             /\ Tick => store'[k].left < store[k].left
  <2>1. /\ store[k] # NoEntry /\ store[k].left \in 0..Window[k]
        /\ store[k] \in [count : 1..MaxRequests[k], left : (-1)..Window[k]]
    BY <1>1, EntryType, Bounds DEF Live
  <2>2. CASE Tick
    <3>1. store'[k] = [store[k] EXCEPT !.left = store[k].left - 1]
      BY <1>1, <2>1, <2>2 DEF Tick, Older
    <3>. QED  BY <2>1, <3>1
  <2>3. ASSUME NEW j \in LimitKey, Allow(j) \/ Refuse(j)
        PROVE  store'[k].left = store[k].left
    <3>1. CASE j # k
      BY <1>1, <2>3, <3>1 DEF Allow, Refuse, LimiterTypeOK
    <3>2. CASE j = k
      <4>1. isAllowed(k).entry.left = store[k].left
        BY <1>1, <2>1 DEF isAllowed
      <4>2. store'[k] = isAllowed(k).entry
        BY <1>1, <2>3, <3>2 DEF Allow, Refuse, LimiterTypeOK
      <4>. QED  BY <4>1, <4>2
    <3>. QED  BY <3>1, <3>2
  <2>4. ASSUME NEW j \in LimitKey, reset(j) PROVE store'[k].left = store[k].left
    BY <1>1, <2>4 DEF reset, LimiterTypeOK
  <2>5. ASSUME cleanup PROVE store'[k].left = store[k].left
    BY <1>1, <2>5 DEF cleanup
  <2>6. ASSUME UNCHANGED limiterVars PROVE store'[k].left = store[k].left
    BY <2>6 DEF limiterVars
  <2>7. Tick \/ store'[k].left = store[k].left
    BY <1>1, <2>3, <2>4, <2>5, <2>6 DEF LimiterNext
  <2>. QED  BY <2>1, <2>2, <2>7
<1>2. ASSUME NEW k \in LimitKey, Refuse(k) PROVE Live(k)
  BY <1>2 DEF Refuse, isAllowed
<1>3. LimiterTypeOK /\ [LimiterNext]_limiterVars
      => [\A k \in LimitKey :
             /\ Refuse(k) => Live(k)
             /\ Live(k) /\ store'[k] # NoEntry =>
                   /\ store'[k].left <= store[k].left
                   /\ Tick => store'[k].left < store[k].left]_limiterVars
  BY <1>1, <1>2
<1>. QED  BY <1>3, LimiterTyped, PTL DEF LimiterSpec, WindowsRunOut

-----------------------------------------------------------------------------
(* The API.  What the pages and the server exchange has its type; a page   *)
(* has a request or an answer under way, not both; a request of a safe     *)
(* method carries no token; and no two pages hold, or are about to get,    *)
(* the same token.                                                         *)
PagesTyped ==
    /\ jar \in Token \cup {NoToken} /\ held \in [Page -> Token \cup {NoToken}]
    /\ request \in [Page -> Request \cup {Nothing}]
    /\ answer \in [Page -> Answer \cup {Nothing}]
    /\ tokenForm \in [Page -> {NoToken, IssuedForm}]

OneAtATime == \A p \in Page : request[p] = Nothing \/ answer[p] = Nothing

SafeCarriesNone ==
    \A p \in Page : request[p] # Nothing /\ Routes[request[p].op].method \in safeMethods
        => request[p].header = NoToken /\ request[p].cookie = NoToken

Own(p) == {held[p]} \cup (IF answer[p] = Nothing THEN {} ELSE {answer[p].body})

TokensApart == \A p, q \in Page : p # q => Own(p) \cap Own(q) \subseteq {NoToken}

PagesInv == PagesTyped /\ OneAtATime /\ SafeCarriesNone /\ TokensApart

LEMMA RequestType ==
    ASSUME PagesTyped, NEW p \in Page, request[p] # Nothing
    PROVE  /\ request[p] \in Request /\ request[p].op \in Operation
           /\ request[p].header \in Token \cup {NoToken}
           /\ request[p].cookie \in Token \cup {NoToken}
BY DEF PagesTyped, Request

LEMMA AnswerType ==
    ASSUME PagesTyped, NEW p \in Page, answer[p] # Nothing
    PROVE  /\ answer[p] \in Answer /\ answer[p].op \in Operation
           /\ answer[p].body \in Token \cup {NoToken}
           /\ answer[p].cookie \in Token \cup {NoToken}
BY DEF PagesTyped, Answer

LEMMA Unlike ==
    /\ \A a \in Answer : a # Nothing
    /\ \A q \in Request : q # Nothing
BY DEF Answer, Request, Nothing

(* Sizes of the places a token may be at, and of what is there.           *)
LEMMA Thrice ==
    ASSUME NEW S, IsFiniteSet(S)
    PROVE  IsFiniteSet(S \X (1..3)) /\ Cardinality(S \X (1..3)) = 3 * Cardinality(S)
<1>1. IsFiniteSet(1..3) /\ Cardinality(1..3) = 3
  <2>1. \A n \in Nat : IsFiniteSet(1..n) /\ Cardinality(1..n) = n
    BY FS_Interval
  <2>. QED  BY <2>1
<1>2. \A T : IsFiniteSet(T) => /\ IsFiniteSet(S \X T)
                              /\ Cardinality(S \X T) = Cardinality(S) * Cardinality(T)
  BY FS_Product
<1>3. Cardinality(S) \in Nat
  BY FS_CardinalityType
<1>4. IsFiniteSet(S \X (1..3)) /\ Cardinality(S \X (1..3)) = Cardinality(S) * Cardinality(1..3)
  BY <1>1, <1>2, Zenon
<1>. QED  BY <1>1, <1>3, <1>4

LEMMA ImageSize ==
    ASSUME NEW S, IsFiniteSet(S), NEW f, f = [x \in S |-> f[x]]
    PROVE  /\ IsFiniteSet({f[x] : x \in S})
           /\ Cardinality({f[x] : x \in S}) <= Cardinality(S)
<1>. DEFINE T == {f[x] : x \in S}
<1>1. \A t \in T : \E x \in S : f[x] = t
  OBVIOUS
<1>2. f \in [S -> T]
  OBVIOUS
<1>. HIDE DEF T
<1>3. f \in Surjection(S, T)
  BY <1>1, <1>2 DEF Surjection
<1>4. IsFiniteSet(T) /\ Cardinality(T) <= Cardinality(S)
  BY <1>3, FS_Surjection
<1>. QED  BY <1>4 DEF T

(* While a page waits for its csrf-token answer, there is a token in use   *)
(* nowhere: each page has at most three, and this one holds one.           *)
LEMMA FreshToken ==
    ASSUME PagesInv, NEW p \in Page, request[p] # Nothing, request[p].op = "csrfToken"
    PROVE  \E u \in Token : u \notin InUse
<1>. DEFINE Place == Page \X (1..3)
            First(q) == IF request[q] # Nothing THEN request[q].header
                        ELSE IF answer[q] # Nothing THEN answer[q].body ELSE NoToken
            Second(q) == IF request[q] # Nothing THEN request[q].cookie
                         ELSE IF answer[q] # Nothing THEN answer[q].cookie ELSE NoToken
            At(x) == IF x[2] = 1 THEN held[x[1]]
                     ELSE IF x[2] = 2 THEN First(x[1])
                     ELSE IF x[1] = p THEN jar ELSE Second(x[1])
            Used == {At(x) : x \in Place}
            f == [x \in Place |-> At(x)]
<1>1. IsFiniteSet(Place) /\ Cardinality(Place) = 3 * Cardinality(Page)
  BY TokensSuffice, Thrice
<1>2. request[p].header = NoToken /\ request[p].cookie = NoToken
  <2>1. Routes["csrfToken"].method \in safeMethods
    BY DEF Routes, csrfToken, Get, safeMethods
  <2>. QED  BY <2>1 DEF PagesInv, SafeCarriesNone
<1>3. NoToken \in Used
  <2>1. <<p, 2>> \in Place /\ At(<<p, 2>>) = NoToken
    BY <1>2
  <2>. QED  BY <2>1
<1>4. InUse \subseteq Used
  <2>1. jar \in Used
    <3>1. <<p, 3>> \in Place /\ At(<<p, 3>>) = jar
      OBVIOUS
    <3>. QED  BY <3>1
  <2>2. ASSUME NEW q \in Page PROVE held[q] \in Used
    <3>1. <<q, 1>> \in Place /\ At(<<q, 1>>) = held[q]
      OBVIOUS
    <3>. QED  BY <3>1
  <2>3. ASSUME NEW q \in Page PROVE First(q) \in Used
    <3>1. <<q, 2>> \in Place /\ At(<<q, 2>>) = First(q)
      OBVIOUS
    <3>. QED  BY <3>1
  <2>4. ASSUME NEW q \in Page PROVE Second(q) \in Used
    <3>1. CASE q = p
      BY <1>2, <1>3, <3>1
    <3>2. CASE q # p
      <4>1. <<q, 3>> \in Place /\ At(<<q, 3>>) = Second(q)
        BY <3>2
      <4>. QED  BY <4>1
    <3>. QED  BY <3>1, <3>2
  <2>5. ASSUME NEW q \in Page, request[q] # Nothing
        PROVE  request[q].header \in Used /\ request[q].cookie \in Used
    BY <2>3, <2>4, <2>5
  <2>6. ASSUME NEW q \in Page, answer[q] # Nothing
        PROVE  answer[q].body \in Used /\ answer[q].cookie \in Used
    <3>1. request[q] = Nothing
      BY <2>6 DEF PagesInv, OneAtATime
    <3>. QED  BY <2>3, <2>4, <2>6, <3>1
  <2>. DEFINE Held == {held[q] : q \in Page}
              Sent == {{request[q].cookie, request[q].header} : q \in {r \in Page : request[r] # Nothing}}
              Back == {{answer[q].body, answer[q].cookie} : q \in {r \in Page : answer[r] # Nothing}}
  <2>. HIDE DEF Used
  <2>7. \A A \in Sent : A \subseteq Used
    BY <2>5
  <2>8. \A A \in Back : A \subseteq Used
    BY <2>6
  <2>9. Held \subseteq Used
    BY <2>2
  <2>10. InUse = {jar} \cup Held \cup (UNION Sent) \cup (UNION Back)
    BY DEF InUse
  <2>. HIDE DEF Held, Sent, Back
  <2>11. UNION Sent \subseteq Used
    BY <2>7
  <2>12. UNION Back \subseteq Used
    BY <2>8
  <2>. QED  BY <2>1, <2>9, <2>10, <2>11, <2>12
<1>5. IsFiniteSet(Used) /\ Cardinality(Used) <= 3 * Cardinality(Page)
  <2>. HIDE DEF Place, At
  <2>1. \A x \in Place : f[x] = At(x)
    OBVIOUS
  <2>2. f = [x \in Place |-> f[x]]
    OBVIOUS
  <2>3. Used = {f[x] : x \in Place}
    BY <2>1
  <2>. HIDE DEF f, Used
  <2>. QED  BY <1>1, <2>2, <2>3, ImageSize
<1>. HIDE DEF Used
<1>6. SUFFICES ASSUME Token \subseteq Used PROVE FALSE
  BY <1>4
<1>7. /\ IsFiniteSet(Used \ {NoToken})
      /\ Cardinality(Used \ {NoToken}) = Cardinality(Used) - 1
  BY <1>3, <1>5, FS_RemoveElement
<1>8. Token \in SUBSET (Used \ {NoToken})
  BY <1>6, NoTokenIsNone
<1>9. IsFiniteSet(Token) /\ Cardinality(Token) <= Cardinality(Used) - 1
  BY <1>7, <1>8, FS_Subset
<1>. QED  BY <1>5, <1>9, TokensSuffice, FS_CardinalityType

(* An answer whose body is a token in use nowhere, or none, keeps PagesInv. *)
LEMMA AnsweringKeeps ==
    ASSUME PagesInv, NEW p \in Page, request[p] # Nothing,
           NEW by \in Gate \cup {"done", "failed"}, NEW tokens,
           tokens.body \in Token \cup {NoToken}, tokens.cookie \in Token \cup {NoToken},
           tokens.body = NoToken \/ tokens.body \notin InUse,
           AnsweredWith(p, by, tokens)
    PROVE  PagesInv'
<1>. DEFINE a == [op |-> request[p].op, by |-> by, body |-> tokens.body, cookie |-> tokens.cookie]
<1>1. /\ UNCHANGED <<jar, held, tokenForm>>
      /\ request' = [request EXCEPT ![p] = Nothing] /\ answer' = [answer EXCEPT ![p] = a]
  BY DEF AnsweredWith, browser
<1>2. PagesTyped
  BY DEF PagesInv
<1>3. a \in Answer
  BY <1>2, RequestType DEF Answer
<1>4. a # Nothing /\ a.body = tokens.body
  BY <1>3, Unlike
<1>. HIDE DEF a
<1>5. request'[p] = Nothing /\ \A q \in Page \ {p} : request'[q] = request[q]
  BY <1>1, <1>2 DEF PagesTyped
<1>6. answer'[p] = a /\ \A q \in Page \ {p} : answer'[q] = answer[q]
  BY <1>1, <1>2 DEF PagesTyped
<1>7. PagesTyped'
  BY <1>1, <1>2, <1>3 DEF PagesTyped
<1>8. OneAtATime'
  BY <1>5, <1>6 DEF PagesInv, OneAtATime
<1>9. SafeCarriesNone'
  BY <1>5 DEF PagesInv, SafeCarriesNone
<1>10. TokensApart'
  <2>1. \A q \in Page \ {p} : Own(q)' = Own(q)
    BY <1>1, <1>6 DEF Own
  <2>2. Own(p)' = {held[p], tokens.body}
    BY <1>1, <1>4, <1>6 DEF Own
  <2>3. \A q \in Page : Own(q) \subseteq InUse
    BY DEF Own, InUse
  <2>4. \A q \in Page \ {p} : held[p] \in Own(q) => held[p] = NoToken
    BY DEF PagesInv, TokensApart, Own
  <2>5. \A q \in Page \ {p} : Own(p)' \cap Own(q) \subseteq {NoToken}
    BY <2>2, <2>3, <2>4
  <2>6. \A q, r \in Page \ {p} : q # r => Own(q) \cap Own(r) \subseteq {NoToken}
    BY DEF PagesInv, TokensApart
  <2>. QED  BY <2>1, <2>5, <2>6 DEF TokensApart
<1>. QED  BY <1>7, <1>8, <1>9, <1>10 DEF PagesInv

LEMMA AnsweringPlain ==
    ASSUME PagesInv, NEW p \in Page, request[p] # Nothing,
           NEW by \in Gate \cup {"done", "failed"}, Answered(p, by)
    PROVE  PagesInv'
BY AnsweringKeeps DEF Answered

LEMMA HandleKeeps ==
    ASSUME PagesInv, NEW p \in Page, Handle(p)
    PROVE  PagesInv'
<1>1. request[p] # Nothing
  BY DEF Handle
<1>2. CASE \E by \in Gate \cup {"done", "failed"} : Answered(p, by)
  BY <1>1, <1>2, AnsweringPlain
<1>3. CASE request[p].op = "csrfToken" /\ AnsweredWith(p, "done", getCsrfToken)
  <2>1. PICK u \in Token : u \notin InUse
    BY <1>1, <1>3, FreshToken
  <2>2. getCsrfToken.body \in Token /\ getCsrfToken.body \notin InUse
        /\ getCsrfToken.cookie \in Token
    BY <2>1 DEF getCsrfToken
  <2>. QED  BY <1>1, <1>3, <2>2, AnsweringKeeps
<1>. QED  BY <1>2, <1>3 DEF Handle, Gates

(* A page stores the token of its answer: it holds no more than before.    *)
LEMMA DeliverKeeps ==
    ASSUME PagesInv, NEW p \in Page, Deliver(p)
    PROVE  PagesInv'
<1>. DEFINE a == answer[p]
            h == IF a.op = "csrfToken" THEN a.body ELSE held[p]
<1>1. a # Nothing /\ request' = request /\ answer' = [answer EXCEPT ![p] = Nothing]
  BY DEF Deliver
<1>2. PagesTyped
  BY DEF PagesInv
<1>3. held' = [held EXCEPT ![p] = h]
  BY <1>2 DEF Deliver, PagesTyped
<1>4. h \in Own(p) /\ h \in Token \cup {NoToken}
  BY <1>1, <1>2, AnswerType DEF Own, PagesTyped
<1>5. jar' \in Token \cup {NoToken}
  BY <1>1, <1>2, AnswerType DEF Deliver, PagesTyped
<1>6. tokenForm' \in [Page -> {NoToken, IssuedForm}]
  BY <1>2 DEF Deliver, PagesTyped
<1>. HIDE DEF h
<1>7. held'[p] = h /\ \A q \in Page \ {p} : held'[q] = held[q]
  BY <1>2, <1>3 DEF PagesTyped
<1>8. answer'[p] = Nothing /\ \A q \in Page \ {p} : answer'[q] = answer[q]
  BY <1>1, <1>2 DEF PagesTyped
<1>9. PagesTyped'
  BY <1>1, <1>2, <1>3, <1>4, <1>5, <1>6 DEF PagesTyped
<1>10. OneAtATime' /\ SafeCarriesNone'
  BY <1>1, <1>8 DEF PagesInv, OneAtATime, SafeCarriesNone
<1>11. TokensApart'
  <2>1. \A q \in Page : Own(q)' \subseteq Own(q)
    BY <1>4, <1>7, <1>8 DEF Own
  <2>. QED  BY <2>1 DEF PagesInv, TokensApart
<1>. QED  BY <1>9, <1>10, <1>11 DEF PagesInv

LEMMA SendKeeps ==
    ASSUME PagesInv, NEW p \in Page, NEW op \in Operation, Send(p, op)
    PROVE  PagesInv'
<1>. DEFINE r == IF Routes[op].method \in safeMethods
                 THEN [op |-> op, header |-> NoToken, cookie |-> NoToken]
                 ELSE [op |-> op, header |-> held[p], cookie |-> jar]
<1>1. /\ answer[p] = Nothing /\ request' = [request EXCEPT ![p] = r]
      /\ UNCHANGED <<jar, held, tokenForm, answer>>
  BY DEF Send, Idle, browser
<1>2. PagesTyped
  BY DEF PagesInv
<1>3. r \in Request /\ r.op = op
  BY <1>2 DEF PagesTyped, Request
<1>4. Routes[op].method \in safeMethods => r.header = NoToken /\ r.cookie = NoToken
  OBVIOUS
<1>. HIDE DEF r
<1>5. request'[p] = r /\ \A q \in Page \ {p} : request'[q] = request[q]
  BY <1>1, <1>2 DEF PagesTyped
<1>6. PagesTyped'
  BY <1>1, <1>2, <1>3 DEF PagesTyped
<1>7. OneAtATime'
  BY <1>1, <1>5 DEF PagesInv, OneAtATime
<1>8. SafeCarriesNone'
  BY <1>3, <1>4, <1>5 DEF PagesInv, SafeCarriesNone
<1>9. TokensApart'
  BY <1>1 DEF PagesInv, TokensApart, Own
<1>. QED  BY <1>6, <1>7, <1>8, <1>9 DEF PagesInv

LEMMA PagesInitInv == ApiInit => PagesInv
BY DEF ApiInit, PagesInv, PagesTyped, OneAtATime, SafeCarriesNone, TokensApart, Own

(* The pages are as they were, whatever becomes of the windows.            *)
LEMMA PagesStay == PagesInv /\ UNCHANGED <<browser, request, answer>> => PagesInv'
BY DEF browser, PagesInv, PagesTyped, OneAtATime, SafeCarriesNone, TokensApart, Own

LEMMA PagesStepInv == PagesInv /\ [ApiNext]_apiVars => PagesInv'
<1>. SUFFICES ASSUME PagesInv, [ApiNext]_apiVars PROVE PagesInv'
  OBVIOUS
<1>1. CASE UNCHANGED apiVars
  BY <1>1, PagesStay DEF apiVars, browser
<1>2. CASE ApiTick
  BY <1>2, PagesStay DEF ApiTick
<1>3. CASE ExpireCookie
  BY <1>3 DEF ExpireCookie, PagesInv, PagesTyped, OneAtATime, SafeCarriesNone, TokensApart, Own
<1>4. ASSUME NEW p \in Page, RefuseCsrf(p) PROVE PagesInv'
  BY <1>4, AnsweringPlain DEF RefuseCsrf, Gate
<1>5. ASSUME NEW p \in Page, RefuseLimit(p) PROVE PagesInv'
  BY <1>5, AnsweringPlain DEF RefuseLimit, Gate
<1>6. ASSUME NEW p \in Page, Handle(p) PROVE PagesInv'
  BY <1>6, HandleKeeps
<1>7. ASSUME NEW p \in Page, Deliver(p) PROVE PagesInv'
  BY <1>7, DeliverKeeps
<1>8. ASSUME NEW p \in Page, NEW op \in Operation, Send(p, op) PROVE PagesInv'
  BY <1>8, SendKeeps
<1>. QED  BY <1>1, <1>2, <1>3, <1>4, <1>5, <1>6, <1>7, <1>8 DEF ApiNext

LEMMA PagesInvHolds == ApiSpec => []PagesInv
BY PagesInitInv, PagesStepInv, PTL DEF ApiSpec

LEMMA ApiStepLimits == PagesInv /\ [ApiNext]_apiVars => [LimiterNext]_limiterVars
<1>. SUFFICES ASSUME PagesInv, [ApiNext]_apiVars PROVE [LimiterNext]_limiterVars
  OBVIOUS
<1>1. \A p \in Page : request[p] # Nothing =>
          Routes[request[p].op].limit \in LimitKey \cup {"none"}
  BY RequestType, OperationsLimited DEF PagesInv
<1>2. CASE UNCHANGED limiterVars
  BY <1>2
<1>3. CASE ApiTick
  BY <1>3 DEF ApiTick, LimiterNext
<1>4. CASE ExpireCookie
  BY <1>2, <1>4 DEF ExpireCookie, limiterVars
<1>5. ASSUME NEW p \in Page, RefuseCsrf(p) PROVE [LimiterNext]_limiterVars
  BY <1>5 DEF RefuseCsrf
<1>6. ASSUME NEW p \in Page, RefuseLimit(p) PROVE [LimiterNext]_limiterVars
  BY <1>1, <1>6 DEF RefuseLimit, LimiterNext
<1>7. ASSUME NEW p \in Page, Handle(p) PROVE [LimiterNext]_limiterVars
  BY <1>1, <1>7 DEF Handle, LimiterNext
<1>8. ASSUME NEW p \in Page, Deliver(p) PROVE [LimiterNext]_limiterVars
  BY <1>8 DEF Deliver, limiterVars
<1>9. ASSUME NEW p \in Page, NEW op \in Operation, Send(p, op) PROVE [LimiterNext]_limiterVars
  BY <1>9 DEF Send, limiterVars
<1>. QED  BY <1>2, <1>3, <1>4, <1>5, <1>6, <1>7, <1>8, <1>9 DEF ApiNext, apiVars, limiterVars

(* Every step of the API is a step of the limiter or leaves it alone: the  *)
(* requests reach the store through RateLimitGuard only, each with the key *)
(* of its own route.                                                       *)
THEOREM ApiLimits == ApiSpec => LimiterSpec
<1>1. ApiInit => LimiterInit
  BY DEF ApiInit
<1>. QED  BY <1>1, ApiStepLimits, PagesInvHolds, PTL DEF ApiSpec, LimiterSpec

(* What the store and the exchanges of the pages are, in every state; for  *)
(* one, a csrf-token answer carries a token and not the lack of one.       *)
THEOREM ApiTyped == ApiSpec => []ApiTypeOK
<1>1. LimiterTypeOK /\ PagesInv => ApiTypeOK
  BY DEF PagesInv, PagesTyped, ApiTypeOK
<1>. QED  BY <1>1, ApiLimits, LimiterTyped, PagesInvHolds, PTL

(* The limits bound the attempts on the API, however requests and answers  *)
(* of the pages overtake each other, and refuse none that is due.          *)
THEOREM ApiLimited == ApiSpec => [](AtMostTwoWindows /\ FullWhenRefusing)
BY ApiLimits, LimiterSound, RefusedOnlyWhenFull, PTL

(* All pages share the cookie, so at most one of them holds the token it   *)
(* has: whatever the others send is refused until they fetch a new one.    *)
OnePageMayPost ==
    \A p, q \in Page : jar # NoToken /\ held[p] = jar /\ held[q] = jar => p = q

THEOREM OneAtTheCookie == ApiSpec => []OnePageMayPost
<1>1. PagesInv => OnePageMayPost
  BY DEF PagesInv, TokensApart, Own, OnePageMayPost
<1>. QED  BY <1>1, PagesInvHolds, PTL

(* A csrf-token answer carries one token, twice.                           *)
OneTokenTwice ==
    \A p \in Page : answer[p] # Nothing /\ answer[p].op = "csrfToken" =>
        answer[p].body \in Token /\ answer[p].cookie = answer[p].body

LEMMA TokenRoute ==
    LET r == Routes["csrfToken"]
    IN  r.method \in safeMethods /\ r.limit = "none" /\ r.throws = {} /\ Gates(r) \cap {"jwt", "pipe"} = {}
<1>1. Routes["csrfToken"] = csrfToken
  BY DEF Routes
<1>. QED  BY <1>1 DEF csrfToken, Get, safeMethods, Gates

(* Nothing refuses a request for a token, and its handler answers it.      *)
LEMMA AnswersKeepToken ==
    ASSUME PagesInv, OneTokenTwice, NEW p \in Page,
           RefuseCsrf(p) \/ RefuseLimit(p) \/ Handle(p)
    PROVE  OneTokenTwice'
<1>1. request[p] # Nothing /\ request[p] \in Request /\ PagesTyped
  BY RequestType DEF RefuseCsrf, RefuseLimit, Handle, PagesInv
<1>2. PICK by \in Gate \cup {"done", "failed"}, tokens \in {getCsrfToken, [body |-> NoToken, cookie |-> NoToken]} :
          /\ AnsweredWith(p, by, tokens)
          /\ request[p].op = "csrfToken" => tokens = getCsrfToken
  <2>1. CASE request[p].op = "csrfToken"
    BY <1>1, <2>1, TokenRoute DEF RefuseCsrf, RefuseLimit, Handle, csrfPasses
  <2>2. CASE request[p].op # "csrfToken"
    BY <2>2 DEF RefuseCsrf, RefuseLimit, Handle, Answered, Gates, Gate
  <2>. QED  BY <2>1, <2>2
<1>3. answer' = [answer EXCEPT ![p] = [op |-> request[p].op, by |-> by,
                                       body |-> tokens.body, cookie |-> tokens.cookie]]
  BY <1>2 DEF AnsweredWith
<1>4. ASSUME request[p].op = "csrfToken"
      PROVE  tokens.body \in Token /\ tokens.cookie = tokens.body
  <2>1. \E u \in Token : u \notin InUse
    BY <1>1, <1>4, FreshToken
  <2>2. getCsrfToken.body \in Token /\ getCsrfToken.cookie = getCsrfToken.body
    BY <2>1 DEF getCsrfToken
  <2>. QED  BY <1>2, <1>4, <2>2
<1>5. answer'[p].op = request[p].op /\ answer'[p].body = tokens.body /\ answer'[p].cookie = tokens.cookie
  BY <1>1, <1>3 DEF PagesTyped
<1>6. \A q \in Page \ {p} : answer'[q] = answer[q]
  BY <1>1, <1>3 DEF PagesTyped
<1>. QED  BY <1>4, <1>5, <1>6 DEF OneTokenTwice

LEMMA OneTokenStep == PagesInv /\ OneTokenTwice /\ [ApiNext]_apiVars => OneTokenTwice'
<1>. SUFFICES ASSUME PagesInv, OneTokenTwice, [ApiNext]_apiVars PROVE OneTokenTwice'
  OBVIOUS
<1>1. CASE answer' = answer
  BY <1>1 DEF OneTokenTwice
<1>2. ASSUME NEW p \in Page, RefuseCsrf(p) \/ RefuseLimit(p) \/ Handle(p) PROVE OneTokenTwice'
  BY <1>2, AnswersKeepToken
<1>3. ASSUME NEW p \in Page, Deliver(p) PROVE OneTokenTwice'
  BY <1>3 DEF Deliver, OneTokenTwice, PagesInv, PagesTyped
<1>4. [ApiNext]_apiVars /\ answer' # answer
      => \E p \in Page : RefuseCsrf(p) \/ RefuseLimit(p) \/ Handle(p) \/ Deliver(p)
  BY DEF ApiNext, ApiTick, ExpireCookie, Send, apiVars
<1>. QED  BY <1>1, <1>2, <1>3, <1>4

(* The safety half of PostsGetThrough: an answer to csrf-token leaves the  *)
(* page with the token of the cookie; while the others leave the cookie    *)
(* alone, the two part only when the cookie goes; and what the page sends  *)
(* while it holds the token of the cookie passes the guard.                *)
FetchedTokenServes ==
    [][\A p \in Page :
           /\ Deliver(p) /\ answer[p].op = "csrfToken" => jar' \in Token /\ held'[p] = jar'
           /\ held[p] = jar /\ (jar' # jar => Deliver(p)) => held'[p] = jar' \/ jar' = NoToken
           /\ \A op \in Operation : Send(p, op) /\ held[p] = jar /\ jar # NoToken
                  => csrfPasses(request'[p])]_apiVars

(* A token that a page fetches serves it until another page fetches one,   *)
(* whatever answers were still under way (csrf.guard.ts and getCsrfToken). *)
THEOREM FetchedTokensServe == ApiSpec => FetchedTokenServes
<1>1. ASSUME PagesInv, OneTokenTwice, NEW p \in Page, Deliver(p)
      PROVE  /\ answer[p].op = "csrfToken" => jar' \in Token /\ held'[p] = jar'
             /\ held[p] = jar => held'[p] = jar' \/ jar' = NoToken
  <2>1. held \in [Page -> Token \cup {NoToken}] /\ answer[p] # Nothing
    BY <1>1 DEF PagesInv, PagesTyped, Deliver
  <2>2. CASE answer[p].op = "csrfToken"
    <3>1. answer[p].body \in Token /\ answer[p].cookie = answer[p].body
      BY <1>1, <2>1, <2>2 DEF OneTokenTwice
    <3>2. jar' = answer[p].cookie /\ held'[p] = answer[p].body
      BY <1>1, <2>1, <2>2 DEF Deliver
    <3>. QED  BY <3>1, <3>2
  <2>3. CASE answer[p].op # "csrfToken"
    BY <1>1, <2>1, <2>3 DEF Deliver
  <2>. QED  BY <2>2, <2>3
<1>2. ASSUME PagesInv, [ApiNext]_apiVars, NEW p \in Page, ~Deliver(p) PROVE held'[p] = held[p]
  <2>1. held \in [Page -> Token \cup {NoToken}]
    BY <1>2 DEF PagesInv, PagesTyped
  <2>2. ASSUME NEW q \in Page, Deliver(q) PROVE held'[p] = held[p]
    BY <1>2, <2>1, <2>2 DEF Deliver
  <2>3. ASSUME ~\E q \in Page : Deliver(q) PROVE held' = held
    BY <1>2, <2>3 DEF ApiNext, ApiTick, ExpireCookie, Send, RefuseCsrf, RefuseLimit, Handle,
                      Answered, AnsweredWith, browser, apiVars
  <2>. QED  BY <2>2, <2>3
<1>3. ASSUME PagesInv, NEW p \in Page, NEW op \in Operation, Send(p, op), held[p] = jar, jar # NoToken
      PROVE  csrfPasses(request'[p])
  <2>1. request'[p] = IF Routes[op].method \in safeMethods
                      THEN [op |-> op, header |-> NoToken, cookie |-> NoToken]
                      ELSE [op |-> op, header |-> held[p], cookie |-> jar]
    BY <1>3 DEF Send, PagesInv, PagesTyped
  <2>. QED  BY <1>3, <2>1 DEF csrfPasses
<1>4. PagesInv /\ OneTokenTwice /\ [ApiNext]_apiVars
      => [\A p \in Page :
             /\ Deliver(p) /\ answer[p].op = "csrfToken" => jar' \in Token /\ held'[p] = jar'
             /\ held[p] = jar /\ (jar' # jar => Deliver(p)) => held'[p] = jar' \/ jar' = NoToken
             /\ \A op \in Operation : Send(p, op) /\ held[p] = jar /\ jar # NoToken
                    => csrfPasses(request'[p])]_apiVars
  BY <1>1, <1>2, <1>3
<1>5. ApiInit => OneTokenTwice
  BY DEF ApiInit, OneTokenTwice
<1>. QED  BY <1>4, <1>5, OneTokenStep, PagesInvHolds, PTL DEF ApiSpec, FetchedTokenServes

(* A page refreshes with the token its login gave out, and is refused.     *)
RefreshStopped ==
    \A p \in Page :
        /\ request[p] # Nothing /\ request[p].op = "refreshToken" => tokenForm[p] = IssuedForm
        /\ answer[p] # Nothing /\ answer[p].op = "refreshToken" => answer[p].by \in Gate

(* "Refreshes an expired access token using a valid refresh token"         *)
(* (auth.controller.ts:161) never happens: whatever the limits, guards and *)
(* tokens, no request of a page to refresh reaches the handler, as login   *)
(* gives out what RefreshTokenDto does not take.                           *)
NeverRefreshed ==
    \A p \in Page :
        answer[p] # Nothing /\ answer[p].op = "refreshToken" => answer[p].by \notin {"done", "failed"}

LEMMA StoppedByGate ==
    ASSUME PagesTyped, RefreshStopped, NEW p \in Page, RefuseCsrf(p) \/ RefuseLimit(p) \/ Handle(p)
    PROVE  RefreshStopped'
<1>1. request[p] # Nothing
  BY DEF RefuseCsrf, RefuseLimit, Handle
<1>2. PICK by, tokens : /\ AnsweredWith(p, by, tokens)
                        /\ request[p].op = "refreshToken" => by \in Gate
  <2>1. CASE RefuseCsrf(p) \/ RefuseLimit(p)
    BY <2>1 DEF RefuseCsrf, RefuseLimit, Answered, Gate
  <2>2. CASE Handle(p) /\ request[p].op # "refreshToken"
    BY <2>2 DEF Handle, Answered
  <2>3. CASE Handle(p) /\ request[p].op = "refreshToken"
    <3>1. ~dtoMayAccept(request[p].op, tokenForm[p])
      BY <1>1, <2>3 DEF RefreshStopped, IssuedForm, dtoMayAccept
    <3>. QED  BY <2>3, <3>1 DEF Handle, Answered, Gates
  <2>. QED  BY <2>1, <2>2, <2>3
<1>3. /\ request' = [request EXCEPT ![p] = Nothing] /\ tokenForm' = tokenForm
      /\ answer' = [answer EXCEPT ![p] = [op |-> request[p].op, by |-> by,
                                          body |-> tokens.body, cookie |-> tokens.cookie]]
  BY <1>2 DEF AnsweredWith, browser
<1>4. request'[p] = Nothing /\ answer'[p].op = request[p].op /\ answer'[p].by = by
  BY <1>3 DEF PagesTyped
<1>5. \A q \in Page \ {p} : request'[q] = request[q] /\ answer'[q] = answer[q]
  BY <1>3 DEF PagesTyped
<1>. QED  BY <1>2, <1>3, <1>4, <1>5 DEF RefreshStopped

LEMMA RefreshStoppedStep == PagesTyped /\ RefreshStopped /\ [ApiNext]_apiVars => RefreshStopped'
<1>. SUFFICES ASSUME PagesTyped, RefreshStopped, [ApiNext]_apiVars PROVE RefreshStopped'
  OBVIOUS
<1>1. CASE UNCHANGED <<request, answer, tokenForm>>
  BY <1>1 DEF RefreshStopped
<1>2. ASSUME NEW p \in Page, RefuseCsrf(p) \/ RefuseLimit(p) \/ Handle(p) PROVE RefreshStopped'
  BY <1>2, StoppedByGate
<1>3. ASSUME NEW p \in Page, Deliver(p) PROVE RefreshStopped'
  <2>1. answer'[p] = Nothing /\ \A q \in Page \ {p} : answer'[q] = answer[q]
    BY <1>3 DEF Deliver, PagesTyped
  <2>2. \A q \in Page : tokenForm'[q] \in {tokenForm[q], IssuedForm}
    BY <1>3 DEF Deliver, PagesTyped
  <2>3. request' = request
    BY <1>3 DEF Deliver
  <2>. QED  BY <2>1, <2>2, <2>3 DEF RefreshStopped
<1>4. ASSUME NEW p \in Page, NEW op \in Operation, Send(p, op) PROVE RefreshStopped'
  <2>1. tokenForm' = tokenForm /\ answer' = answer
    BY <1>4 DEF Send, browser
  <2>2. request'[p].op = op /\ \A q \in Page \ {p} : request'[q] = request[q]
    BY <1>4 DEF Send, PagesTyped
  <2>3. op = "refreshToken" => tokenForm[p] = IssuedForm
    BY <1>4 DEF Send, PagesTyped
  <2>. QED  BY <2>1, <2>2, <2>3 DEF RefreshStopped
<1>. QED  BY <1>1, <1>2, <1>3, <1>4 DEF ApiNext, ApiTick, ExpireCookie, browser, apiVars

(* The refresh token that login of AuthController gives out is refused by  *)
(* the pipe of its refreshToken, if no guard refuses the request before.   *)
THEOREM NoTokenRefreshes == ApiSpec => []NeverRefreshed
<1>1. ApiInit => RefreshStopped
  BY DEF ApiInit, RefreshStopped
<1>2. PagesInv => PagesTyped
  BY DEF PagesInv
<1>3. RefreshStopped => NeverRefreshed
  BY DEF RefreshStopped, NeverRefreshed, Gate
<1>. QED  BY <1>1, <1>2, <1>3, RefreshStoppedStep, PagesInvHolds, PTL DEF ApiSpec
-----------------------------------------------------------------------------
(* The answers.  What may be thrown, and that no handler is answered       *)
(* like a gate.                                                            *)
Thrown == {ErrorNamed(n) : n \in {"QueryFailedError", "Error"}}
    \cup {HttpException(s) : s \in {400, 401, 404, 500, 503}}
    \cup {DomainException(c) : c \in {"USER_ALREADY_EXISTS", "USER_NOT_FOUND", "COURSE_NOT_FOUND"}}
Expected(r) == r.throws \subseteq Thrown /\ r.ok \subseteq {200, 201, 204}

LEMMA RoutesExpected == \A op \in DOMAIN Routes : Expected(Routes[op])
<1>1. /\ Expected(csrfToken) /\ Expected(getPasswordPolicy) /\ Expected(getProfile)
      /\ Expected(logout) /\ Expected(verifyToken) /\ Expected(checkPasswordStrength)
      /\ Expected(clearAccessToken) /\ Expected(clearRefreshToken) /\ Expected(getRetentionPolicies)
      /\ Expected(liveness) /\ Expected(getHello) /\ Expected(contractReads) /\ Expected(clearCacheRoute)
  BY DEF Expected, csrfToken, getPasswordPolicy, getProfile, logout, verifyToken,
         checkPasswordStrength, clearAccessToken, clearRefreshToken, getRetentionPolicies, liveness,
         getHello, contractReads, clearCacheRoute, Get, Post, PostOk, Delete
<1>2. Database \subseteq Thrown
  BY DEF Database, Thrown
<1>3. /\ Expected(login) /\ Expected(register) /\ Expected(refreshToken)
      /\ Expected(forgotPassword) /\ Expected(resetPassword) /\ Expected(verifyEmail)
      /\ Expected(updatePassword)
  BY <1>2 DEF Expected, Thrown, login, register, refreshToken, forgotPassword, resetPassword,
         verifyEmail, updatePassword, Get, Post, PostOk
<1>4. Expected(setup) /\ Expected(verify) /\ Expected(disable)
  BY <1>2 DEF Expected, Thrown, setup, verify, disable, Get, Post
<1>5. /\ Expected(listCourses) /\ Expected(getCourse) /\ Expected(listUsers) /\ Expected(getUser)
      /\ Expected(exportData) /\ Expected(deleteUserData) /\ Expected(applyRetentionPolicies)
      /\ Expected(checkHealth) /\ Expected(readiness)
  BY <1>2 DEF Expected, Thrown, listCourses, getCourse, listUsers, getUser, exportData,
         deleteUserData, applyRetentionPolicies, checkHealth, readiness, Get, Delete
<1>6. Expected(contractValidations) /\ Expected(reloadSpecificationRoute)
  BY DEF Expected, Thrown, contractValidations, reloadSpecificationRoute, Get, Post
<1>. QED  BY <1>1, <1>3, <1>4, <1>5, <1>6 DEF Routes

(* The statuses of the filter.                                             *)
LEMMA Caught ==
    /\ \A s \in {400, 401, 403, 404, 500, 503} : catch(HttpException(s)) = s
    /\ catch(ErrorNamed("QueryFailedError")) = 400 /\ catch(ErrorNamed("Error")) = 500
    /\ catch(DomainException("USER_ALREADY_EXISTS")) = 409
    /\ catch(DomainException("USER_NOT_FOUND")) = 404
    /\ catch(DomainException("COURSE_NOT_FOUND")) = 400
    /\ catch(RateLimitRefusal) = 429
BY DEF catch, HttpException, ErrorNamed, DomainException, RateLimitRefusal, mapDomainExceptionToStatus

LEMMA RefusalStatus ==
    /\ catch(Refusal["csrf"]) = 403 /\ catch(Refusal["limit"]) = 429
    /\ catch(Refusal["jwt"]) = 401 /\ catch(Refusal["pipe"]) = 400
BY Caught DEF Refusal, CsrfRefusal, JwtRefusal, PipeRefusal

(* An answer is that of a gate on the way, of a failure or of the handler. *)
AnswerAccounted ==
    call.stage = 6 =>
        \/ call.by \in Gates(Routes[call.op]) /\ call.status = catch(Refusal[call.by])
        \/ call.by = "failure" /\ \E e \in Routes[call.op].throws : call.status = catch(e)
        \/ call.by = "success" /\ call.status \in Routes[call.op].ok

CallTyped ==
    call \in [stage : 0..6, op : DOMAIN Routes \cup {"none"},
              by : Gate \cup {"failure", "success", "none"}, status : {0} \cup 200..599]

PipelineInv == CallTyped /\ (call.stage # 0 => call.op \in DOMAIN Routes) /\ AnswerAccounted

LEMMA FailureStatus == \A e \in Thrown : catch(e) \in {400, 401, 404, 409, 500, 503}
BY Caught DEF Thrown

LEMMA Answering ==
    ASSUME CallTyped, call.op \in DOMAIN Routes, NEW by \in Gate \cup {"failure", "success"},
           NEW s \in 200..599, AnswerIs(by, s),
           \/ by \in Gates(Routes[call.op]) /\ s = catch(Refusal[by])
           \/ by = "failure" /\ \E e \in Routes[call.op].throws : s = catch(e)
           \/ by = "success" /\ s \in Routes[call.op].ok
    PROVE  PipelineInv'
<1>1. call' = [stage |-> 6, op |-> call.op, by |-> by, status |-> s]
  BY DEF CallTyped, AnswerIs
<1>2. CallTyped'
  BY <1>1 DEF CallTyped
<1>. QED  BY <1>1, <1>2 DEF PipelineInv, AnswerAccounted

LEMMA PipelineStep == PipelineInv /\ [PipelineNext]_call => PipelineInv'
<1>. SUFFICES ASSUME PipelineInv, [PipelineNext]_call PROVE PipelineInv'
  OBVIOUS
<1>1. ASSUME NEW op \in DOMAIN Routes, ArriveRequest(op) PROVE PipelineInv'
  <2>1. call' = [stage |-> 1, op |-> op, by |-> "none", status |-> 0]
    BY <1>1 DEF ArriveRequest, NoCall
  <2>. QED  BY <2>1 DEF PipelineInv, CallTyped, AnswerAccounted
<1>2. Arrived # {} => call.stage \in 1..5 /\ call.op \in DOMAIN Routes
  BY DEF Arrived, PipelineInv
<1>3. CASE PassGate
  <2>1. call.stage \in 1..4
    BY <1>2, <1>3 DEF PassGate, Here, Stages
  <2>2. call' = [stage |-> call.stage + 1, op |-> call.op, by |-> call.by, status |-> call.status]
    BY <1>3 DEF PassGate, PipelineInv, CallTyped
  <2>. QED  BY <1>2, <1>3, <2>1, <2>2 DEF PassGate, PipelineInv, CallTyped, AnswerAccounted
<1>4. CASE RefuseAtGate
  <2>1. PICK g \in Gate : g = Here /\ g \in Gates(Routes[call.op]) /\ AnswerIs(g, catch(Refusal[g]))
    BY <1>4 DEF RefuseAtGate, Gates
  <2>2. catch(Refusal[g]) \in 200..599
    BY RefusalStatus DEF Gate
  <2>. QED  BY <1>2, <1>4, <2>1, <2>2, Answering DEF RefuseAtGate, PipelineInv
<1>5. ASSUME NEW e, HandlerFails(e) PROVE PipelineInv'
  <2>1. e \in Routes[call.op].throws /\ AnswerIs("failure", catch(e)) /\ call.op \in DOMAIN Routes
    BY <1>2, <1>5 DEF HandlerFails
  <2>2. catch(e) \in 200..599
    BY <2>1, RoutesExpected, FailureStatus DEF Expected
  <2>. QED  BY <2>1, <2>2, Answering DEF PipelineInv
<1>6. ASSUME NEW s, HandlerSucceeds(s) PROVE PipelineInv'
  <2>1. s \in Routes[call.op].ok /\ AnswerIs("success", s) /\ call.op \in DOMAIN Routes
    BY <1>2, <1>6 DEF HandlerSucceeds
  <2>2. s \in 200..599
    BY <2>1, RoutesExpected DEF Expected
  <2>. QED  BY <2>1, <2>2, Answering DEF PipelineInv
<1>7. CASE AnswerTaken
  <2>1. call' = [stage |-> 0, op |-> "none", by |-> "none", status |-> 0]
    BY <1>7 DEF AnswerTaken, NoCall
  <2>. QED  BY <2>1 DEF PipelineInv, CallTyped, AnswerAccounted
<1>8. CASE UNCHANGED call
  BY <1>8 DEF PipelineInv, CallTyped, AnswerAccounted
<1>. QED  BY <1>1, <1>3, <1>4, <1>5, <1>6, <1>7, <1>8 DEF PipelineNext

LEMMA PipelineInvHolds == PipelineSpec => []PipelineInv
<1>1. PipelineInit => PipelineInv
  BY DEF PipelineInit, NoCall, PipelineInv, CallTyped, AnswerAccounted
<1>. QED  BY <1>1, PipelineStep, PTL DEF PipelineSpec

THEOREM PipelineTyped == PipelineSpec => []PipelineTypeOK
<1>1. PipelineInv => PipelineTypeOK
  BY DEF PipelineInv, CallTyped, PipelineTypeOK
<1>. QED  BY <1>1, PipelineInvHolds, PTL

(* A client knows from the status alone what refused its request: no       *)
(* failure of any handler is answered with a gate's status, nor a refusal  *)
(* with one of success.                                                    *)
THEOREM StatusIsTelling == PipelineSpec => []StatusTellsGate
<1>1. PipelineInv => StatusTellsGate
  <2>. SUFFICES ASSUME PipelineInv, call.stage = 6
                PROVE  /\ call.status = 403 <=> call.by = "csrf"
                       /\ call.status = 429 <=> call.by = "limit"
                       /\ call.status \in 200..299 <=> call.by = "success"
    BY DEF StatusTellsGate
  <2>1. Expected(Routes[call.op])
    BY RoutesExpected DEF PipelineInv
  <2>2. CASE call.by \in Gates(Routes[call.op]) /\ call.status = catch(Refusal[call.by])
    BY <2>2, RefusalStatus DEF Gates, Gate
  <2>3. CASE call.by = "failure" /\ \E e \in Routes[call.op].throws : call.status = catch(e)
    BY <2>1, <2>3, FailureStatus DEF Expected
  <2>4. CASE call.by = "success" /\ call.status \in Routes[call.op].ok
    BY <2>1, <2>4 DEF Expected
  <2>. QED  BY <2>2, <2>3, <2>4 DEF PipelineInv, AnswerAccounted
<1>. QED  BY <1>1, PipelineInvHolds, PTL
=============================================================================
