------------------------- MODULE ConnectionPoolProofs -------------------------
(***************************************************************************)
(* The circuit breaker, for every number of callers, threshold, timeout    *)
(* and pool size: its invariants, and that it implements BreakerContract.  *)
(*                                                                         *)
(* StateMatchesCount and HalfOpenIsRested need each other: that an open    *)
(* circuit has a time of failure is what makes a probe start only after    *)
(* ResetTimeout, and that no failure is recorded in a half open circuit    *)
(* without opening it follows from its full count.                         *)
(***************************************************************************)
EXTENDS ConnectionPoolManager, TLAPS

Invariant == TypeOK /\ StateMatchesCount /\ HalfOpenIsRested

LEMMA Bound ==
    ASSUME NEW n \in 0..FailureThreshold
    PROVE  /\ Smaller(n + 1, FailureThreshold) \in 1..FailureThreshold
           /\ Smaller(n + 1, FailureThreshold) < FailureThreshold <=> n + 1 < FailureThreshold
BY ThresholdPositive DEF Smaller

LEMMA InitInvariant == Init => Invariant
BY ThresholdPositive, TimeoutPositive, NullIsNoTime
DEF Init, Invariant, TypeOK, StateMatchesCount, HalfOpenIsRested, CircuitState, Phase

(* A call that only moves on leaves the breaker as it is.                  *)
LEMMA MovesOn ==
    ASSUME Invariant, NEW c \in Call, NEW p \in Phase, Goto(c, p),
           UNCHANGED circuit, streak' \in 0..FailureThreshold
    PROVE  Invariant'
BY DEF Invariant, TypeOK, StateMatchesCount, HalfOpenIsRested, Goto, circuit

LEMMA NextInvariant == Invariant /\ [Next]_vars => Invariant'
<1> SUFFICES ASSUME Invariant, [Next]_vars PROVE Invariant'
  OBVIOUS
<1> USE DEF Invariant
<1>1. CASE Tick
  BY <1>1, TimeoutPositive, NullIsNoTime
  DEF Tick, TypeOK, StateMatchesCount, HalfOpenIsRested
<1>2. ASSUME NEW c \in Call, Refuse(c) PROVE Invariant'
  BY <1>2 DEF Refuse, vars, TypeOK, StateMatchesCount, HalfOpenIsRested
<1>3. ASSUME NEW c \in Call, Admit(c) PROVE Invariant'
  <2>1. circuitState = "OPEN" => sinceFailure = ResetTimeout
    BY <1>3, ThresholdPositive DEF Admit, shouldAttemptReset, TypeOK, StateMatchesCount
  <2>2. TypeOK'
    BY <1>3 DEF Admit, Goto, TypeOK, CircuitState, Phase
  <2>3. StateMatchesCount'
    BY <1>3 DEF Admit, StateMatchesCount
  <2>4. HalfOpenIsRested'
    BY <1>3, <2>1 DEF Admit, HalfOpenIsRested
  <2> QED BY <2>2, <2>3, <2>4
<1>4. ASSUME NEW c \in Call, Connect(c) PROVE Invariant'
  BY <1>4, MovesOn DEF Connect, circuit, TypeOK, Phase
<1>5. ASSUME NEW c \in Call, Fails(c) PROVE Invariant'
  <2>1. /\ failureCount' \in 1..FailureThreshold
        /\ failureCount' < FailureThreshold <=> failureCount + 1 < FailureThreshold
    BY <1>5, Bound DEF Fails, recordFailure, TypeOK
  <2>2. streak' \in 0..FailureThreshold
    BY <1>5, Bound DEF Fails, TypeOK
  <2>3. TypeOK'
    BY <1>5, <2>1, <2>2, TimeoutPositive
    DEF Fails, recordFailure, Goto, TypeOK, CircuitState, Phase
  <2>4. StateMatchesCount'
    BY <1>5, <2>1, ThresholdPositive, NullIsNoTime
    DEF Fails, recordFailure, TypeOK, StateMatchesCount
  <2>5. circuitState' # "HALF_OPEN"
    BY <1>5, ThresholdPositive DEF Fails, recordFailure, TypeOK, StateMatchesCount
  <2> QED BY <2>3, <2>4, <2>5 DEF HalfOpenIsRested
<1>6. ASSUME NEW c \in Call, Succeeds(c) PROVE Invariant'
  <2>1. CASE circuitState = "HALF_OPEN"
    BY <1>6, <2>1, ThresholdPositive
    DEF Succeeds, reset, Goto, TypeOK, StateMatchesCount, HalfOpenIsRested, CircuitState, Phase
  <2>2. CASE circuitState # "HALF_OPEN"
    BY <1>6, <2>2, MovesOn, ThresholdPositive DEF Succeeds, circuit, Phase
  <2> QED BY <2>1, <2>2
<1>7. ASSUME NEW c \in Call, Release(c) PROVE Invariant'
  BY <1>7, MovesOn DEF Release, circuit, TypeOK, Phase
<1>8. CASE UNCHANGED vars
  BY <1>8 DEF vars, TypeOK, StateMatchesCount, HalfOpenIsRested
<1> QED BY <1>1, <1>2, <1>3, <1>4, <1>5, <1>6, <1>7, <1>8 DEF Next

LEMMA InvariantHolds == Spec => []Invariant
BY InitInvariant, NextInvariant, PTL DEF Spec

(* The fields of the breaker stay in their ranges.                         *)
THEOREM BreakerTyped == Spec => []TypeOK
BY InvariantHolds, PTL DEF Invariant

(* However calls let through in one state of the circuit end in another,   *)
(* the circuit is closed exactly while the count is below the threshold,   *)
(* and a time of failure is kept exactly while a failure is counted.       *)
THEOREM BreakerConsistent == Spec => []StateMatchesCount
BY InvariantHolds, PTL DEF Invariant

(* The circuit is half open only when no failure was recorded for          *)
(* resetTimeout.                                                           *)
THEOREM ProbesAfterRest == Spec => []HalfOpenIsRested
BY InvariantHolds, PTL DEF Invariant

(* How far the circuit is from closing.                                    *)
Distance == CASE circuitState = "OPEN" -> 2 [] circuitState = "HALF_OPEN" -> 1 [] OTHER -> 0

(* An open circuit has a clock that still runs, or lets a call through.    *)
OpenMovesOn ==
    circuitState = "OPEN" => sinceFailure \in 0..(ResetTimeout - 1) \/ shouldAttemptReset

(* Only a failure takes the circuit away from closing, or its clock back:  *)
(* every other step of any call keeps the distance or lowers it, a call    *)
(* that an open circuit lets through and a success in a half open one do.  *)
OnlyFailuresDelay ==
    [][(\A c \in Call : ~Fails(c)) =>
          /\ Distance' <= Distance
          /\ circuitState' # "CLOSED" => sinceFailure' >= sinceFailure
          /\ \A c \in Call : Admit(c) => circuitState' # "OPEN"
          /\ \A c \in Call : Succeeds(c) => circuitState' # "HALF_OPEN"]_vars

(* For any threshold, timeout and callers, the safety half of Recovers:    *)
(* an open circuit has somewhere to go, and recordFailure is all that      *)
(* keeps executeWithCircuitBreaker from closing it.                        *)
THEOREM OnlyFailuresKeepOpen == Spec => []OpenMovesOn /\ OnlyFailuresDelay
<1>. DEFINE Nearer == /\ Distance' <= Distance
                      /\ circuitState' # "CLOSED" => sinceFailure' >= sinceFailure
<1>1. ASSUME Invariant PROVE OpenMovesOn
  BY <1>1, ThresholdPositive, TimeoutPositive
     DEF Invariant, TypeOK, StateMatchesCount, shouldAttemptReset, OpenMovesOn
<1>2. ASSUME Invariant, [Next]_vars, \A c \in Call : ~Fails(c) PROVE Nearer
  <2>1. circuitState # "CLOSED" => sinceFailure \in 0..ResetTimeout
    BY <1>2, ThresholdPositive DEF Invariant, TypeOK, StateMatchesCount
  <2>2. circuitState \in CircuitState /\ ResetTimeout \in Nat
    BY <1>2, TimeoutPositive DEF Invariant, TypeOK
  <2>. USE DEF Distance, CircuitState
  <2>3. ASSUME UNCHANGED circuit PROVE Nearer
    BY <2>1, <2>2, <2>3 DEF circuit
  <2>4. ASSUME Tick PROVE Nearer
    BY <2>1, <2>2, <2>4 DEF Tick
  <2>5. ASSUME NEW c \in Call, Admit(c) PROVE Nearer
    BY <2>1, <2>2, <2>5 DEF Admit
  <2>6. ASSUME NEW c \in Call, Succeeds(c) PROVE Nearer
    BY <2>1, <2>2, <2>6 DEF Succeeds, reset, circuit
  <2>7. UNCHANGED circuit \/ Tick \/ \E c \in Call : Admit(c) \/ Succeeds(c)
    BY <1>2 DEF Next, Refuse, Connect, Release, circuit, vars
  <2>. QED  BY <2>3, <2>4, <2>5, <2>6, <2>7
<1>3. ASSUME NEW c \in Call, Admit(c) PROVE circuitState' # "OPEN"
  BY <1>3 DEF Admit
<1>4. ASSUME NEW c \in Call, Succeeds(c) PROVE circuitState' # "HALF_OPEN"
  BY <1>4 DEF Succeeds, reset, circuit
<1>5. Invariant /\ [Next]_vars
      => [(\A c \in Call : ~Fails(c)) =>
             /\ Distance' <= Distance
             /\ circuitState' # "CLOSED" => sinceFailure' >= sinceFailure
             /\ \A c \in Call : Admit(c) => circuitState' # "OPEN"
             /\ \A c \in Call : Succeeds(c) => circuitState' # "HALF_OPEN"]_vars
  BY <1>2, <1>3, <1>4
<1>. QED  BY <1>1, <1>5, InvariantHolds, PTL DEF Spec, OnlyFailuresDelay

-----------------------------------------------------------------------------
(* Refinement.                                                             *)


LEMMA InitRefines == Init => Promise!CInit
BY DEF Init, Promise!CInit, InFlight

(* How the calls in flight change when one of them moves.                  *)
LEMMA InFlightMoves ==
    ASSUME TypeOK, NEW c \in Call, NEW p \in Phase, Goto(c, p)
    PROVE  InFlight' = IF p = "idle" THEN InFlight \ {c} ELSE InFlight \cup {c}
BY DEF TypeOK, Goto, InFlight

LEMMA NextRefines == Invariant /\ [Next]_vars => [Promise!CNext]_(Promise!cvars)
<1> SUFFICES ASSUME Invariant, [Next]_vars
             PROVE  Promise!CNext \/ UNCHANGED Promise!cvars
  BY DEF Promise!cvars
<1> USE DEF Invariant
<1>1. CASE Tick
  <2>1. InFlight' = InFlight
    BY <1>1 DEF Tick, InFlight
  <2>2. Promise!Elapse
    BY <1>1, <2>1, TimeoutPositive, NullIsNoTime DEF Tick, Promise!Elapse
  <2> QED BY <2>2 DEF Promise!CNext
<1>2. ASSUME NEW c \in Call, Refuse(c) PROVE UNCHANGED Promise!cvars
  BY <1>2 DEF Refuse, vars, Promise!cvars, InFlight
<1>3. ASSUME NEW c \in Call, Admit(c) PROVE Promise!LetThrough(c)
  <2>1. InFlight' = InFlight \cup {c}
    BY <1>3, InFlightMoves DEF Admit, Phase
  <2>2. c \notin InFlight
    BY <1>3 DEF Admit, InFlight
  <2>3. circuitState # "CLOSED" => sinceFailure = ResetTimeout
    BY <1>3, ThresholdPositive
    DEF Admit, shouldAttemptReset, TypeOK, CircuitState, StateMatchesCount, HalfOpenIsRested
  <2>4. circuitState # "CLOSED" <=> circuitState' # "CLOSED"
    BY <1>3 DEF Admit
  <2> QED BY <1>3, <2>1, <2>2, <2>3, <2>4 DEF Admit, Promise!LetThrough
<1>4. ASSUME NEW c \in Call, Connect(c) PROVE UNCHANGED Promise!cvars
  <2>1. InFlight' = InFlight
    BY <1>4, InFlightMoves DEF Connect, Phase, InFlight
  <2> QED BY <1>4, <2>1 DEF Connect, Promise!cvars
<1>5. ASSUME NEW c \in Call, Fails(c) PROVE Promise!Failure(c)
  <2>1. c \in InFlight
    BY <1>5 DEF Fails, InFlight
  <2>2. InFlight' = InFlight
    BY <1>5, <2>1, InFlightMoves DEF Fails, Phase
  <2>3. sinceFailure' = 0 /\ sinceFailure' # Null
    BY <1>5, NullIsNoTime DEF Fails, recordFailure
  <2>4. circuitState' \in {circuitState, "OPEN"}
    BY <1>5 DEF Fails, recordFailure
  <2> QED BY <2>1, <2>2, <2>3, <2>4 DEF Promise!Failure
<1>6. ASSUME NEW c \in Call, Succeeds(c) PROVE Promise!Recovery(c) \/ UNCHANGED Promise!cvars
  <2>1. c \in InFlight
    BY <1>6 DEF Succeeds, InFlight
  <2>2. InFlight' = InFlight
    BY <1>6, <2>1, InFlightMoves DEF Succeeds, Phase
  <2>3. CASE circuitState = "HALF_OPEN"
    BY <1>6, <2>1, <2>2, <2>3, TimeoutPositive, NullIsNoTime
    DEF Succeeds, reset, HalfOpenIsRested, Promise!Recovery
  <2>4. CASE circuitState # "HALF_OPEN"
    BY <1>6, <2>2, <2>4 DEF Succeeds, circuit, Promise!cvars
  <2> QED BY <2>3, <2>4
<1>7. ASSUME NEW c \in Call, Release(c) PROVE Promise!End(c)
  <2>1. c \in InFlight
    BY <1>7 DEF Release, InFlight
  <2>2. InFlight' = InFlight \ {c}
    BY <1>7, InFlightMoves DEF Release, Phase
  <2> QED BY <1>7, <2>1, <2>2 DEF Release, Promise!End
<1>8. CASE UNCHANGED vars
  BY <1>8 DEF vars, Promise!cvars, InFlight
<1> QED BY <1>1, <1>2, <1>3, <1>4, <1>5, <1>6, <1>7, <1>8 DEF Next, Promise!CNext

(* The breaker implements its contract: tripped, it lets calls through     *)
(* only after ResetTimeout without a recorded failure, and recovers only   *)
(* then, by the success of a call in flight.                               *)
THEOREM BreakerImplementsContract == Spec => KeepsContract
<1>1. Init => Promise!CInit
  BY InitRefines
<1>2. Invariant /\ [Next]_vars => [Promise!CNext]_(Promise!cvars)
  BY NextRefines
<1> QED BY <1>1, <1>2, InvariantHolds, PTL DEF Spec, KeepsContract, Promise!Contract
=============================================================================
