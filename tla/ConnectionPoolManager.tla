------------------------ MODULE ConnectionPoolManager ------------------------
(***************************************************************************)
(* The circuit breaker of src/src/database/connection-pool.manager.ts over *)
(* the connections of the driver's pool.                                   *)
(*                                                                         *)
(* A call of executeWithCircuitBreaker reads the circuit before its first  *)
(* await and writes it after its last, so a call may be let through in one *)
(* state of the circuit and record its outcome in another.  Calls repeat.  *)
(*                                                                         *)
(* Two data abstractions.  failureCount is only compared with the          *)
(* threshold: it stays at FailureThreshold instead of growing past it.     *)
(* lastFailureTime is only subtracted from the clock and compared with     *)
(* resetTimeout: sinceFailure is that difference, and stays at             *)
(* ResetTimeout.                                                           *)
(***************************************************************************)
EXTENDS Naturals, FiniteSets

CONSTANTS
    Call,               \* concurrent callers
    FailureThreshold,   \* failureThreshold, 5 in the code
    ResetTimeout,       \* resetTimeout, 60 s in the code, in ticks
    PoolSize,           \* connections the driver's pool opens at most
    Null                \* lastFailureTime before any failure

ASSUME ThresholdPositive == FailureThreshold \in Nat \ {0}
ASSUME TimeoutPositive == ResetTimeout \in Nat \ {0}
ASSUME NullIsNoTime == Null \notin Nat

VARIABLES
    circuitState, failureCount, sinceFailure,
    phase,      \* where each call is
    streak      \* history: failures since the last success, at most FailureThreshold

vars == <<circuitState, failureCount, sinceFailure, phase, streak>>
circuit == <<circuitState, failureCount, sinceFailure>>

CircuitState == {"CLOSED", "OPEN", "HALF_OPEN"}
Phase == {"idle", "connecting", "running", "releasing", "failedToConnect"}

Smaller(a, b) == IF a <= b THEN a ELSE b
InFlight == {c \in Call : phase[c] # "idle"}
Held == {c \in Call : phase[c] \in {"running", "releasing"}}

-----------------------------------------------------------------------------
shouldAttemptReset == sinceFailure \in {Null, ResetTimeout}

(* Variant: only the first failure sets the time.                          *)
recordFailureTimedOnce ==
    /\ failureCount' = Smaller(failureCount + 1, FailureThreshold)
    /\ sinceFailure' = IF sinceFailure = Null THEN 0 ELSE sinceFailure
    /\ circuitState' = IF failureCount + 1 >= FailureThreshold THEN "OPEN" ELSE circuitState

(* Variant: a failed probe waits for the threshold like any other call.    *)
recordFailureUncounted ==
    /\ failureCount' = IF circuitState = "HALF_OPEN" THEN 1
                       ELSE Smaller(failureCount + 1, FailureThreshold)
    /\ sinceFailure' = 0
    /\ circuitState' = IF failureCount' >= FailureThreshold THEN "OPEN" ELSE circuitState

recordFailure ==
    /\ failureCount' = Smaller(failureCount + 1, FailureThreshold)
    /\ sinceFailure' = 0
    /\ circuitState' = IF failureCount + 1 >= FailureThreshold THEN "OPEN" ELSE circuitState

(* Variant: a successful probe does not reset the breaker.                 *)
resetNever == UNCHANGED circuit

(* Variant: the count survives the reset.                                  *)
resetKeepsCount == circuitState' = "CLOSED" /\ sinceFailure' = Null /\ UNCHANGED failureCount

(* Variant: the count is set to null, as the time is.                      *)
resetToNull == circuitState' = "CLOSED" /\ failureCount' = Null /\ sinceFailure' = Null

reset ==
    /\ circuitState' = "CLOSED"
    /\ failureCount' = 0
    /\ sinceFailure' = Null

Goto(c, p) == phase' = [phase EXCEPT ![c] = p]

(* The call finds the circuit open too early: it throws, and no more.      *)
Refuse(c) ==
    /\ phase[c] = "idle" /\ circuitState = "OPEN" /\ ~shouldAttemptReset
    /\ UNCHANGED vars

(* Everything up to the first await: the check, and createQueryRunner.     *)
Admit(c) ==
    /\ phase[c] = "idle"
    /\ circuitState = "OPEN" => shouldAttemptReset
    /\ circuitState' = IF circuitState = "OPEN" THEN "HALF_OPEN" ELSE circuitState
    /\ Goto(c, "connecting")
    /\ UNCHANGED <<failureCount, sinceFailure, streak>>

(* queryRunner.connect() takes a connection of the pool, or waits for one. *)
Connect(c) ==
    /\ phase[c] = "connecting"
    /\ Cardinality(Held) < PoolSize
    /\ Goto(c, "running")
    /\ UNCHANGED <<circuitState, failureCount, sinceFailure, streak>>

(* The catch block: connect() rejected (the database is down, or the wait  *)
(* for a connection timed out), or the operation did.                      *)
Fails(c) ==
    /\ phase[c] \in {"connecting", "running"}
    /\ recordFailure
    /\ streak' = Smaller(streak + 1, FailureThreshold)
    /\ Goto(c, IF phase[c] = "running" THEN "releasing" ELSE "failedToConnect")

(* The operation resolved; the circuit is read as it is now.               *)
Succeeds(c) ==
    /\ phase[c] = "running"
    /\ IF circuitState = "HALF_OPEN" THEN reset ELSE UNCHANGED circuit
    /\ streak' = 0
    /\ Goto(c, "releasing")

(* The finally block.                                                      *)
Release(c) ==
    /\ phase[c] \in {"releasing", "failedToConnect"}
    /\ Goto(c, "idle")
    /\ UNCHANGED <<circuitState, failureCount, sinceFailure, streak>>

Tick ==
    /\ sinceFailure \in 0..(ResetTimeout - 1)
    /\ sinceFailure' = sinceFailure + 1
    /\ UNCHANGED <<circuitState, failureCount, phase, streak>>

Init ==
    /\ circuitState = "CLOSED" /\ failureCount = 0 /\ sinceFailure = Null
    /\ phase = [c \in Call |-> "idle"]
    /\ streak = 0

Next ==
    \/ Tick
    \/ \E c \in Call : Refuse(c) \/ Admit(c) \/ Connect(c) \/ Fails(c) \/ Succeeds(c) \/ Release(c)

Spec == Init /\ [][Next]_vars

(* The clock runs, a call that is under way ends, and callers keep         *)
(* calling: the breaker has no timer of its own.                           *)
Settles(c) == Connect(c) \/ Fails(c) \/ Succeeds(c) \/ Release(c)
FairSpec == /\ Spec /\ WF_vars(Tick)
            /\ \A c \in Call : WF_vars(Settles(c)) /\ WF_vars(Admit(c))
-----------------------------------------------------------------------------
TypeOK ==
    /\ circuitState \in CircuitState
    /\ failureCount \in 0..FailureThreshold
    /\ sinceFailure \in {Null} \cup 0..ResetTimeout
    /\ phase \in [Call -> Phase]
    /\ streak \in 0..FailureThreshold

(* The circuit is closed exactly while fewer failures than the threshold   *)
(* are counted, and a time of failure is kept exactly while one is: a late *)
(* outcome of a call that was let through earlier leaves no half-reset     *)
(* breaker, such as closed with a full count, or open without a time.      *)
StateMatchesCount ==
    /\ circuitState = "CLOSED" <=> failureCount < FailureThreshold
    /\ sinceFailure = Null <=> failureCount = 0

(* While the circuit is half open, no failure was recorded for             *)
(* ResetTimeout, be it of a call that was let through before it opened.    *)
HalfOpenIsRested == circuitState = "HALF_OPEN" => sinceFailure = ResetTimeout

(* The promise to callers (BreakerContract) is kept.                       *)
Promise == INSTANCE BreakerContract WITH
    tripped <- circuitState # "CLOSED",
    quiet <- IF sinceFailure = Null THEN ResetTimeout ELSE sinceFailure,
    inFlight <- InFlight

KeepsContract == Promise!Contract

(* If from some time on no call fails, the circuit closes for good: it     *)
(* never stays open or half open for want of a step.                       *)
Recovers ==
    <>[][\A c \in Call : ~Fails(c)]_vars => <>[](circuitState = "CLOSED")

(* docs/CONNECTION_POOLING_README.md:172: "Failure threshold: 5            *)
(* consecutive failures".  The circuit then opens only after that many     *)
(* failures with no success between them.                                  *)
OpensOnConsecutiveFailures ==
    [][circuitState = "CLOSED" /\ circuitState' = "OPEN" => streak' = FailureThreshold]_vars
=============================================================================
