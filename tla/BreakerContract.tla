--------------------------- MODULE BreakerContract ---------------------------
(***************************************************************************)
(* What a caller of executeWithCircuitBreaker may rely on, whatever the    *)
(* breaker counts: once it is tripped, calls are let through only after    *)
(* ResetTimeout without a recorded failure, and it recovers only then.     *)
(***************************************************************************)
EXTENDS Naturals

CONSTANTS Call, ResetTimeout

VARIABLES
    tripped,     \* calls are being refused, or let through as probes
    quiet,       \* time since the last recorded failure, up to ResetTimeout
    inFlight     \* the calls that were let through and have not ended

cvars == <<tripped, quiet, inFlight>>

CInit == tripped = FALSE /\ quiet = ResetTimeout /\ inFlight = {}

LetThrough(c) ==
    /\ c \notin inFlight /\ (tripped => quiet = ResetTimeout)
    /\ inFlight' = inFlight \cup {c}
    /\ UNCHANGED <<tripped, quiet>>

End(c) == c \in inFlight /\ inFlight' = inFlight \ {c} /\ UNCHANGED <<tripped, quiet>>

(* A call in flight fails: the breaker may trip, and does not recover.     *)
Failure(c) ==
    /\ c \in inFlight /\ quiet' = 0
    /\ tripped' \in {tripped, TRUE}
    /\ UNCHANGED inFlight

(* A call in flight succeeds while the breaker is tripped and quiet.       *)
Recovery(c) ==
    /\ c \in inFlight /\ tripped /\ quiet = ResetTimeout
    /\ tripped' = FALSE
    /\ UNCHANGED <<quiet, inFlight>>

Elapse == quiet < ResetTimeout /\ quiet' = quiet + 1 /\ UNCHANGED <<tripped, inFlight>>

CNext == Elapse \/ \E c \in Call : LetThrough(c) \/ End(c) \/ Failure(c) \/ Recovery(c)

Contract == CInit /\ [][CNext]_cvars
=============================================================================
