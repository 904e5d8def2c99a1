------------------------ MODULE ContractViolationProofs ------------------------
(***************************************************************************)
(* Proofs of the properties of ContractViolationReporter, for any results, *)
(* ids, thresholds and durations.                                          *)
(***************************************************************************)
EXTENDS ContractViolationReporter, TLAPS

(* What the map and the history hold are violations; the map files each    *)
(* under its own id.                                                       *)
Filed ==
    /\ \A o \in violationHistory : object[o] \in Violation
    /\ \A i \in Id : violations[i] # None =>
          object[violations[i]] \in Violation /\ object[violations[i]].id = i

(* Nothing is resolved before it occurs: so the cleanup drops a violation  *)
(* from the history no later than from the map.                            *)
ResolvedLater == \A o \in Object : object[o].resolved => object[o].resolvedAge <= object[o].age

(* The cooldown of an alert runs from one that really went out.            *)
CooldownsEarned == sinceSent = sinceAlert

IInv == TypeOK /\ Filed /\ HistoryTracked /\ ResolvedLater /\ CooldownsEarned

USE DurationsAreTicks, NoneIsNoObject
-----------------------------------------------------------------------------
LEMMA SeverityTyped == ASSUME NEW c PROVE determineSeverity(c) \in Severity
  BY DEF determineSeverity, Severity

LEMMA Ids == ASSUME NEW v \in Validation
             PROVE  generateViolationId(v) \in Id /\ v.codes \in SUBSET Code
  BY DEF Id, Code

LEMMA OlderTyped == ASSUME NEW a \in Age PROVE Older(a) \in Age
  BY DEF Age, Older, Smaller

LEMMA OlderMonotone == ASSUME NEW a \in Age, NEW b \in Age, a <= b PROVE Older(a) <= Older(b)
  BY DEF Age, Older, Smaller

LEMMA NewTyped == ASSUME NEW v \in Validation PROVE createViolation(v) \in Violation
  BY SeverityTyped, Ids DEF createViolation, Violation, Age

(* An alert that is called for goes out, or its cooldown has not passed.   *)
LEMMA Sends == ASSUME IInv, NEW keys, sendAlert(keys)
               PROVE  /\ sinceAlert' \in [AlertKey -> 0..Cooldown]
                      /\ sinceSent' = sinceAlert'
                      /\ \A k \in keys \cap AlertKey : sinceSent'[k] < Cooldown
  <1>. DEFINE sent == {k \in keys : sinceAlert[k] = Cooldown}
  <1>1. sinceAlert' = [k \in AlertKey |-> IF k \in sent THEN 0 ELSE sinceAlert[k]]
    BY DEF sendAlert
  <1>2. sinceSent' = [k \in AlertKey |-> IF k \in sent THEN 0 ELSE sinceAlert[k]]
    BY DEF sendAlert, IInv, CooldownsEarned
  <1>3. sinceAlert \in [AlertKey -> 0..Cooldown]
    BY DEF IInv, TypeOK
  <1>. QED BY <1>1, <1>2, <1>3

(* The invariant holds at first.                                           *)
LEMMA Initially == Init => IInv
  BY DEF Init, IInv, TypeOK, Filed, HistoryTracked, ResolvedLater, CooldownsEarned, Unused

(* Each operation preserves it.                                            *)
LEMMA RecurKeeps == ASSUME IInv, NEW v \in Validation, Recur(v) PROVE IInv'
  <1>. DEFINE i == generateViolationId(v)
              o == violations[i]
              all == object[o].codes \cup v.codes
              s == determineSeverity(all)
              t == IF Order[s] > Order[object[o].severity] THEN s ELSE object[o].severity
              new == [object[o] EXCEPT !.codes = all, !.severity = t]
  <1>1. i \in Id /\ v.codes \in SUBSET Code
    BY Ids
  <1>2. o # None /\ o \in Object /\ object[o] \in Violation
    BY <1>1 DEF Recur, IInv, TypeOK, Filed
  <1>3. object' = [object EXCEPT ![o] = new] /\ UNCHANGED <<violations, violationHistory, time>>
    BY DEF Recur, updateViolation
  <1>4. t \in Severity
    BY <1>2, SeverityTyped DEF Violation
  <1>5. /\ new \in Violation /\ new.id = object[o].id /\ new.resolved = object[o].resolved
        /\ new.age = object[o].age /\ new.resolvedAge = object[o].resolvedAge
    <2>. HIDE DEF t
    <2>. QED BY <1>1, <1>2, <1>4 DEF Violation
  <1>. HIDE DEF new, i, o
  <1>6. TypeOK' /\ CooldownsEarned'
    BY <1>2, <1>3, <1>5, Sends DEF Recur, IInv, TypeOK, CooldownsEarned
  <1>7. Filed'
    BY <1>2, <1>3, <1>5 DEF IInv, TypeOK, Filed
  <1>8. HistoryTracked'
    BY <1>2, <1>3, <1>5 DEF IInv, TypeOK, HistoryTracked
  <1>9. ResolvedLater'
    BY <1>2, <1>3, <1>5 DEF IInv, TypeOK, ResolvedLater
  <1>. QED BY <1>6, <1>7, <1>8, <1>9 DEF IInv

LEMMA OccurKeeps == ASSUME IInv, NEW v \in Validation, Occur(v) PROVE IInv'
  <1>. DEFINE i == generateViolationId(v)
              new == createViolation(v)
  <1>1. i \in Id /\ violations[i] = None
    BY Ids DEF Occur
  <1>2. new \in Violation /\ new.id = i /\ ~new.resolved
    BY NewTyped DEF createViolation
  <1>3. PICK o \in Object : /\ ~Held(o)
                            /\ object' = [object EXCEPT ![o] = new]
                            /\ violations' = [violations EXCEPT ![i] = o]
                            /\ violationHistory' = violationHistory \cup {o}
    BY DEF Occur
  <1>4. o \notin violationHistory /\ \A j \in Id : violations[j] # o
    BY <1>3 DEF Held
  <1>5. o # None
    OBVIOUS
  <1>. HIDE DEF new, i
  <1>6. TypeOK' /\ CooldownsEarned'
    BY <1>1, <1>2, <1>3, Sends DEF Occur, IInv, TypeOK, CooldownsEarned
  <1>7. Filed'
    BY <1>1, <1>2, <1>3, <1>4, <1>5 DEF IInv, TypeOK, Filed
  <1>8. HistoryTracked'
    BY <1>1, <1>2, <1>3, <1>4 DEF IInv, TypeOK, HistoryTracked
  <1>9. ResolvedLater'
    BY <1>2, <1>3 DEF IInv, TypeOK, ResolvedLater
  <1>. QED BY <1>6, <1>7, <1>8, <1>9 DEF IInv

LEMMA ResolveKeeps == ASSUME IInv, NEW i \in Id, resolveViolation(i) PROVE IInv'
  <1>. DEFINE o == violations[i]
              new == [object[o] EXCEPT !.resolved = TRUE, !.resolvedAge = 0]
  <1>1. o \in Object /\ object[o] \in Violation
    BY DEF resolveViolation, IInv, TypeOK, Filed
  <1>2. /\ object' = [object EXCEPT ![o] = new]
        /\ UNCHANGED <<violations, violationHistory, sinceAlert, sinceSent, time>>
    BY DEF resolveViolation
  <1>3. /\ new \in Violation /\ new.id = object[o].id
        /\ new.resolvedAge = 0 /\ 0 <= new.age
    <2>1. 0 \in Age /\ \A a \in Age : 0 <= a
      BY DEF Age
    <2>. QED BY <1>1, <2>1 DEF Violation
  <1>. HIDE DEF new, o
  <1>4. TypeOK' /\ CooldownsEarned'
    BY <1>1, <1>2, <1>3 DEF IInv, TypeOK, CooldownsEarned
  <1>5. Filed' /\ HistoryTracked'
    BY <1>1, <1>2, <1>3 DEF IInv, TypeOK, Filed, HistoryTracked
  <1>6. ResolvedLater'
    BY <1>1, <1>2, <1>3 DEF IInv, TypeOK, ResolvedLater
  <1>. QED BY <1>4, <1>5, <1>6 DEF IInv

(* Only here is ResolvedLater needed: what stays in the history is younger *)
(* than Retention, so its resolution is too, and the map keeps it.         *)
LEMMA CleanupKeeps == IInv /\ cleanupOldViolations => IInv'
  <1>. SUFFICES ASSUME IInv, cleanupOldViolations PROVE IInv'
    OBVIOUS
  <1>1. TypeOK' /\ CooldownsEarned' /\ ResolvedLater'
    BY DEF cleanupOldViolations, IInv, TypeOK, CooldownsEarned, ResolvedLater
  <1>2. Filed'
    BY DEF cleanupOldViolations, IInv, TypeOK, Filed
  <1>3. HistoryTracked'
    <2>. SUFFICES ASSUME NEW o \in violationHistory'
                  PROVE  object'[o].id \in Id /\ violations'[object'[o].id] = o
      BY DEF HistoryTracked
    <2>1. o \in violationHistory /\ object[o].age <= Retention /\ object' = object
      BY DEF cleanupOldViolations
    <2>2. object[o].id \in Id /\ violations[object[o].id] = o
      BY <2>1 DEF IInv, HistoryTracked
    <2>3. o \in Object /\ object[o] \in Violation
      BY <2>1 DEF IInv, TypeOK, Filed
    <2>4. ~(object[o].resolved /\ object[o].resolvedAge > Retention)
      BY <2>1, <2>3 DEF IInv, ResolvedLater, Violation, Age
    <2>. QED BY <2>1, <2>2, <2>4 DEF cleanupOldViolations
  <1>. QED BY <1>1, <1>2, <1>3 DEF IInv

LEMMA SummaryKeeps == IInv /\ generateDailySummary => IInv'
  <1>. SUFFICES ASSUME IInv, generateDailySummary PROVE IInv'
    OBVIOUS
  <1>1. TypeOK' /\ CooldownsEarned'
    BY Sends DEF generateDailySummary, IInv, TypeOK, CooldownsEarned
  <1>2. Filed' /\ HistoryTracked' /\ ResolvedLater'
    BY DEF generateDailySummary, IInv, Filed, HistoryTracked, ResolvedLater
  <1>. QED BY <1>1, <1>2 DEF IInv

LEMMA TickKeeps == IInv /\ Tick => IInv'
  <1>. DEFINE Aged(o) == [object[o] EXCEPT !.age = Older(@),
                             !.resolvedAge = IF object[o].resolved THEN Older(@) ELSE 0]
  <1>. SUFFICES ASSUME IInv, Tick PROVE IInv'
    OBVIOUS
  <1>1. /\ object' = [o \in Object |-> IF Held(o) THEN Aged(o) ELSE object[o]]
        /\ UNCHANGED <<violations, violationHistory>>
    BY DEF Tick
  <1>2. ASSUME NEW o \in Object, Held(o) PROVE object[o] \in Violation
    BY <1>2 DEF Held, IInv, Filed
  <1>3. ASSUME NEW o \in Object, Held(o)
        PROVE  /\ Aged(o) \in Violation /\ Aged(o).id = object[o].id
               /\ Aged(o).resolved = object[o].resolved
               /\ Aged(o).resolved => Aged(o).resolvedAge <= Aged(o).age
    <2>1. object[o] \in Violation
      BY <1>2, <1>3
    <2>2. /\ object[o].age \in Age /\ object[o].resolvedAge \in Age
          /\ Older(object[o].age) \in Age /\ Older(object[o].resolvedAge) \in Age /\ 0 \in Age
      BY <2>1, OlderTyped DEF Violation, Age
    <2>3. object[o].resolved => Older(object[o].resolvedAge) <= Older(object[o].age)
      BY <2>2, OlderMonotone DEF IInv, ResolvedLater
    <2>. QED BY <2>1, <2>2, <2>3 DEF Violation
  <1>. HIDE DEF Aged
  <1>4. TypeOK'
    <2>1. object' \in [Object -> Violation \cup {Unused}]
      BY <1>1, <1>3 DEF IInv, TypeOK
    <2>2. sinceAlert' \in [AlertKey -> 0..Cooldown] /\ sinceSent' = sinceAlert'
      <3>1. \A n \in 0..Cooldown : Smaller(n + 1, Cooldown) \in 0..Cooldown
        BY DEF Smaller
      <3>2. sinceAlert \in [AlertKey -> 0..Cooldown] /\ sinceSent = sinceAlert
        BY DEF IInv, TypeOK, CooldownsEarned
      <3>. QED BY <3>1, <3>2 DEF Tick
    <2>3. time' \in 0..(Day - 1)
      <3>1. time' = (time + 1) % Day
        BY DEF Tick
      <3>2. Day \in Nat /\ Day > 0
        OBVIOUS
      <3>3. time \in 0..(Day - 1)
        BY DEF IInv, TypeOK
      <3>4. time + 1 \in Nat
        BY <3>2, <3>3
      <3>. QED BY <3>1, <3>2, <3>4
    <2>. QED BY <1>1, <2>1, <2>2, <2>3 DEF IInv, TypeOK
  <1>5. CooldownsEarned'
    BY DEF Tick, IInv, CooldownsEarned
  <1>6. Filed' /\ HistoryTracked'
    BY <1>1, <1>3 DEF IInv, TypeOK, Filed, HistoryTracked, Held
  <1>7. ResolvedLater'
    BY <1>1, <1>3 DEF IInv, ResolvedLater
  <1>. QED BY <1>4, <1>5, <1>6, <1>7 DEF IInv

LEMMA Inductive == IInv /\ [Next]_vars => IInv'
  <1>. SUFFICES ASSUME IInv, [Next]_vars PROVE IInv'
    OBVIOUS
  <1>1. CASE \E v \in Validation : recordViolation(v)
    BY <1>1, RecurKeeps, OccurKeeps DEF recordViolation
  <1>2. CASE \E i \in Id : resolveViolation(i)
    BY <1>2, ResolveKeeps
  <1>3. CASE cleanupOldViolations
    BY <1>3, CleanupKeeps
  <1>4. CASE generateDailySummary
    BY <1>4, SummaryKeeps
  <1>5. CASE Tick
    BY <1>5, TickKeeps
  <1>6. CASE UNCHANGED vars
    BY <1>6 DEF vars, IInv, TypeOK, Filed, HistoryTracked, ResolvedLater, CooldownsEarned
  <1>. QED BY <1>1, <1>2, <1>3, <1>4, <1>5, <1>6 DEF Next

LEMMA Invariant == Spec => []IInv
  <1>1. Init => IInv
    BY Initially
  <1>2. IInv /\ [Next]_vars => IInv'
    BY Inductive
  <1>. QED BY <1>1, <1>2, PTL DEF Spec
-----------------------------------------------------------------------------
(* The map, the history and the cooldowns keep their types, for any        *)
(* results, ids and durations.                                             *)
THEOREM ReporterTyped == Spec => []TypeOK
  <1>1. IInv => TypeOK
    BY DEF IInv
  <1>. QED BY <1>1, Invariant, PTL

(* What the history counts is what the map holds under its id: a           *)
(* resolution always reaches it, and no violation is counted twice.        *)
THEOREM CountedIsFiled == Spec => []HistoryTracked
  <1>1. IInv => HistoryTracked
    BY DEF IInv
  <1>. QED BY <1>1, Invariant, PTL

(* Nothing but a resolution takes a violation off the unresolved list.     *)
THEOREM OnlyResolutionUnlists == Spec => ListedUntilResolved
  <1>. DEFINE Leaves(i) == Listed(i) /\ ~Listed(i)'
                              => violations'[i] = violations[i] /\ object'[violations[i]].resolved
  <1>1. IInv /\ [Next]_vars => [\A i \in Id : Leaves(i)]_vars
    <2>. SUFFICES ASSUME IInv, Next, NEW i \in Id, Listed(i), ~Listed(i)'
                  PROVE  violations'[i] = violations[i] /\ object'[violations[i]].resolved
      OBVIOUS
    <2>. DEFINE o == violations[i]
    <2>1. o \in Object /\ object[o] \in Violation /\ ~object[o].resolved /\ Held(o)
      BY DEF Listed, IInv, TypeOK, Filed, Held
    <2>2. ASSUME violations'[i] = o PROVE object'[o].resolved
      BY <2>1, <2>2 DEF Listed
    <2>3. CASE \E v \in Validation : recordViolation(v)
      <3>1. PICK v \in Validation : recordViolation(v)
        BY <2>3
      <3>2. CASE Recur(v)
        BY <2>2, <3>2 DEF Recur
      <3>3. CASE Occur(v)
        <4>1. violations'[i] = o
          BY <2>1, <3>3 DEF Occur, IInv, TypeOK
        <4>. QED BY <2>2, <4>1
      <3>. QED BY <3>1, <3>2, <3>3 DEF recordViolation
    <2>4. CASE \E j \in Id : resolveViolation(j)
      BY <2>2, <2>4 DEF resolveViolation
    <2>5. CASE cleanupOldViolations
      BY <2>1, <2>2, <2>5 DEF cleanupOldViolations
    <2>6. CASE generateDailySummary
      BY <2>2, <2>6 DEF generateDailySummary
    <2>7. CASE Tick
      BY <2>2, <2>7 DEF Tick
    <2>. QED BY <2>3, <2>4, <2>5, <2>6, <2>7 DEF Next
  <1>. QED BY <1>1, Invariant, PTL DEF Spec, ListedUntilResolved

(* Whenever a recorded violation calls for an alert, one of its kind goes  *)
(* out or went out within the cooldown.                                    *)
THEOREM AlertsGoOut == Spec => NoAlertStarved
  <1>. DEFINE critical == <<"critical_violation", "critical">>
              Heard(v) == recordViolation(v) =>
                  /\ \A k \in Exceeded(violationHistory', object') : sinceSent'[k] < Cooldown
                  /\ determineSeverity(v.codes) = "critical" /\ violationHistory' # violationHistory
                        => sinceSent'[critical] < Cooldown
  <1>1. IInv /\ [Next]_vars => [\A v \in Validation : Heard(v)]_vars
    <2>. SUFFICES ASSUME IInv, NEW v \in Validation, recordViolation(v)
                  PROVE  /\ \A k \in Exceeded(violationHistory', object') : sinceSent'[k] < Cooldown
                         /\ determineSeverity(v.codes) = "critical"
                              /\ violationHistory' # violationHistory => sinceSent'[critical] < Cooldown
      OBVIOUS
    <2>1. Exceeded(violationHistory', object') \subseteq AlertKey
      BY DEF Exceeded
    <2>2. CASE Recur(v)
      <3>1. violationHistory' = violationHistory /\ sendAlert(Exceeded(violationHistory, object'))
        BY <2>2 DEF Recur
      <3>. QED BY <2>1, <3>1, Sends
    <2>3. CASE Occur(v)
      <3>. DEFINE keys == Exceeded(violationHistory', object')
                            \cup {k \in AlertKey : k[1] = "critical_violation"
                                                   /\ determineSeverity(v.codes) = "critical"}
      <3>1. \A k \in keys \cap AlertKey : sinceSent'[k] < Cooldown
        BY <2>3, Sends DEF Occur
      <3>2. critical \in AlertKey
        BY DEF AlertKey
      <3>. QED BY <2>1, <3>1, <3>2
    <2>. QED BY <2>2, <2>3 DEF recordViolation
  <1>. QED BY <1>1, Invariant, PTL DEF Spec, NoAlertStarved
=============================================================================
