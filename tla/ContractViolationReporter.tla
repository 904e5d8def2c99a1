---------------------- MODULE ContractViolationReporter ----------------------
(***************************************************************************)
(* The violations that                                                     *)
(* src/src/common/contract-testing/contract-violation-reporter.service.ts  *)
(* tracks: the map of violations by id, the history that reports and       *)
(* thresholds count, and the cooldown of alerts.  Every method runs        *)
(* without an await, so each is one step.                                  *)
(*                                                                         *)
(* The map and the history hold the SAME objects: what a resolution writes *)
(* through the map shows in the history.  So objects are named, and a name *)
(* is free when neither holds it.                                          *)
(*                                                                         *)
(* Times are only compared with the clock, so each is kept as its age,     *)
(* up to one tick past the longest time it is compared with.  Left out are *)
(* what the code writes and never reads: the counts of errors, the map of  *)
(* sent alerts.                                                            *)
(*                                                                         *)
(* Definitions marked "Variant" are plausible mistakes in the definition   *)
(* after them, which the properties notice.                                *)
(***************************************************************************)
EXTENDS Naturals, FiniteSets

CONSTANTS
    Validation,     \* invalid results that are reported: [route, codes], a route being a
                    \* method and an endpoint
    Slug,           \* the id of a result: method, endpoint and codes in one string, every
                    \* other character an underscore; not injective
    Object,         \* names for violation objects
    None,           \* undefined
    CriticalThreshold, HighThreshold, TotalThreshold,
    Cooldown,       \* cooldown, 300 s
    Hour,           \* the window of the thresholds, in ticks
    Day,            \* ticks of a day
    Nine,           \* nine in the morning
    Retention       \* 30 days

ASSUME DurationsAreTicks ==
    /\ Cooldown \in Nat \ {0} /\ Hour \in Nat /\ Day \in Nat \ {0} /\ Retention \in Nat
    /\ Nine \in 0..(Day - 1) /\ Hour <= Retention /\ Day <= Retention
ASSUME NoneIsNoObject == None \notin Object

VARIABLES
    object,         \* the violation objects
    violations,     \* the map: the object of an id
    violationHistory,
    sinceAlert,     \* age of lastAlertTime of a key; Cooldown when it is over, or never set
    sinceSent,      \* history: time since an alert of that key really went out, at most Cooldown
    time            \* time of day

vars == <<object, violations, violationHistory, sinceAlert, sinceSent, time>>

Severity == {"low", "medium", "high", "critical"}
Order == [low |-> 1, medium |-> 2, high |-> 3, critical |-> 4]
AlertKey == {<<"critical_violation", "critical">>, <<"threshold_exceeded", "critical">>,
             <<"threshold_exceeded", "high">>, <<"threshold_exceeded", "medium">>,
             <<"trend_analysis", "medium">>}

generateViolationId(v) == Slug[v]
Id == {generateViolationId(v) : v \in Validation}

Code == UNION {v.codes : v \in Validation}

Age == 0..(Retention + 1)
Violation == [id : Id, codes : SUBSET Code, severity : Severity, age : Age,
              resolved : BOOLEAN, resolvedAge : Age]

Smaller(a, b) == IF a <= b THEN a ELSE b
Held(o) == o \in violationHistory \/ \E i \in Id : violations[i] = o
Listed(i) == violations[i] # None /\ ~object[violations[i]].resolved

-----------------------------------------------------------------------------
CriticalCode == {"ENDPOINT_NOT_FOUND", "MISSING_REQUIRED_FIELD"}
HighCode == {"INVALID_DATA_TYPE", "MISSING_HEADER"}
MediumCode == {"INVALID_PARAMETER", "MISSING_QUERY_PARAMETER"}

determineSeverity(codes) ==
    IF codes \cap CriticalCode # {} THEN "critical"
    ELSE IF codes \cap HighCode # {} THEN "high"
    ELSE IF codes \cap MediumCode # {} THEN "medium"
    ELSE "low"

Recent(h, obj) == {o \in h : obj[o].age <= Hour}
Counted(h, obj, s) == Cardinality({o \in Recent(h, obj) : obj[o].severity = s})

(* checkAlertThresholds: the alerts that history h calls for.              *)
Exceeded(h, obj) ==
    {k \in AlertKey :
        \/ k = <<"threshold_exceeded", "critical">> /\ Counted(h, obj, "critical") >= CriticalThreshold
        \/ k = <<"threshold_exceeded", "high">> /\ Counted(h, obj, "high") >= HighThreshold
        \/ k = <<"threshold_exceeded", "medium">> /\ Cardinality(Recent(h, obj)) >= TotalThreshold}

(* Variant: the cooldown starts anew with an alert it suppresses.          *)
sendAlertSliding(keys) ==
    /\ sinceAlert' = [k \in AlertKey |-> IF k \in keys THEN 0 ELSE sinceAlert[k]]
    /\ sinceSent' = [k \in AlertKey |-> IF k \in keys /\ sinceAlert[k] = Cooldown THEN 0
                                        ELSE sinceSent[k]]

(* sendAlert, for the alerts of one call: their cooldowns are apart.       *)
sendAlert(keys) ==
    LET sent == {k \in keys : sinceAlert[k] = Cooldown}
    IN  /\ sinceAlert' = [k \in AlertKey |-> IF k \in sent THEN 0 ELSE sinceAlert[k]]
        /\ sinceSent' = [k \in AlertKey |-> IF k \in sent THEN 0 ELSE sinceSent[k]]

(* Variant: a new violation without the flag resolved.                     *)
createViolationUnflagged(v) ==
    [id |-> generateViolationId(v), codes |-> v.codes,
     severity |-> determineSeverity(v.codes), age |-> 0, resolved |-> None, resolvedAge |-> 0]

createViolation(v) ==
    [id |-> generateViolationId(v), codes |-> v.codes,
     severity |-> determineSeverity(v.codes), age |-> 0, resolved |-> FALSE, resolvedAge |-> 0]

(* A violation that is in the map: the errors of a result that shares its  *)
(* id join its own, and its severity may rise with them.                   *)
updateViolation(o, v) ==
    LET all == object[o].codes \cup v.codes
        s == determineSeverity(all)
    IN  object' = [object EXCEPT ![o].codes = all,
                                 ![o].severity = IF Order[s] > Order[@] THEN s ELSE @]

Recur(v) ==
    LET o == violations[generateViolationId(v)]
    IN  /\ o # None
        /\ updateViolation(o, v)
        /\ UNCHANGED <<violations, violationHistory>>
        /\ sendAlert(Exceeded(violationHistory, object'))
        /\ UNCHANGED time

Occur(v) ==
    /\ violations[generateViolationId(v)] = None
    /\ \E o \in Object :
          /\ ~Held(o)
          /\ object' = [object EXCEPT ![o] = createViolation(v)]
          /\ violations' = [violations EXCEPT ![generateViolationId(v)] = o]
          /\ violationHistory' = violationHistory \cup {o}
    /\ sendAlert(Exceeded(violationHistory', object')
                   \cup {k \in AlertKey : k[1] = "critical_violation"
                                          /\ determineSeverity(v.codes) = "critical"})
    /\ UNCHANGED time

recordViolation(v) == Recur(v) \/ Occur(v)

(* Resolving a resolved violation again sets its time anew.                *)
resolveViolation(i) ==
    /\ violations[i] # None
    /\ object' = [object EXCEPT ![violations[i]].resolved = TRUE, ![violations[i]].resolvedAge = 0]
    /\ UNCHANGED <<violations, violationHistory, sinceAlert, sinceSent, time>>

(* Variant: the cleanup forgets every resolved violation.                  *)
cleanupResolved ==
    /\ time = 0
    /\ violationHistory' = {o \in violationHistory : object[o].age <= Retention}
    /\ violations' = [i \in Id |-> IF violations[i] # None /\ object[violations[i]].resolved
                                   THEN None ELSE violations[i]]
    /\ UNCHANGED <<object, sinceAlert, sinceSent, time>>

(* Variant: the cleanup of the map goes by age, as that of the history.    *)
cleanupOld ==
    /\ time = 0
    /\ violationHistory' = {o \in violationHistory : object[o].age <= Retention}
    /\ violations' = [i \in Id |-> IF violations[i] # None /\ object[violations[i]].age > Retention
                                   THEN None ELSE violations[i]]
    /\ UNCHANGED <<object, sinceAlert, sinceSent, time>>

cleanupOldViolations ==
    /\ time = 0
    /\ violationHistory' = {o \in violationHistory : object[o].age <= Retention}
    /\ violations' = [i \in Id |-> IF /\ violations[i] # None
                                      /\ object[violations[i]].resolved
                                      /\ object[violations[i]].resolvedAge > Retention
                                   THEN None ELSE violations[i]]
    /\ UNCHANGED <<object, sinceAlert, sinceSent, time>>

generateDailySummary ==
    /\ time = Nine
    /\ sendAlert({k \in AlertKey : k[1] = "trend_analysis"
                                   /\ \E o \in violationHistory : object[o].age <= Day})
    /\ UNCHANGED <<object, violations, violationHistory, time>>

Older(a) == Smaller(a + 1, Retention + 1)

Tick ==
    /\ time' = (time + 1) % Day
    /\ object' = [o \in Object |-> IF Held(o)
                                   THEN [object[o] EXCEPT !.age = Older(@),
                                             !.resolvedAge = IF object[o].resolved THEN Older(@) ELSE 0]
                                   ELSE object[o]]
    /\ sinceAlert' = [k \in AlertKey |-> Smaller(sinceAlert[k] + 1, Cooldown)]
    /\ sinceSent' = [k \in AlertKey |-> Smaller(sinceSent[k] + 1, Cooldown)]
    /\ UNCHANGED <<violations, violationHistory>>

Unused == [id |-> None, codes |-> {}, severity |-> "low", age |-> 0, resolved |-> FALSE, resolvedAge |-> 0]

Init ==
    /\ object = [o \in Object |-> Unused]
    /\ violations = [i \in Id |-> None]
    /\ violationHistory = {}
    /\ sinceAlert = [k \in AlertKey |-> Cooldown]
    /\ sinceSent = [k \in AlertKey |-> Cooldown]
    /\ time \in 0..(Day - 1)

Next ==
    \/ \E v \in Validation : recordViolation(v)
    \/ \E i \in Id : resolveViolation(i)
    \/ cleanupOldViolations
    \/ generateDailySummary
    \/ Tick

Spec == Init /\ [][Next]_vars
-----------------------------------------------------------------------------
TypeOK ==
    /\ object \in [Object -> Violation \cup {Unused}]
    /\ violations \in [Id -> Object \cup {None}]
    /\ violationHistory \subseteq Object
    /\ sinceAlert \in [AlertKey -> 0..Cooldown]
    /\ sinceSent \in [AlertKey -> 0..Cooldown]
    /\ time \in 0..(Day - 1)

(* Everything the history counts is the object the map holds under its id, *)
(* however cleanups, recurrences and resolutions follow each other: so a   *)
(* resolution reaches what reports and statistics count, and no violation  *)
(* is in the history twice.                                                *)
HistoryTracked ==
    \A o \in violationHistory : object[o].id \in Id /\ violations[object[o].id] = o

(* A violation leaves the unresolved ones only by being resolved: no       *)
(* cleanup forgets it and no recurrence replaces it.                       *)
ListedUntilResolved ==
    [][\A i \in Id : Listed(i) /\ ~Listed(i)'
          => violations'[i] = violations[i] /\ object'[violations[i]].resolved]_vars

(* When a recorded violation calls for an alert, one of its kind goes out  *)
(* now or went out within the cooldown: neither a stream of violations nor *)
(* alerts of another kind keep it silent.                                  *)
NoAlertStarved ==
    [][\A v \in Validation : recordViolation(v) =>
          /\ \A k \in Exceeded(violationHistory', object') : sinceSent'[k] < Cooldown
          /\ determineSeverity(v.codes) = "critical" /\ violationHistory' # violationHistory
               => sinceSent'[<<"critical_violation", "critical">>] < Cooldown]_vars

=============================================================================
