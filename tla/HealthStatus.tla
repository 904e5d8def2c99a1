------------------------------ MODULE HealthStatus ------------------------------
(***************************************************************************)
(* The probes of src/src/health/: GET /health asks the database, Redis and *)
(* the external services, GET /health/ready the first two, GET             *)
(* /health/live nothing.  The indicators of a probe run side by side; what *)
(* they ask (external) is up or down when it is asked, and may change in   *)
(* between.  Terminus answers 503 if any of them throws.                   *)
(*                                                                         *)
(* Redis is asked through one client that all probes share (external:      *)
(* ioredis).  It connects at the first PING; its retryStrategy returns     *)
(* null, so that a connection that fails or is lost ends it, and from then *)
(* on it rejects every PING without asking.                                *)
(***************************************************************************)
EXTENDS FiniteSets

VARIABLES
    configured,     \* what the environment configures
    probe,          \* the probe under way: "idle", or its path
    found,          \* what its checks have found so far
    down,           \* history: what was down when that probe asked it
    redis,          \* the client: "wait", "ready" or "end"
    redisServes     \* Redis can be reached and answers PONG

healthVars == <<configured, probe, found, down, redis, redisServes>>

Service == {"stellar_soroban", "email_smtp"}
Dependency == Service \cup {"database", "redis"}
Probe == {"health", "ready", "live"}

(* What a probe asks: Redis and the services only if they are configured.  *)
Asked(p) ==
    CASE p = "health" -> configured
      [] p = "ready" -> configured \ Service
      [] p = "live" -> {}

-----------------------------------------------------------------------------
(* Variant: a Redis that is not configured is down.                        *)
redisUpAlways == found["redis"] = "up"
(* checkRedis: not configured counts as up.                                *)
redisUp == "redis" \notin configured \/ found["redis"] = "up"
databaseUp == found["database"] = "up"

(* ExternalServicesHealthIndicator: down only if all are.                  *)
externalUp ==
    \/ configured \cap Service = {}
    \/ \E s \in configured \cap Service : found[s] = "up"
overall == IF \E s \in configured \cap Service : found[s] = "down" THEN "degraded" ELSE "up"

(* check of Terminus, and buildDetailedResult when nothing was thrown.     *)
checkFullHealth == databaseUp /\ redisUp /\ externalUp
checkReadiness == databaseUp /\ redisUp
statusOf(p) ==
    IF p = "live" \/ (p = "health" /\ checkFullHealth) \/ (p = "ready" /\ checkReadiness)
    THEN 200 ELSE 503
-----------------------------------------------------------------------------
startProbe(p) ==
    /\ probe = "idle"
    /\ probe' = p
    /\ found' = [d \in Dependency |-> "unknown"] /\ down' = {}
    /\ UNCHANGED <<configured, redis, redisServes>>

ComesBack(d, result) ==
    /\ probe # "idle" /\ d \in Asked(probe) /\ found[d] = "unknown"
    /\ found' = [found EXCEPT ![d] = result]
    /\ UNCHANGED <<configured, probe, redisServes>>

(* A query or a GET comes back, fails or takes too long.                   *)
comesBack(d, result) ==
    /\ d # "redis" /\ ComesBack(d, result)
    /\ down' = IF result = "down" THEN down \cup {d} ELSE down
    /\ UNCHANGED redis

(* The PING of RedisHealthIndicator.  A Redis that does not serve refuses  *)
(* the connection, or takes it and answers with an error.                  *)
ping ==
    /\ ComesBack("redis", IF redis = "end" THEN "ended" ELSE IF redisServes THEN "up" ELSE "down")
    /\ down' = IF redisServes THEN down ELSE down \cup {"redis"}
    /\ \/ redis # "end" /\ redis' = "ready"
       \/ (redis = "end" \/ ~redisServes) /\ redis' = "end"

(* Redis stops serving: a client's connection is lost, unless it only      *)
(* answers with errors.                                                    *)
redisStops ==
    /\ redisServes /\ redisServes' = FALSE
    /\ \/ UNCHANGED redis
       \/ redis = "ready" /\ redis' = "end"
    /\ UNCHANGED <<configured, probe, found, down>>

redisReturns ==
    /\ ~redisServes /\ redisServes' = TRUE
    /\ UNCHANGED <<configured, probe, found, down, redis>>

(* The process ends and starts again, with a new client.                   *)
restart ==
    /\ redis' = "wait" /\ probe' = "idle"
    /\ UNCHANGED <<configured, found, down, redisServes>>

Done == probe # "idle" /\ \A d \in Asked(probe) : found[d] # "unknown"

answerProbe ==
    /\ Done
    /\ probe' = "idle"
    /\ UNCHANGED <<configured, found, down, redis, redisServes>>

HealthInit ==
    /\ \E s \in SUBSET Dependency : configured = s \cup {"database"}
    /\ probe = "idle" /\ found = [d \in Dependency |-> "unknown"] /\ down = {}
    /\ redis = "wait" /\ redisServes = TRUE

HealthNext ==
    \/ answerProbe \/ ping \/ redisStops \/ redisReturns \/ restart
    \/ \E p \in Probe : startProbe(p)
    \/ \E d \in Dependency, result \in {"up", "down"} : comesBack(d, result)

HealthSpec == HealthInit /\ [][HealthNext]_healthVars
-----------------------------------------------------------------------------
HealthTypeOK ==
    /\ configured \subseteq Dependency /\ "database" \in configured
    /\ probe \in Probe \cup {"idle"}
    /\ found \in [Dependency -> {"unknown", "up", "down", "ended"}]
    /\ down \subseteq Dependency
    /\ redis \in {"wait", "ready", "end"} /\ redisServes \in BOOLEAN

(* Whatever is configured and in whatever order the checks come back: as   *)
(* long as the client has not given up Redis, an application with nothing  *)
(* down is never taken out of service; one without its database or its     *)
(* Redis always is, and one whose client has given up always is too; and a *)
(* /health of 200 says "degraded" if a service is down.                    *)
HealthTruthful ==
    Done /\ probe # "live" =>
        /\ statusOf(probe) = 503 => down # {} \/ found["redis"] = "ended"
        /\ down \cap {"database", "redis"} # {} \/ found["redis"] = "ended" => statusOf(probe) = 503
        /\ probe = "health" /\ statusOf("health") = 200 /\ down # {} => overall = "degraded"
=============================================================================
