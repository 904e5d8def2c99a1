------------------------------- MODULE MCServices -------------------------------
(***************************************************************************)
(* The components that share no state, checked side by side: a behaviour   *)
(* is one of a single component, chosen at the start, and the others stay  *)
(* as they begin.                                                          *)
(***************************************************************************)
EXTENDS HttpApi, RequestPipeline, DebounceGuard, MfaService, NotificationsGateway, QueryCache,
        Pagination, PasswordPolicy, SecureLogger, HealthStatus, VisualRegression

CONSTANTS kd1, kd2, kd3

VARIABLE component

Vars == <<component, apiVars, call, debounceVars, mfaVars, notificationsVars, cacheVars, pageVars,
          policyVars, loggerVars, healthVars, visualVars>>

MCMaxRequests == [k \in LimitKey |-> IF k = "LOGIN" THEN 1 ELSE 2]
MCWindow == [k \in LimitKey |-> IF k = "LOGIN" THEN 1 ELSE 2]
MCWindowMs == [k \in DebounceKey |-> IF k = kd1 THEN 3 ELSE 2]
MCLimit == {-2, -1, 0, 1}

(* The limiter alone, with its larger windows, is one more component.      *)
Component == {"limiter", "http", "pipeline", "debounce", "mfa", "notifications", "cache", "pages",
              "passwords", "logger", "health", "visual"}

Init ==
    /\ component \in Component
    /\ ApiInit /\ PipelineInit /\ DebounceInit /\ MfaInit /\ NotificationsInit /\ CacheInit
    /\ PolicyInit /\ LoggerInit /\ VisualInit
    /\ IF component = "pages" THEN PageInit
       ELSE rows = [i \in Id |-> Unset] /\ walk = NoWalk /\ page = {} /\ seen = {} /\ stayed = {}
    /\ HealthInit /\ (component # "health" => configured = {"database"})

Limiter == component = "limiter" /\ LimiterNext /\ UNCHANGED <<component, browser, request, answer,
    call, debounceVars, mfaVars, notificationsVars, cacheVars, pageVars, policyVars, loggerVars,
    healthVars, visualVars>>
Http(A) == component = "http" /\ A /\ UNCHANGED <<component, call, debounceVars, mfaVars,
    notificationsVars, cacheVars, pageVars, policyVars, loggerVars, healthVars, visualVars>>
Pipeline == component = "pipeline" /\ PipelineNext /\ UNCHANGED <<component, apiVars, debounceVars,
    mfaVars, notificationsVars, cacheVars, pageVars, policyVars, loggerVars, healthVars, visualVars>>
Debounce == component = "debounce" /\ DebounceNext /\ UNCHANGED <<component, apiVars, call, mfaVars,
    notificationsVars, cacheVars, pageVars, policyVars, loggerVars, healthVars, visualVars>>
Mfa == component = "mfa" /\ MfaNext /\ UNCHANGED <<component, apiVars, call, debounceVars,
    notificationsVars, cacheVars, pageVars, policyVars, loggerVars, healthVars, visualVars>>
Notifications == component = "notifications" /\ NotificationsNext /\ UNCHANGED <<component, apiVars,
    call, debounceVars, mfaVars, cacheVars, pageVars, policyVars, loggerVars, healthVars, visualVars>>
Cache(A) == component = "cache" /\ A /\ UNCHANGED <<component, apiVars, call, debounceVars, mfaVars,
    notificationsVars, pageVars, policyVars, loggerVars, healthVars, visualVars>>
Pages(A) == component = "pages" /\ A /\ UNCHANGED <<component, apiVars, call, debounceVars, mfaVars,
    notificationsVars, cacheVars, policyVars, loggerVars, healthVars, visualVars>>
Passwords == component = "passwords" /\ PolicyNext /\ UNCHANGED <<component, apiVars, call,
    debounceVars, mfaVars, notificationsVars, cacheVars, pageVars, loggerVars, healthVars, visualVars>>
Logging == component = "logger" /\ LoggerNext /\ UNCHANGED <<component, apiVars, call, debounceVars,
    mfaVars, notificationsVars, cacheVars, pageVars, policyVars, healthVars, visualVars>>
Health == component = "health" /\ HealthNext /\ UNCHANGED <<component, apiVars, call, debounceVars,
    mfaVars, notificationsVars, cacheVars, pageVars, policyVars, loggerVars, visualVars>>
Visual == component = "visual" /\ VisualNext /\ UNCHANGED <<component, apiVars, call, debounceVars,
    mfaVars, notificationsVars, cacheVars, pageVars, policyVars, loggerVars, healthVars>>

Next ==
    \/ Limiter \/ Http(ApiNext) \/ Pipeline \/ Debounce \/ Mfa \/ Notifications \/ Cache(CacheNext)
    \/ Pages(PageNext) \/ Passwords \/ Logging \/ Health \/ Visual

(* ApiFairness, CacheFairness and PageFairness, of the component chosen.   *)
Fairness ==
    /\ WF_Vars(Http(ApiTick))
    /\ \A p \in Page : WF_Vars(Http(RefuseCsrf(p) \/ RefuseLimit(p) \/ Handle(p) \/ Deliver(p)))
    /\ WF_Vars(Cache(expire))
    /\ \A r \in Reader : WF_Vars(Cache(query(r) \/ fill(r)))
    /\ WF_Vars(Pages(nextPage)) /\ WF_Vars(Pages(refusePage))

Spec == Init /\ [][Next]_Vars /\ Fairness
-----------------------------------------------------------------------------
(* The types of all components.                                            *)
ServicesTypeOK ==
    /\ ApiTypeOK /\ PipelineTypeOK /\ DebounceTypeOK /\ MfaTypeOK /\ NotificationsTypeOK
    /\ CacheTypeOK /\ PageTypeOK /\ PolicyTypeOK /\ LoggerTypeOK /\ HealthTypeOK /\ VisualTypeOK
=============================================================================
