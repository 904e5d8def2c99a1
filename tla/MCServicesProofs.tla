---------------------------- MODULE MCServicesProofs ----------------------------
(***************************************************************************)
(* The components side by side: what MCServices allows one of them it      *)
(* would do alone.  The theorems about the components so hold of           *)
(* MCServices!Spec, the specification that is checked, and with them all   *)
(* invariants of the run, for every value of the constants.                *)
(***************************************************************************)
EXTENDS MCServices, ApiProofs, ServiceProofs, PaginationProofs

(* Every component begins as it would alone: so do the listings, whose     *)
(* beginning is fixed unless they are the ones chosen.                     *)
LEMMA BeginApart ==
    Init => /\ ApiInit /\ PipelineInit /\ DebounceInit /\ MfaInit /\ NotificationsInit
            /\ CacheInit /\ PageInit /\ PolicyInit /\ LoggerInit /\ HealthInit /\ VisualInit
<1>. SUFFICES ASSUME Init PROVE PageInit
  BY DEF Init
<1>. QED  BY DEF Init, PageInit

(* A component takes its own steps and no other touches its variables.     *)
LEMMA StepApart ==
    [Next]_Vars => /\ [PipelineNext]_call
                   /\ [DebounceNext]_debounceVars
                   /\ [MfaNext]_mfaVars
                   /\ [NotificationsNext]_notificationsVars
                   /\ [CacheNext]_cacheVars
                   /\ [PageNext]_pageVars
                   /\ [PolicyNext]_policyVars
                   /\ [LoggerNext]_loggerVars
                   /\ [HealthNext]_healthVars
                   /\ [VisualNext]_visualVars
BY DEF Next, Vars, Limiter, Http, Pipeline, Debounce, Mfa, Notifications, Cache, Pages, Passwords,
       Logging, Health, Visual

(* The limiter has two drivers: the API, and any caller, which leaves the  *)
(* pages alone.                                                            *)
LEMMA LimiterStep ==
    [Next]_Vars => \/ [ApiNext]_apiVars
                   \/ LimiterNext /\ UNCHANGED <<browser, request, answer>>
BY DEF Next, Vars, Limiter, Http, Pipeline, Debounce, Mfa, Notifications, Cache, Pages, Passwords,
       Logging, Health, Visual

LEMMA PagesInvAlways == Spec => []PagesInv
<1>1. Init => PagesInv
  BY BeginApart, PagesInitInv
<1>2. PagesInv /\ [Next]_Vars => PagesInv'
  BY LimiterStep, PagesStepInv, PagesStay
<1>. QED  BY <1>1, <1>2, PTL DEF Spec

(* Whichever component is chosen, each behaves as its own specification    *)
(* says, the rate limiter under both drivers.                              *)
THEOREM EachAsAlone ==
    Spec => /\ LimiterSpec /\ PipelineSpec /\ DebounceSpec /\ MfaSpec /\ NotificationsSpec
            /\ CacheSpec /\ PageSpec /\ PolicySpec /\ LoggerSpec /\ HealthSpec /\ VisualSpec
<1>1. PagesInv /\ [Next]_Vars => [LimiterNext]_limiterVars
  BY LimiterStep, ApiStepLimits
<1>2. ApiInit => LimiterInit
  BY DEF ApiInit
<1>. QED
  BY <1>1, <1>2, BeginApart, StepApart, PagesInvAlways, PTL
     DEF Spec, LimiterSpec, PipelineSpec, DebounceSpec, MfaSpec, NotificationsSpec, CacheSpec,
         PageSpec, PolicySpec, LoggerSpec, HealthSpec, VisualSpec

(* And so does the API, but where the limiter is driven without it.        *)
THEOREM ApiAsAlone == Spec /\ component # "limiter" => ApiSpec
<1>. DEFINE OtherChosen == component # "limiter"
<1>1. OtherChosen /\ [Next]_Vars => OtherChosen' /\ [ApiNext]_apiVars
  BY DEF Next, Vars, Limiter, Http, Pipeline, Debounce, Mfa, Notifications, Cache, Pages,
         Passwords, Logging, Health, Visual
<1>2. component # "limiter" => OtherChosen
  OBVIOUS
<1>. HIDE DEF OtherChosen
<1>. QED  BY <1>1, <1>2, BeginApart, PTL DEF Spec, ApiSpec

(* The types of all components, in the specification that is checked.      *)
THEOREM ServicesTyped == Spec => []ServicesTypeOK
<1>1. PagesInv /\ LimiterTypeOK => ApiTypeOK
  BY DEF PagesInv, PagesTyped, ApiTypeOK
<1>. QED
  BY <1>1, PagesInvAlways, EachAsAlone, LimiterTyped, PipelineTyped, DebounceIsExact, MfaSound,
     NotificationsTyped, CacheTyped, PagesSound, PolicyTyped, LoggerTyped, HealthIsTruthful,
     BaselinesIntended, PTL DEF ServicesTypeOK

(* Every safety property the run checks: the limits, the answers, the      *)
(* debounce guard, MFA, the gateway, the cache, the listings, the          *)
(* password rules, the log, the probes and the baselines.                  *)
THEOREM ServicesSound ==
    Spec => [](/\ AtMostTwoWindows /\ FullWhenRefusing /\ StatusTellsGate
               /\ DebounceExact /\ MfaEnabledProved /\ EntriesAreConnected /\ AnswersHold
               /\ NoStaleAbsence /\ ClearedForGood /\ ListedOnce /\ OnePolicy /\ LoggedByPath
               /\ HealthTruthful /\ BaselineIntended)
BY EachAsAlone, LimiterSound, RefusedOnlyWhenFull, StatusIsTelling, DebounceIsExact, MfaSound, NoEntryLeftOver, NotificationsSound, AbsenceIsFresh, CacheSound,
   PagesSound, PolicyIsOne, LogIsClean, HealthIsTruthful, BaselinesIntended, PTL

(* The safety halves of NotLockedOut, CacheConverges and WalkEnds: what    *)
(* these properties wait for is never put off.                             *)
THEOREM NothingPutOff == Spec => WindowsRunOut /\ StaleRunsOut /\ WalkRunsOut
BY EachAsAlone, WindowsEnd, StaleReadersRunOut, WalksRunOut
=============================================================================
