----------------------------- MODULE ServiceProofs -----------------------------
(***************************************************************************)
(* Proofs about the small services, each on its own: the debounce guard,   *)
(* multi-factor authentication, the query cache, the policy of passwords,  *)
(* the health probes, the baselines of the visual tests, what is logged,   *)
(* and the gateway of the notifications.                                   *)
(* The constants are any that satisfy the assumptions of their modules.    *)
(***************************************************************************)
EXTENDS DebounceGuard, MfaService, QueryCache, PasswordPolicy, SecureLogger, HealthStatus,
        VisualRegression, NotificationsGateway, FiniteSetTheorems, SequenceTheorems, WellFoundedInduction, TLAPS

-----------------------------------------------------------------------------
(* What is left of a key's window, as the guard will see it.               *)
WindowLeft(k) == IF InWindow(k) THEN expiry[k] ELSE 0

(* The guard's expiry is exact: of every key, stored or swept away.        *)
ExpiryExact == \A k \in DebounceKey : since[k] = WindowMs[k] - WindowLeft(k)

DebounceInv == DebounceTypeOK /\ ExpiryExact

(* A sweep keeps every key that is in its window, and what it keeps is     *)
(* unchanged.                                                              *)
LEMMA SweepKeepsWindows ==
    ASSUME NEW e, NEW f, f = sweep(e),
           \A k \in DOMAIN e : e[k] \in Nat
    PROVE  /\ DOMAIN f \subseteq DOMAIN e
           /\ \A k \in DOMAIN e : e[k] > 0 => k \in DOMAIN f
           /\ \A k \in DOMAIN f : f[k] = e[k]
           /\ e = [k \in DOMAIN e |-> e[k]] => f = [k \in DOMAIN f |-> f[k]]
<1>1. CASE Cardinality(Stored(e)) > StoreLimit
  <2>1. f = [k \in {j \in DOMAIN e : e[j] > 0} |-> e[k]]
    BY <1>1 DEF sweep, Stored
  <2>2. DOMAIN f = {j \in DOMAIN e : e[j] > 0}
    BY <2>1
  <2>. QED  BY <2>1, <2>2
<1>2. CASE ~(Cardinality(Stored(e)) > StoreLimit)
  BY <1>2 DEF sweep
<1>. QED  BY <1>1, <1>2

LEMMA DebounceInitInv == DebounceInit => DebounceInv
BY WindowsPositive
   DEF DebounceInit, DebounceInv, DebounceTypeOK, ExpiryExact, WindowLeft, InWindow, Stored

LEMMA AdmitKeepsInv ==
    ASSUME DebounceInv, NEW k \in DebounceKey, Admit(k)
    PROVE  DebounceInv'
<1>. DEFINE e == [j \in Stored(expiry) \cup {k} |-> IF j = k THEN WindowMs[k] ELSE expiry[j]]
<1>1. DOMAIN e = DOMAIN expiry \cup {k} /\ DOMAIN e \subseteq DebounceKey
  BY DEF Stored, DebounceInv, DebounceTypeOK
<1>2. \A j \in DOMAIN e : e[j] \in 0..WindowMs[j]
  BY <1>1, WindowsPositive DEF Stored, DebounceInv, DebounceTypeOK
<1>3. \A j \in DOMAIN e : e[j] \in Nat
  BY <1>1, <1>2, WindowsPositive
<1>4. expiry' = sweep(e)
  BY DEF Admit
<1>5. e = [j \in DOMAIN e |-> e[j]]
  OBVIOUS
<1>. HIDE DEF e
<1>6. /\ DOMAIN expiry' \subseteq DOMAIN e
      /\ \A j \in DOMAIN e : e[j] > 0 => j \in DOMAIN expiry'
      /\ \A j \in DOMAIN expiry' : expiry'[j] = e[j]
      /\ expiry' = [j \in DOMAIN expiry' |-> expiry'[j]]
  BY <1>3, <1>4, <1>5, SweepKeepsWindows
<1>7. since' = [since EXCEPT ![k] = 0]
  BY DEF Admit
<1>8. DebounceTypeOK'
  <2>1. since' \in [DebounceKey -> Nat] /\ \A j \in DebounceKey : since'[j] <= WindowMs[j]
    <3>1. since \in [DebounceKey -> Nat] /\ \A j \in DebounceKey : since[j] <= WindowMs[j]
      BY DEF DebounceInv, DebounceTypeOK
    <3>2. \A j \in DebounceKey : WindowMs[j] \in Nat \ {0}
      BY WindowsPositive
    <3>. QED  BY <1>7, <3>1, <3>2
  <2>2. DOMAIN expiry' \subseteq DebounceKey /\ \A j \in DOMAIN expiry' : expiry'[j] \in 0..WindowMs[j]
    BY <1>1, <1>2, <1>6
  <2>. QED  BY <2>1, <2>2, <1>6 DEF DebounceTypeOK, Stored
<1>9. ASSUME NEW j \in DebounceKey PROVE since'[j] = WindowMs[j] - WindowLeft(j)'
  <2>1. CASE j = k
    <3>1. k \in DOMAIN e /\ e[k] = WindowMs[k]
      BY DEF e
    <3>2. WindowLeft(k)' = WindowMs[k]
      BY <3>1, <1>6, WindowsPositive DEF WindowLeft, InWindow, Stored
    <3>3. since \in [DebounceKey -> Nat] /\ WindowMs[k] \in Nat
      BY WindowsPositive DEF DebounceInv, DebounceTypeOK
    <3>4. since'[k] = 0
      BY <1>7, <3>3
    <3>. QED  BY <2>1, <3>2, <3>3, <3>4
  <2>2. CASE j # k
    <3>1. j \in DOMAIN e <=> j \in DOMAIN expiry
      BY <1>1, <2>2
    <3>2. j \in DOMAIN expiry => e[j] = expiry[j]
      BY <2>2 DEF e, Stored
    <3>3. WindowLeft(j)' = WindowLeft(j)
      BY <3>1, <3>2, <1>3, <1>6 DEF WindowLeft, InWindow, Stored
    <3>. QED  BY <2>2, <3>3, <1>7 DEF DebounceInv, DebounceTypeOK, ExpiryExact
  <2>. QED  BY <2>1, <2>2
<1>. QED  BY <1>8, <1>9 DEF DebounceInv, ExpiryExact

LEMMA DebounceTickKeepsInv ==
    ASSUME DebounceInv, DebounceTick
    PROVE  DebounceInv'
<1>1. DOMAIN expiry' = DOMAIN expiry
  BY DEF DebounceTick, Stored
<1>2. DebounceTypeOK'
  BY <1>1, WindowsPositive DEF DebounceTick, Stored, DebounceInv, DebounceTypeOK
<1>3. ASSUME NEW k \in DebounceKey PROVE since'[k] = WindowMs[k] - WindowLeft(k)'
  <2>1. since[k] = WindowMs[k] - WindowLeft(k) /\ WindowMs[k] \in Nat \ {0} /\ since[k] \in Nat
    BY WindowsPositive DEF DebounceInv, DebounceTypeOK, ExpiryExact
  <2>2. since'[k] = IF since[k] < WindowMs[k] THEN since[k] + 1 ELSE since[k]
    BY DEF DebounceTick
  <2>3. CASE k \in DOMAIN expiry
    <3>1. expiry'[k] = IF expiry[k] > 0 THEN expiry[k] - 1 ELSE 0
      BY <2>3 DEF DebounceTick, Stored
    <3>2. expiry[k] \in 0..WindowMs[k]
      BY <2>3 DEF DebounceInv, DebounceTypeOK, Stored
    <3>. QED  BY <2>1, <2>2, <2>3, <3>1, <3>2, <1>1 DEF WindowLeft, InWindow, Stored
  <2>4. CASE k \notin DOMAIN expiry
    BY <2>1, <2>2, <2>4, <1>1 DEF WindowLeft, InWindow, Stored
  <2>. QED  BY <2>3, <2>4
<1>. QED  BY <1>2, <1>3 DEF DebounceInv, ExpiryExact

LEMMA DebounceStepInv == DebounceInv /\ [DebounceNext]_debounceVars => DebounceInv'
<1>. SUFFICES ASSUME DebounceInv, [DebounceNext]_debounceVars PROVE DebounceInv'
  OBVIOUS
<1>1. CASE DebounceTick
  BY <1>1, DebounceTickKeepsInv
<1>2. ASSUME NEW k \in DebounceKey, Admit(k) PROVE DebounceInv'
  BY <1>2, AdmitKeepsInv
<1>3. CASE UNCHANGED debounceVars
  BY <1>3 DEF debounceVars, DebounceInv, DebounceTypeOK, ExpiryExact, WindowLeft, InWindow, Stored
<1>4. ASSUME NEW k \in DebounceKey, Reject(k) PROVE DebounceInv'
  BY <1>3, <1>4 DEF Reject
<1>. QED  BY <1>1, <1>2, <1>3, <1>4 DEF DebounceNext

LEMMA ExactFromInv == DebounceInv => DebounceExact
BY WindowsPositive
   DEF DebounceInv, DebounceTypeOK, ExpiryExact, DebounceExact, WindowLeft, InWindow, Stored

(* For any windows and any size of the store, a request is admitted        *)
(* exactly if a window has passed since the last one admitted (canActivate *)
(* of the debounce guard).                                                 *)
THEOREM DebounceIsExact == DebounceSpec => [](DebounceTypeOK /\ DebounceExact)
<1>1. DebounceInit => DebounceInv
  BY DebounceInitInv
<1>2. DebounceInv /\ [DebounceNext]_debounceVars => DebounceInv'
  BY DebounceStepInv
<1>3. DebounceInv => DebounceTypeOK /\ DebounceExact
  BY ExactFromInv DEF DebounceInv
<1>. QED  BY <1>1, <1>2, <1>3, PTL DEF DebounceSpec
-----------------------------------------------------------------------------
(* A verification under way has proved the secret of the row, unless it    *)
(* was crossed: its UPDATE may then enable MFA.                            *)
EnablingProved ==
    \A c \in MfaRequest : mfaCall[c] = "enabling" /\ ~crossed => mfaSecret \in proved

MfaInv == MfaTypeOK /\ EnablingProved /\ MfaEnabledProved

LEMMA MfaInitInv == MfaInit => MfaInv
BY NoSecretIsNone DEF MfaInit, MfaInv, MfaTypeOK, MfaState, EnablingProved, MfaEnabledProved

LEMMA MfaStepInv == MfaInv /\ [MfaNext]_mfaVars => MfaInv'
<1>. SUFFICES ASSUME MfaInv, [MfaNext]_mfaVars PROVE MfaInv'
  OBVIOUS
<1>. USE DEF MfaInv, MfaTypeOK, MfaState, EnablingProved, MfaEnabledProved
<1>1. CASE setupMfa
  <2>1. \A c \in MfaRequest : mfaCall[c] = "enabling" => crossed'
    BY <1>1 DEF setupMfa, Waiting
  <2>2. mfaEnabled => crossed'
    BY <1>1 DEF setupMfa
  <2>3. crossed' \in BOOLEAN
    BY <1>1 DEF setupMfa
  <2>. QED  BY <1>1, <2>1, <2>2, <2>3 DEF setupMfa
<1>2. ASSUME NEW c \in MfaRequest, NEW s, verifyAndEnable(c, s) PROVE MfaInv'
  <2>1. mfaSecret \in given /\ mfaSecret \in proved'
    BY <1>2 DEF verifyAndEnable
  <2>. QED  BY <1>2, <2>1 DEF verifyAndEnable
<1>3. ASSUME NEW c \in MfaRequest, enable(c) PROVE MfaInv'
  BY <1>3 DEF enable
<1>4. ASSUME NEW c \in MfaRequest, NEW s, validateToken(c, s) PROVE MfaInv'
  <2>1. proved \subseteq proved' /\ proved' \subseteq given
    BY <1>4 DEF validateToken
  <2>2. \A d \in MfaRequest : mfaCall'[d] = "enabling" => mfaCall[d] = "enabling"
    BY <1>4 DEF validateToken
  <2>. QED  BY <1>4, <2>1, <2>2 DEF validateToken
<1>5. ASSUME NEW c \in MfaRequest, disableMfa(c) PROVE MfaInv'
  <2>1. \A d \in MfaRequest : mfaCall'[d] = "enabling" => crossed'
    BY <1>5 DEF disableMfa, Waiting
  <2>2. crossed' \in BOOLEAN
    BY <1>5 DEF disableMfa
  <2>. QED  BY <1>5, <2>1, <2>2 DEF disableMfa
<1>6. ASSUME NEW c \in MfaRequest, NEW s, rejectSetup(c) \/ rejectToken(c, s) PROVE MfaInv'
  BY <1>6 DEF rejectSetup, rejectToken, mfaVars
<1>7. CASE UNCHANGED mfaVars
  BY <1>7 DEF mfaVars
<1>. QED  BY <1>1, <1>2, <1>3, <1>4, <1>5, <1>6, <1>7 DEF MfaNext

(* For any number of requests of a user at one time, and tokens of the     *)
(* empty secret among theirs: unless a verification was crossed by a setup *)
(* or a disable, or a setup replaced a secret in use, MFA is enabled only  *)
(* with a secret a token was presented for (verifyAndEnable, validateToken *)
(* and disable of MfaService).                                             *)
THEOREM MfaSound == MfaSpec => [](MfaTypeOK /\ MfaEnabledProved)
<1>1. MfaInit => MfaInv
  BY MfaInitInv
<1>2. MfaInv /\ [MfaNext]_mfaVars => MfaInv'
  BY MfaStepInv
<1>3. MfaInv => MfaTypeOK /\ MfaEnabledProved
  BY DEF MfaInv
<1>. QED  BY <1>1, <1>2, <1>3, PTL DEF MfaSpec

-----------------------------------------------------------------------------
(* A reader is a witness of the row's absence from the moment it asks, or  *)
(* from the deletion; so is one that read null.                            *)
AbsenceWitnessed ==
    \A r \in Reader :
        /\ stage[r] # "idle" /\ row = Absent => r \in witnessed
        /\ stage[r] \in {"queried", "answered"} /\ value[r] = Absent => r \in witnessed

(* Nothing outdated is in the row or about to be cached.                   *)
NothingOutdated ==
    /\ row \notin outdated /\ cached \notin outdated
    /\ \A r \in Queried : value[r] \notin outdated

CacheInv == CacheTypeOK /\ AbsenceWitnessed /\ NothingOutdated

LEMMA CacheInitInv == CacheInit => CacheInv
BY VersionsAreValues
   DEF CacheInit, CacheInv, CacheTypeOK, Row, ReaderStage, AbsenceWitnessed, NothingOutdated, Queried

LEMMA CacheStepInv == CacheInv /\ [CacheNext]_cacheVars => CacheInv'
<1>. SUFFICES ASSUME CacheInv, [CacheNext]_cacheVars PROVE CacheInv'
  OBVIOUS
<1>. USE VersionsAreValues
         DEF CacheInv, CacheTypeOK, Row, ReaderStage, AbsenceWitnessed, NothingOutdated, Queried
<1>1. CASE expire
  BY <1>1 DEF expire
<1>2. CASE intercept
  <2>1. outdated' \subseteq written /\ row \notin outdated'
    BY <1>2 DEF intercept
  <2>2. \A r \in Reader : stage[r] = "queried" => value[r] \notin outdated'
    BY <1>2 DEF intercept
  <2>. QED  BY <1>2, <2>1, <2>2 DEF intercept
<1>3. ASSUME NEW v \in Row, write(v) PROVE CacheInv'
  <2>1. row' = v /\ v \notin outdated /\ outdated' = outdated
    BY <1>3 DEF write
  <2>2. AbsenceWitnessed'
    BY <1>3 DEF write
  <2>3. CacheTypeOK'
    BY <1>3 DEF write
  <2>4. NothingOutdated'
    BY <1>3, <2>1 DEF write
  <2>. QED  BY <2>2, <2>3, <2>4
<1>4. ASSUME NEW r \in Reader, lookup(r) PROVE CacheInv'
  <2>1. CacheTypeOK'
    BY <1>4 DEF lookup
  <2>2. AbsenceWitnessed'
    BY <1>4 DEF lookup
  <2>3. NothingOutdated'
    BY <1>4 DEF lookup
  <2>. QED  BY <2>1, <2>2, <2>3
<1>5. ASSUME NEW r \in Reader, query(r) PROVE CacheInv'
  BY <1>5 DEF query
<1>6. ASSUME NEW r \in Reader, fill(r) PROVE CacheInv'
  BY <1>6 DEF fill
<1>7. ASSUME NEW r \in Reader, returned(r) PROVE CacheInv'
  BY <1>7 DEF returned
<1>8. CASE UNCHANGED cacheVars
  BY <1>8 DEF cacheVars
<1>. QED  BY <1>1, <1>2, <1>3, <1>4, <1>5, <1>6, <1>7, <1>8 DEF CacheNext

LEMMA CacheInvHolds == CacheSpec => []CacheInv
BY CacheInitInv, CacheStepInv, PTL DEF CacheSpec

(* The types of the cache and of its readers hold for any number of them.  *)
THEOREM CacheTyped == CacheSpec => []CacheTypeOK
<1>1. CacheInv => CacheTypeOK
  BY DEF CacheInv
<1>. QED  BY <1>1, CacheInvHolds, PTL

(* For any number of readers: null in the cache is never answered          *)
(* (getOrSet of QueryCacheService takes it for a miss).                    *)
THEOREM AbsenceIsFresh == CacheSpec => []NoStaleAbsence
<1>1. CacheInv => NoStaleAbsence
  BY DEF CacheInv, AbsenceWitnessed, NoStaleAbsence
<1>. QED  BY <1>1, CacheInvHolds, PTL

(* What was overwritten before a clearing of the cache is not cached       *)
(* again, if no reader was between its query and its fill then             *)
(* (CacheInvalidationInterceptor).                                         *)
THEOREM CacheSound == CacheSpec => []ClearedForGood
<1>1. CacheInv => ClearedForGood
  BY DEF CacheInv, NothingOutdated, ClearedForGood
<1>. QED  BY <1>1, CacheInvHolds, PTL

(* Readers that have queried the row and hold what it is no longer.        *)
Outdating == {r \in Queried : value[r] # row}
Stale == cached \notin {Miss, row}

(* The safety half of CacheConverges: while nobody writes, no reader comes *)
(* to hold an old value, and an old value gets into the cache only by one  *)
(* of those that hold it already, each of which puts it there once.        *)
StaleRunsOut ==
    [][row' = row =>
           /\ Outdating' \subseteq Outdating
           /\ Stale' /\ cached' # cached => Outdating' # Outdating]_cacheVars

(* From a write to the next, the cache gets an old value at most as often  *)
(* as there were readers under way (getOrSet of QueryCacheService), and    *)
(* only the end of its ttl takes away the last.                            *)
THEOREM StaleReadersRunOut == CacheSpec => StaleRunsOut
<1>1. ASSUME CacheInv, [CacheNext]_cacheVars, row' = row
      PROVE  /\ Outdating' \subseteq Outdating
             /\ Stale' /\ cached' # cached => Outdating' # Outdating
  <2>. USE VersionsAreValues DEF CacheInv, CacheTypeOK, Row, ReaderStage, Outdating, Queried, Stale
  <2>1. CASE expire
    BY <1>1, <2>1 DEF expire
  <2>2. CASE intercept
    BY <1>1, <2>2 DEF intercept
  <2>3. ASSUME NEW v \in Row, write(v) PROVE FALSE
    BY <1>1, <2>3 DEF write
  <2>4. ASSUME NEW r \in Reader, lookup(r)
        PROVE  Outdating' \subseteq Outdating /\ cached' = cached
    BY <1>1, <2>4 DEF lookup
  <2>5. ASSUME NEW r \in Reader, query(r)
        PROVE  Outdating' \subseteq Outdating /\ cached' = cached
    BY <1>1, <2>5 DEF query
  <2>6. ASSUME NEW r \in Reader, fill(r)
        PROVE  /\ Outdating' \subseteq Outdating
               /\ Stale' => r \in Outdating \ Outdating'
    BY <1>1, <2>6 DEF fill
  <2>7. ASSUME NEW r \in Reader, returned(r)
        PROVE  Outdating' \subseteq Outdating /\ cached' = cached
    BY <1>1, <2>7 DEF returned
  <2>8. CASE UNCHANGED cacheVars
    BY <2>8 DEF cacheVars
  <2>. QED  BY <1>1, <2>1, <2>2, <2>3, <2>4, <2>5, <2>6, <2>7, <2>8 DEF CacheNext
<1>2. CacheInv /\ [CacheNext]_cacheVars
      => [row' = row =>
             /\ Outdating' \subseteq Outdating
             /\ Stale' /\ cached' # cached => Outdating' # Outdating]_cacheVars
  BY <1>1
<1>. QED  BY <1>2, CacheInvHolds, PTL DEF CacheSpec, StaleRunsOut

-----------------------------------------------------------------------------
(* What a comparison under way will write back is the baseline as it was   *)
(* set last, unless it was set meanwhile.                                  *)
ComparisonsIntended ==
    \A r \in Run :
        comparing[r] # NoFile /\ comparing[r].name \notin overlapped =>
            comparing[r].baseline = intended[comparing[r].name]

VisualInv == VisualTypeOK /\ ComparisonsIntended /\ BaselineIntended

LEMMA VisualInitInv == VisualInit => VisualInv
BY DEF VisualInit, VisualInv, VisualTypeOK, ComparisonsIntended, BaselineIntended

LEMMA SetBaselineKeeps ==
    ASSUME VisualInv, NEW n \in TestName, NEW c \in Response, SetBaseline(n, c),
           UNCHANGED comparing, current' \in [TestName -> Response \cup {NoFile}]
    PROVE  VisualInv'
<1>1. VisualTypeOK'
  BY DEF VisualInv, VisualTypeOK, SetBaseline
<1>2. BaselineIntended'
  BY DEF VisualInv, VisualTypeOK, BaselineIntended, SetBaseline
<1>3. ASSUME NEW r \in Run, comparing[r] # NoFile, comparing[r].name \notin overlapped'
      PROVE  comparing[r].baseline = intended'[comparing[r].name]
  <2>1. comparing[r].name # n
    BY <1>3 DEF SetBaseline, Comparing
  <2>2. comparing[r].name \in TestName
    BY <1>3 DEF VisualInv, VisualTypeOK, Comparison
  <2>3. comparing[r].name \notin overlapped
    BY <1>3, <2>1 DEF SetBaseline
  <2>4. intended'[comparing[r].name] = intended[comparing[r].name]
    BY <2>1, <2>2 DEF SetBaseline, VisualInv, VisualTypeOK
  <2>. QED  BY <1>3, <2>3, <2>4 DEF VisualInv, ComparisonsIntended
<1>. QED  BY <1>1, <1>2, <1>3 DEF VisualInv, ComparisonsIntended

LEMMA VisualStepInv == VisualInv /\ [VisualNext]_visualVars => VisualInv'
<1>. SUFFICES ASSUME VisualInv, [VisualNext]_visualVars PROVE VisualInv'
  OBVIOUS
<1>. USE FilesAreDistinct, NoFileIsNoTest
<1>1. ASSUME NEW n \in TestName, updateBaselines(n) PROVE VisualInv'
  <2>1. current[n] \in Response
    BY <1>1 DEF updateBaselines, VisualInv, VisualTypeOK
  <2>. QED  BY <1>1, <2>1, SetBaselineKeeps DEF updateBaselines, VisualInv, VisualTypeOK
<1>2. ASSUME NEW n \in TestName, cleanupOld(n) PROVE VisualInv'
  BY <1>2 DEF cleanupOld, VisualInv, VisualTypeOK, ComparisonsIntended, BaselineIntended
<1>3. ASSUME NEW n \in TestName, crashWriting(n) PROVE VisualInv'
  BY <1>3 DEF crashWriting, VisualInv, VisualTypeOK, ComparisonsIntended, BaselineIntended
<1>4. ASSUME NEW r \in Run, finishComparison(r) PROVE VisualInv'
  <2>. DEFINE c == comparing[r]
  <2>1. c \in Comparison /\ c # NoFile
    BY <1>4 DEF finishComparison, VisualInv, VisualTypeOK
  <2>2. c.name \in TestName /\ c.response \in Response /\ c.baseline \in Response
    BY <2>1 DEF Comparison
  <2>3. c.name \notin overlapped => c.baseline = intended[c.name]
    BY <2>1 DEF VisualInv, ComparisonsIntended
  <2>4. /\ current' = [current EXCEPT ![c.name] = c.response]
        /\ baseline' = [baseline EXCEPT ![c.name] = c.baseline]
        /\ comparing' = [comparing EXCEPT ![r] = NoFile]
        /\ UNCHANGED <<intended, overlapped>>
    BY <1>4 DEF finishComparison
  <2>. HIDE DEF c
  <2>5. VisualTypeOK'
    BY <2>2, <2>4 DEF VisualInv, VisualTypeOK
  <2>6. BaselineIntended'
    BY <2>2, <2>3, <2>4 DEF VisualInv, VisualTypeOK, BaselineIntended
  <2>7. ComparisonsIntended'
    BY <2>4 DEF VisualInv, VisualTypeOK, ComparisonsIntended
  <2>. QED  BY <2>5, <2>6, <2>7 DEF VisualInv
<1>5. ASSUME NEW r \in Run, NEW n \in TestName, NEW c \in Response, testMatches(r, n, c)
      PROVE  VisualInv'
  BY <1>5 DEF testMatches, VisualInv, VisualTypeOK, ComparisonsIntended, BaselineIntended
<1>6. ASSUME NEW r \in Run, NEW n \in TestName, NEW c \in Response, testTorn(r, n, c)
      PROVE  VisualInv'
  BY <1>6 DEF testTorn, VisualInv, VisualTypeOK, ComparisonsIntended, BaselineIntended
<1>7. ASSUME NEW r \in Run, NEW n \in TestName, NEW c \in Response, testDiffers(r, n, c)
      PROVE  VisualInv'
  <2>. DEFINE d == [name |-> n, response |-> c, baseline |-> baseline[n]]
  <2>1. d \in Comparison /\ d.name = n /\ d.baseline = baseline[n]
    BY <1>7 DEF testDiffers, Comparison
  <2>2. n \notin overlapped => baseline[n] = intended[n]
    BY <1>7 DEF testDiffers, VisualInv, BaselineIntended
  <2>3. /\ comparing' = [comparing EXCEPT ![r] = d]
        /\ current' = [current EXCEPT ![n] = c]
        /\ UNCHANGED <<baseline, intended, overlapped>>
    BY <1>7 DEF testDiffers
  <2>. HIDE DEF d
  <2>4. VisualTypeOK'
    BY <2>1, <2>3 DEF VisualInv, VisualTypeOK
  <2>5. ComparisonsIntended'
    BY <2>1, <2>2, <2>3 DEF VisualInv, VisualTypeOK, ComparisonsIntended
  <2>. QED  BY <2>3, <2>4, <2>5 DEF VisualInv, BaselineIntended
<1>8. ASSUME NEW r \in Run, NEW n \in TestName, NEW c \in Response, NEW asked \in BOOLEAN,
             createBaseline(r, n, c, asked)
      PROVE  VisualInv'
  <2>1. current' \in [TestName -> Response \cup {NoFile}]
    BY <1>8 DEF createBaseline, VisualInv, VisualTypeOK
  <2>. QED  BY <1>8, <2>1, SetBaselineKeeps DEF createBaseline
<1>9. CASE UNCHANGED visualVars
  BY <1>9 DEF visualVars, VisualInv, VisualTypeOK, ComparisonsIntended, BaselineIntended
<1>. QED  BY <1>1, <1>2, <1>3, <1>4, <1>5, <1>6, <1>7, <1>8, <1>9 DEF VisualNext

(* For any tests, runs, responses and threshold: a baseline is what it was *)
(* last set to on request, or torn by a crash, unless it was set while a   *)
(* test of its name awaited (compareResponses and updateBaselines of       *)
(* VisualRegressionService).                                               *)
THEOREM BaselinesIntended == VisualSpec => [](VisualTypeOK /\ BaselineIntended)
<1>1. VisualInit => VisualInv
  BY VisualInitInv
<1>2. VisualInv /\ [VisualNext]_visualVars => VisualInv'
  BY VisualStepInv
<1>3. VisualInv => VisualTypeOK /\ BaselineIntended
  BY DEF VisualInv
<1>. QED  BY <1>1, <1>2, <1>3, PTL DEF VisualSpec
-----------------------------------------------------------------------------
(* The rules and the regular expression agree on every password.           *)
LEMMA RulesAgree ==
    ASSUME NEW p \in Password
    PROVE  errors(p) = {} <=> acceptsNew(p)
<1>1. p.length \in Nat
  BY LengthsAreNumbers DEF Password
<1>2. CASE p.length = 0
  BY <1>2 DEF errors, acceptsNew
<1>3. CASE p.length # 0
  <2>1. errors(p) = {} <=> /\ ~(p.length < MIN_LENGTH) /\ ~(p.length > MAX_LENGTH)
                           /\ Required \ p.kinds = {} /\ p.kinds \ Required = {}
    BY <1>3 DEF errors
  <2>2. p.kinds \ Required = {} <=> "other" \notin p.kinds
    <3>1. p.kinds \subseteq Kind
      BY DEF Password
    <3>. QED  BY <3>1 DEF Kind, Required
  <2>3. Required \ p.kinds = {} <=> Required \subseteq p.kinds
    OBVIOUS
  <2>4. ~(p.length < MIN_LENGTH) /\ ~(p.length > MAX_LENGTH) <=> p.length \in 8..128
    BY <1>1 DEF MIN_LENGTH, MAX_LENGTH
  <2>. QED  BY <2>1, <2>2, <2>3, <2>4 DEF acceptsNew, isValid
<1>. QED  BY <1>2, <1>3

(* A password that is taken has five points.                               *)
LEMMA TakenIsStrong ==
    ASSUME NEW p \in Password, acceptsNew(p)
    PROVE  calculateStrength(p) \in {"strong", "very_strong"}
<1>1. p.length \in Nat /\ p.length >= MIN_LENGTH /\ p.length # 0 /\ Required \subseteq p.kinds
  BY DEF acceptsNew, isValid, MIN_LENGTH
<1>2. p.kinds \cap Required = {"lower", "upper", "digit", "special"}
  BY <1>1 DEF Required
<1>3. Cardinality({"lower", "upper", "digit", "special"}) = 4
  <2>1. IsFiniteSet({}) /\ Cardinality({}) = 0
    BY FS_EmptySet
  <2>2. IsFiniteSet({"lower"}) /\ Cardinality({"lower"}) = 1
    BY <2>1, FS_AddElement
  <2>3. IsFiniteSet({"lower"} \cup {"upper"}) /\ Cardinality({"lower"} \cup {"upper"}) = 2
    BY <2>2, FS_AddElement
  <2>4. /\ IsFiniteSet(({"lower"} \cup {"upper"}) \cup {"digit"})
        /\ Cardinality(({"lower"} \cup {"upper"}) \cup {"digit"}) = 3
    BY <2>3, FS_AddElement
  <2>5. Cardinality((({"lower"} \cup {"upper"}) \cup {"digit"}) \cup {"special"}) = 4
    BY <2>4, FS_AddElement
  <2>6. {"lower", "upper", "digit", "special"}
            = (({"lower"} \cup {"upper"}) \cup {"digit"}) \cup {"special"}
    OBVIOUS
  <2>. QED  BY <2>5, <2>6
<1>4. score(p) = 5
  BY <1>1, <1>2, <1>3 DEF score, MIN_LENGTH
<1>. QED  BY <1>4 DEF calculateStrength

PolicyInv ==
    /\ account # NoPassword => account \in Password /\ acceptsNew(account)
    /\ OnePolicy

LEMMA PolicyStepInv == PolicyInv /\ [PolicyNext]_policyVars => PolicyInv'
<1>. SUFFICES ASSUME PolicyInv, [PolicyNext]_policyVars PROVE PolicyInv'
  OBVIOUS
<1>1. CASE logIn
  <2>1. acceptsLogin(account)
    BY <1>1 DEF logIn, PolicyInv, acceptsNew, acceptsLogin
  <2>2. reply'.op = "login" /\ reply'.ok = acceptsLogin(account) /\ account' = account
    BY <1>1 DEF logIn, Says
  <2>. QED  BY <2>1, <2>2 DEF PolicyInv, OnePolicy
<1>2. CASE takeReply
  BY <1>2 DEF takeReply, NoReply, PolicyInv, OnePolicy
<1>3. ASSUME NEW p \in Password, setPassword(p) PROVE PolicyInv'
  <2>1. reply'.op = "set" /\ account' = IF acceptsNew(p) THEN p ELSE account
    BY <1>3 DEF setPassword, Says
  <2>. QED  BY <1>3, <2>1 DEF PolicyInv, OnePolicy
<1>4. ASSUME NEW p \in Password, checkStrength(p) PROVE PolicyInv'
  <2>1. /\ reply'.op = "check" /\ reply'.password = p /\ account' = account
        /\ reply'.ok = (errors(p) = {}) /\ reply'.strength = calculateStrength(p)
    BY <1>4 DEF checkStrength, Says, validate
  <2>. QED  BY <1>4, <2>1, RulesAgree, TakenIsStrong DEF PolicyInv, OnePolicy
<1>5. CASE UNCHANGED policyVars
  BY <1>5 DEF policyVars, PolicyInv, OnePolicy
<1>. QED  BY <1>1, <1>2, <1>3, <1>4, <1>5 DEF PolicyNext

(* The password of the account and the one last told of are passwords, and *)
(* what is told of it is yes or no (PasswordValidator and the DTOs).       *)
THEOREM PolicyTyped == PolicySpec => []PolicyTypeOK
<1>1. PolicyInit => PolicyTypeOK
  BY DEF PolicyInit, NoReply, PolicyTypeOK
<1>2. PolicyTypeOK /\ [PolicyNext]_policyVars => PolicyTypeOK'
  <2>. SUFFICES ASSUME PolicyTypeOK, [PolicyNext]_policyVars PROVE PolicyTypeOK'
    OBVIOUS
  <2>1. ASSUME NEW op, NEW p \in Password, NEW ok \in BOOLEAN, NEW strength,
               Says(op, p, ok, strength), account' \in {account, p}
        PROVE  PolicyTypeOK'
    BY <2>1 DEF Says, PolicyTypeOK
  <2>2. CASE logIn
    <3>1. account \in Password
      BY <2>2 DEF logIn, PolicyTypeOK
    <3>2. acceptsLogin(account) \in BOOLEAN
      BY DEF acceptsLogin
    <3>. QED  BY <2>1, <2>2, <3>1, <3>2 DEF logIn
  <2>3. CASE takeReply
    BY <2>3 DEF takeReply, NoReply, PolicyTypeOK
  <2>4. ASSUME NEW p \in Password, setPassword(p) PROVE PolicyTypeOK'
    <3>1. acceptsNew(p) \in BOOLEAN
      BY DEF acceptsNew, isValid
    <3>. QED  BY <2>1, <2>4, <3>1 DEF setPassword
  <2>5. ASSUME NEW p \in Password, checkStrength(p) PROVE PolicyTypeOK'
    <3>1. validate(p).isValid \in BOOLEAN
      BY DEF validate
    <3>. QED  BY <2>1, <2>5, <3>1 DEF checkStrength
  <2>6. CASE UNCHANGED policyVars
    BY <2>6 DEF policyVars, PolicyTypeOK
  <2>. QED  BY <2>2, <2>3, <2>4, <2>5, <2>6 DEF PolicyNext
<1>. QED  BY <1>1, <1>2, PTL DEF PolicySpec

(* For passwords of any length: check-password-strength calls exactly      *)
(* those valid that registering takes, and a password that was taken is    *)
(* taken at the login (PasswordValidator and the DTOs).                    *)
THEOREM PolicyIsOne == PolicySpec => []OnePolicy
<1>1. PolicyInit => PolicyInv
  BY DEF PolicyInit, NoReply, PolicyInv, OnePolicy
<1>2. PolicyInv /\ [PolicyNext]_policyVars => PolicyInv'
  BY PolicyStepInv
<1>3. PolicyInv => OnePolicy
  BY DEF PolicyInv
<1>. QED  BY <1>1, <1>2, <1>3, PTL DEF PolicySpec
-----------------------------------------------------------------------------
(* A probe finds down what was down when it asked, unless its client had   *)
(* given up Redis by then.                                                 *)
FoundDown ==
    probe # "idle" =>
        /\ \A d \in Dependency : found[d] = "down" => d \in down
        /\ \A d \in down : d \in Asked(probe) /\ found[d] \in {"down", "ended"}
        /\ \A d \in Dependency : found[d] = "ended" => d = "redis" /\ d \in Asked(probe)

HealthInv == HealthTypeOK /\ FoundDown

LEMMA HealthInitInv == HealthInit => HealthInv
BY DEF HealthInit, HealthInv, HealthTypeOK, FoundDown, Dependency

LEMMA HealthStepInv == HealthInv /\ [HealthNext]_healthVars => HealthInv'
<1>. SUFFICES ASSUME HealthInv, [HealthNext]_healthVars PROVE HealthInv'
  OBVIOUS
<1>. USE DEF HealthInv, HealthTypeOK
<1>1. CASE answerProbe
  BY <1>1 DEF answerProbe, FoundDown
<1>2. ASSUME NEW p \in Probe, startProbe(p) PROVE HealthInv'
  BY <1>2 DEF startProbe, FoundDown
<1>3. ASSUME NEW d \in Dependency, NEW result \in {"up", "down"}, comesBack(d, result)
      PROVE  HealthInv'
  <2>1. /\ d \in Asked(probe) /\ probe # "idle" /\ probe' = probe /\ configured' = configured
        /\ found' = [found EXCEPT ![d] = result] /\ found[d] = "unknown"
        /\ down' = IF result = "down" THEN down \cup {d} ELSE down
        /\ redis' = redis /\ redisServes' = redisServes
    BY <1>3 DEF comesBack, ComesBack
  <2>2. Asked(probe)' = Asked(probe)
    BY <2>1 DEF Asked
  <2>3. FoundDown'
    BY <2>1, <2>2 DEF FoundDown
  <2>. QED  BY <2>1, <2>3
<1>4. CASE ping
  <2>. DEFINE result == IF redis = "end" THEN "ended" ELSE IF redisServes THEN "up" ELSE "down"
  <2>1. /\ "redis" \in Asked(probe) /\ probe # "idle" /\ probe' = probe /\ configured' = configured
        /\ found' = [found EXCEPT !["redis"] = result] /\ found["redis"] = "unknown"
        /\ down' = IF redisServes THEN down ELSE down \cup {"redis"}
        /\ redis' \in {"ready", "end"} /\ redisServes' = redisServes
    BY <1>4 DEF ping, ComesBack
  <2>2. Asked(probe)' = Asked(probe) /\ "redis" \in Dependency
    BY <2>1 DEF Asked, Dependency
  <2>3. result \in {"up", "down", "ended"} /\ (result = "down" => ~redisServes)
        /\ (~redisServes => result # "up")
    OBVIOUS
  <2>. HIDE DEF result
  <2>4. FoundDown'
    BY <2>1, <2>2, <2>3 DEF FoundDown
  <2>. QED  BY <2>1, <2>2, <2>3, <2>4
<1>5. CASE redisStops \/ redisReturns
  <2>1. /\ UNCHANGED <<configured, probe, found, down>> /\ redisServes' \in BOOLEAN
        /\ redis' \in {"wait", "ready", "end"}
    BY <1>5 DEF redisStops, redisReturns
  <2>. QED  BY <2>1 DEF FoundDown, Asked
<1>6. CASE restart
  BY <1>6 DEF restart, FoundDown
<1>7. CASE UNCHANGED healthVars
  BY <1>7 DEF healthVars, FoundDown, Asked
<1>. QED  BY <1>1, <1>2, <1>3, <1>4, <1>5, <1>6, <1>7 DEF HealthNext

LEMMA TruthfulFromInv == HealthInv => HealthTruthful
<1>. SUFFICES ASSUME HealthInv, Done, probe # "live" PROVE HealthTruthful
  BY DEF HealthTruthful
<1>1. /\ probe \in {"health", "ready"} /\ "database" \in configured /\ configured \subseteq Dependency
      /\ \A d \in Asked(probe) : d \in Dependency /\ found[d] \in {"up", "down", "ended"}
  <2>1. probe \in {"health", "ready"} /\ configured \subseteq Dependency /\ "database" \in configured
    BY DEF Done, Probe, HealthInv, HealthTypeOK
  <2>2. Asked(probe) \subseteq Dependency
    BY <2>1 DEF Asked
  <2>. QED  BY <2>1, <2>2 DEF Done, HealthInv, HealthTypeOK
<1>2. probe = "health" => Asked(probe) = configured
  BY DEF Asked
<1>3. probe = "ready" => Asked(probe) = configured \ Service
  BY DEF Asked
<1>4. /\ \A d \in Dependency : found[d] = "down" => d \in down
      /\ \A d \in down : d \in Asked(probe) /\ found[d] \in {"down", "ended"}
      /\ \A d \in Dependency : found[d] = "ended" => d = "redis" /\ d \in Asked(probe)
  BY <1>1 DEF FoundDown, HealthInv
<1>5. ASSUME down = {}, found["redis"] # "ended" PROVE statusOf(probe) # 503
  <2>1. \A d \in Asked(probe) : found[d] = "up"
    BY <1>1, <1>4, <1>5
  <2>2. CASE probe = "ready"
    <3>1. checkReadiness
      BY <1>1, <1>3, <2>1, <2>2 DEF checkReadiness, databaseUp, redisUp, Service
    <3>. QED  BY <2>2, <3>1 DEF statusOf
  <2>3. CASE probe = "health"
    <3>1. checkFullHealth
      BY <1>1, <1>2, <2>1, <2>3 DEF checkFullHealth, databaseUp, redisUp, externalUp
    <3>. QED  BY <2>3, <3>1 DEF statusOf
  <2>. QED  BY <1>1, <2>2, <2>3
<1>6. ASSUME down \cap {"database", "redis"} # {} \/ found["redis"] = "ended"
      PROVE  statusOf(probe) = 503
  <2>1. "redis" \in Dependency
    BY DEF Dependency
  <2>2. \E d \in {"database", "redis"} : d \in Asked(probe) /\ found[d] \in {"down", "ended"}
    BY <1>4, <1>6, <2>1
  <2>3. ~databaseUp \/ ~redisUp
    BY <1>1, <1>2, <1>3, <2>2 DEF databaseUp, redisUp
  <2>. QED  BY <1>1, <2>3 DEF statusOf, checkFullHealth, checkReadiness
<1>7. ASSUME probe = "health", statusOf("health") = 200, down # {} PROVE overall = "degraded"
  <2>1. PICK d \in down : d \in configured /\ found[d] \in {"down", "ended"}
    BY <1>2, <1>4, <1>7
  <2>2. databaseUp /\ redisUp
    BY <1>7 DEF statusOf, checkFullHealth
  <2>3. d # "redis" /\ d # "database" /\ d \in Dependency
    BY <1>1, <2>1, <2>2 DEF databaseUp, redisUp
  <2>4. d \in configured \cap Service /\ found[d] = "down"
    BY <1>4, <2>1, <2>3 DEF Dependency
  <2>. QED  BY <2>4 DEF overall
<1>. QED  BY <1>5, <1>6, <1>7 DEF HealthTruthful

(* Whatever is configured, and however Redis comes and goes: a probe       *)
(* answers 503 only with something down or after its client gave up Redis, *)
(* then always, and with the database or Redis down; and a 200 over a      *)
(* service that is down says so (HealthService and                         *)
(* ExternalServicesHealthIndicator).                                       *)
THEOREM HealthIsTruthful == HealthSpec => [](HealthTypeOK /\ HealthTruthful)
<1>1. HealthInv => HealthTypeOK /\ HealthTruthful
  BY TruthfulFromInv DEF HealthInv
<1>. QED  BY <1>1, HealthInitInv, HealthStepInv, PTL DEF HealthSpec

-----------------------------------------------------------------------------
(* What is logged.  sanitize descends one name at a time, so what it makes *)
(* of a value is shown by induction on how many names are left, which is   *)
(* stated with a least element: a set of naturals with none left out.      *)
Smaller == {p \in Nat \X Nat : p[1] < p[2]}

(* A set of naturals has a least element.                                  *)
LEMMA Least ==
    ASSUME NEW T, T \subseteq Nat, T # {}
    PROVE  \E n \in T : \A m \in T : n <= m
<1>1. Smaller = OpToRel(<, Nat)
  BY DEF Smaller, OpToRel
<1>2. IsWellFoundedOn(Smaller, Nat)
  BY <1>1, NatLessThanWellFounded
<1>3. PICK n \in T : \A m \in T : ~ (<<m, n>> \in Smaller)
  BY <1>2, WFMin
<1>4. ASSUME NEW m \in T PROVE n <= m
  <2>1. m \in Nat /\ n \in Nat /\ <<m, n>> \in Nat \X Nat
    OBVIOUS
  <2>2. ~(m < n)
    BY <1>3, <2>1 DEF Smaller
  <2>. QED  BY <2>1, <2>2
<1>. QED  BY <1>4

(* A set with 0 and the successor of each of its members has every natural.*)
LEMMA SetInduction ==
    ASSUME NEW T, 0 \in T, \A n \in Nat : n \in T => n + 1 \in T
    PROVE  Nat \subseteq T
<1>. SUFFICES ASSUME Nat \ T # {} PROVE FALSE
  OBVIOUS
<1>1. PICK n \in Nat \ T : \A m \in Nat \ T : n <= m
  BY Least
<1>2. n # 0 /\ n - 1 \in Nat /\ n - 1 \in T
  BY <1>1
<1>. QED  BY <1>1, <1>2

(* One step of sanitizeBelow, from what comes of the rest.                 *)
Below1(v, n, rest) ==
    IF Len(v.names) - n > MaxDepth THEN Leaf("MAX_DEPTH_EXCEEDED")
    ELSE IF n = 0 THEN Leaf(sanitizeString(v.leaf))
    ELSE LET key == v.names[Len(v.names) - n + 1] IN
         IF isSensitiveField(key) /\ (n > 1 \/ v.leaf # "null")
         THEN Under(key, Leaf("REDACTED"))
         ELSE Under(key, rest)

(* sanitizeBelow is the function its recursion describes: it descends by   *)
(* one, so there is such a function up to every length.                    *)
LEMMA BelowDefined ==
    ASSUME NEW v, Len(v.names) \in Nat
    PROVE  sanitizeBelow(v) = [n \in 0..Len(v.names) |-> Below1(v, n, sanitizeBelow(v)[n - 1])]
<1>. DEFINE Good(g, m) == g = [n \in 0..m |-> Below1(v, n, g[n - 1])]
            T == {m \in Nat : \E g : Good(g, m)}
<1>1. 0 \in T
  <2>1. \A x, y : Below1(v, 0, x) = Below1(v, 0, y)
    BY DEF Below1
  <2>. DEFINE g == [n \in 0..0 |-> Below1(v, n, 0)]
  <2>2. Good(g, 0)
    <3>1. \A n \in 0..0 : Below1(v, n, 0) = Below1(v, n, g[n - 1])
      <4>. HIDE DEF g
      <4>. QED  BY <2>1
    <3>. QED  BY <3>1
  <2>. QED  BY <2>2
<1>2. ASSUME NEW m \in Nat, m \in T PROVE m + 1 \in T
  <2>1. PICK g : Good(g, m)
    BY <1>2
  <2>. DEFINE h == [n \in 0..(m + 1) |-> IF n <= m THEN g[n] ELSE Below1(v, m + 1, g[m])]
  <2>2. ASSUME NEW n \in 0..(m + 1) PROVE h[n] = Below1(v, n, h[n - 1])
    <3>1. CASE n = 0
      <4>1. h[n] = Below1(v, n, g[n - 1])
        BY <2>1, <3>1
      <4>. QED  BY <3>1, <4>1 DEF Below1
    <3>2. CASE n \in 1..m
      <4>1. h[n] = Below1(v, n, g[n - 1]) /\ h[n - 1] = g[n - 1]
        BY <2>1, <3>2
      <4>. QED  BY <4>1
    <3>3. CASE n = m + 1
      <4>1. h[n] = Below1(v, n, g[m]) /\ h[n - 1] = g[m] 
        BY <3>3
      <4>. QED  BY <4>1
    <3>. QED  BY <3>1, <3>2, <3>3
  <2>3. Good(h, m + 1)
    <3>1. h = [n \in 0..(m + 1) |-> h[n]]
      OBVIOUS
    <3>. HIDE DEF h
    <3>. QED  BY <2>2, <3>1
  <2>. HIDE DEF h
  <2>. QED  BY <2>3
<1>3. PICK g : Good(g, Len(v.names))
  <2>. HIDE DEF T
  <2>1. Nat \subseteq T
    BY <1>1, <1>2, SetInduction
  <2>. QED  BY <2>1 DEF T
<1>. QED  BY <1>3 DEF sanitizeBelow, Below1

LEMMA BelowAt ==
    ASSUME NEW v \in Value, NEW n \in 0..Len(v.names)
    PROVE  sanitizeBelow(v)[n] = Below1(v, n, sanitizeBelow(v)[n - 1])
<1>1. Len(v.names) \in Nat
  BY DEF Value
<1>2. sanitizeBelow(v) = [k \in 0..Len(v.names) |-> Below1(v, k, sanitizeBelow(v)[k - 1])]
  BY <1>1, BelowDefined
<1>. DEFINE f == sanitizeBelow(v)
<1>3. f = [k \in 0..Len(v.names) |-> Below1(v, k, f[k - 1])]
  BY <1>2
<1>. HIDE DEF f
<1>4. f[n] = Below1(v, n, f[n - 1])
  BY <1>3
<1>. QED  BY <1>4 DEF f

(* The names of v from below depth d to the k-th, with another leaf.       *)
Part(v, d, k, kind) == [names |-> SubSeq(v.names, d + 1, k), leaf |-> kind]

(* A name put before a part of the names is the part from that name on.    *)
LEMMA Parts ==
    ASSUME NEW v \in Value, NEW d \in Nat, NEW kind
    PROVE  /\ \A k \in Nat : d < k /\ k <= Len(v.names)
                 => Under(v.names[d + 1], Part(v, d + 1, k, kind)) = Part(v, d, k, kind)
           /\ d < Len(v.names) => Under(v.names[d + 1], Leaf(kind)) = Part(v, d, d + 1, kind)
           /\ d = Len(v.names) => Leaf(kind) = Part(v, d, d, kind)
<1>. DEFINE s == v.names
<1>1. s \in Seq(AnyName) /\ Len(s) \in Nat
  BY DEF Value
<1>2. ASSUME NEW k \in Nat, d < k, k <= Len(s)
      PROVE  SubSeq(s, d + 1, k) = <<s[d + 1]>> \o SubSeq(s, d + 1 + 1, k)
  <2>1. d + 1 \in 1..Len(s) /\ k \in (d + 1)..Len(s)
    BY <1>1, <1>2
  <2>. QED  BY <1>1, <2>1, SubSeqRecursiveFirst
<1>3. SubSeq(s, d + 1 + 1, d + 1) = <<>> /\ SubSeq(s, d + 1, d) = <<>>
  BY SubSeqEmpty
<1>4. ASSUME d < Len(s) PROVE SubSeq(s, d + 1, d + 1) = <<s[d + 1]>> \o <<>>
  <2>1. d + 1 \in Nat /\ d < d + 1 /\ d + 1 <= Len(s)
    BY <1>1, <1>4
  <2>2. SubSeq(s, d + 1, d + 1) = <<s[d + 1]>> \o SubSeq(s, d + 1 + 1, d + 1)
    BY <1>2, <2>1
  <2>. HIDE DEF s
  <2>. QED  BY <1>3, <2>2
<1>. HIDE DEF s
<1>5. \A k \in Nat : d < k /\ k <= Len(s) => Under(s[d + 1], Part(v, d + 1, k, kind)) = Part(v, d, k, kind)
  BY <1>2 DEF Under, Part, s
<1>6. d < Len(s) => Under(s[d + 1], Leaf(kind)) = Part(v, d, d + 1, kind)
  BY <1>4 DEF Under, Part, Leaf, s
<1>7. d = Len(s) => Leaf(kind) = Part(v, d, d, kind)
  BY <1>3 DEF Part, Leaf, s
<1>. QED  BY <1>5, <1>6, <1>7 DEF s

(* The first cut below depth d, and what stands at a cut.                  *)
FirstCutBelow(v, d, first) == first \in Cuts(v) /\ first > d /\ \A i \in Cuts(v) : i <= d \/ i >= first
Ending(v, first) == IF Hides(v, first) THEN "REDACTED" ELSE "MAX_DEPTH_EXCEEDED"

(* What comes of v below depth d, where the next cut is at first.          *)
CleanBelow(v, d) ==
    /\ (\A i \in Cuts(v) : i <= d) =>
          sanitizeBelow(v)[Len(v.names) - d] = Part(v, d, Len(v.names), sanitizeString(v.leaf))
    /\ \A first \in Nat : FirstCutBelow(v, d, first) =>
          sanitizeBelow(v)[Len(v.names) - d] = Part(v, d, first, Ending(v, first))

(* From one depth to the depth above it: the name between them is a cut,   *)
(* because it hides what is below or because below it is too deep, or it   *)
(* is kept before what comes of the rest.                                  *)
LEMMA BelowStep ==
    ASSUME NEW v \in Value, NEW L \in Nat, L = Len(v.names), NEW d \in Nat, d < L, d <= MaxDepth,
           d + 1 <= MaxDepth => CleanBelow(v, d + 1)
    PROVE  CleanBelow(v, d)
<1>. DEFINE key == v.names[d + 1]
            rest == sanitizeBelow(v)[L - (d + 1)]
            here == sanitizeBelow(v)[L - d]
<1>1. /\ L - d \in 0..Len(v.names) /\ L - (d + 1) \in 0..Len(v.names) /\ L - d - 1 = L - (d + 1)
      /\ MaxDepth \in Nat
  BY DepthsAreNumbers
<1>2. \A i \in Cuts(v) : i \in Nat /\ i <= L
  BY <1>1 DEF Cuts, Value
<1>3. d + 1 \in Cuts(v) <=> Hides(v, d + 1) \/ d = MaxDepth
  BY <1>1 DEF Cuts, Value
<1>4. here = IF Hides(v, d + 1) THEN Under(key, Leaf("REDACTED")) ELSE Under(key, rest)
  <2>1. here = Below1(v, L - d, rest)
    BY <1>1, BelowAt
  <2>2. Hides(v, d + 1) <=> isSensitiveField(key) /\ (L - d > 1 \/ v.leaf # "null")
    <3>1. d + 1 < L <=> L - d > 1
      BY <1>1
    <3>. QED  BY <1>1, <3>1 DEF Hides, isSensitiveField
  <2>3. ~(L - (L - d) > MaxDepth) /\ L - d # 0 /\ L - (L - d) + 1 = d + 1
    BY <1>1
  <2>. QED  BY <1>1, <2>1, <2>2, <2>3 DEF Below1
<1>5. ASSUME d + 1 \in Cuts(v), here = Under(key, Leaf(Ending(v, d + 1))) PROVE CleanBelow(v, d)
  <2>1. here = Part(v, d, d + 1, Ending(v, d + 1))
    BY <1>1, <1>5, Parts
  <2>2. \A first \in Nat : FirstCutBelow(v, d, first) => first = d + 1
    BY <1>1, <1>5 DEF FirstCutBelow
  <2>3. ~ \A i \in Cuts(v) : i <= d
    BY <1>1, <1>5
  <2>. QED  BY <1>1, <2>1, <2>2, <2>3 DEF CleanBelow
<1>6. CASE Hides(v, d + 1)
  BY <1>3, <1>4, <1>5, <1>6 DEF Ending
<1>7. CASE ~Hides(v, d + 1) /\ d = MaxDepth
  <2>1. rest = Below1(v, L - (d + 1), sanitizeBelow(v)[L - (d + 1) - 1])
    BY <1>1, BelowAt
  <2>2. rest = Leaf("MAX_DEPTH_EXCEEDED")
    BY <1>1, <1>7, <2>1 DEF Below1
  <2>. QED  BY <1>3, <1>4, <1>5, <1>7, <2>2 DEF Ending
<1>8. CASE d + 1 \notin Cuts(v)
  <2>. DEFINE joined(k, kind) == Under(key, Part(v, d + 1, k, kind)) = Part(v, d, k, kind)
  <2>0. ASSUME NEW k \in Nat, NEW kind, d < k, k <= L PROVE joined(k, kind)
    BY <2>0, Parts
  <2>1. here = Under(key, rest) /\ CleanBelow(v, d + 1)
    BY <1>1, <1>3, <1>4, <1>8
  <2>2. ASSUME \A i \in Cuts(v) : i <= d
        PROVE  here = Part(v, d, L, sanitizeString(v.leaf))
    <3>1. \A i \in Cuts(v) : i <= d + 1
      BY <1>1, <1>2, <2>2
    <3>2. rest = Part(v, d + 1, L, sanitizeString(v.leaf))
      BY <1>1, <2>1, <3>1 DEF CleanBelow
    <3>3. joined(L, sanitizeString(v.leaf))
      BY <2>0
    <3>. QED  BY <2>1, <3>2, <3>3
  <2>3. ASSUME NEW first \in Nat, FirstCutBelow(v, d, first)
        PROVE  here = Part(v, d, first, Ending(v, first))
    <3>1. FirstCutBelow(v, d + 1, first) /\ d < first /\ first <= L
      BY <1>1, <1>2, <1>8, <2>3 DEF FirstCutBelow
    <3>2. rest = Part(v, d + 1, first, Ending(v, first))
      BY <1>1, <2>1, <3>1 DEF CleanBelow
    <3>3. joined(first, Ending(v, first))
      BY <2>0, <3>1
    <3>. QED  BY <2>1, <3>2, <3>3
  <2>. QED  BY <1>1, <2>2, <2>3 DEF CleanBelow
<1>. QED  BY <1>3, <1>6, <1>7, <1>8

(* sanitize cuts a value exactly where Clean does, however deep it is.     *)
LEMMA SanitizeClean == \A v \in Value : sanitize(v) = Clean(v)
<1>. SUFFICES ASSUME NEW v \in Value PROVE sanitize(v) = Clean(v)
  OBVIOUS
<1>. DEFINE L == Len(v.names)
            T == {n \in Nat : n <= L => (L - n <= MaxDepth => CleanBelow(v, L - n))}
<1>1. L \in Nat /\ v.names \in Seq(AnyName) /\ MaxDepth \in Nat
  BY DepthsAreNumbers DEF Value
<1>2. \A i \in Cuts(v) : i \in Nat /\ 0 < i /\ i <= L
  BY <1>1 DEF Cuts
<1>3. 0 \in T
  <2>1. SUFFICES ASSUME L <= MaxDepth PROVE CleanBelow(v, L)
    BY <1>1
  <2>2. sanitizeBelow(v)[0] = Below1(v, 0, sanitizeBelow(v)[0 - 1])
    BY <1>1, BelowAt
  <2>3. sanitizeBelow(v)[0] = Part(v, L, L, sanitizeString(v.leaf))
    BY <1>1, <2>1, <2>2, Parts DEF Below1
  <2>4. \A first \in Nat : ~FirstCutBelow(v, L, first)
    BY <1>1, <1>2 DEF FirstCutBelow
  <2>. QED  BY <1>1, <2>3, <2>4 DEF CleanBelow
<1>4. \A n \in Nat : n \in T => n + 1 \in T
  <2>. SUFFICES ASSUME NEW n \in Nat, n \in T, n + 1 <= L, L - (n + 1) <= MaxDepth
                PROVE  CleanBelow(v, L - (n + 1))
    OBVIOUS
  <2>1. L - (n + 1) \in Nat /\ L - (n + 1) < L /\ L - (n + 1) + 1 = L - n
    BY <1>1
  <2>2. L - n <= MaxDepth => CleanBelow(v, L - n)
    BY <1>1
  <2>. QED  BY <1>1, <2>1, <2>2, BelowStep
<1>5. CleanBelow(v, 0)
  <2>. HIDE DEF T
  <2>1. L \in T
    BY <1>1, <1>3, <1>4, SetInduction
  <2>2. L - L = 0 /\ 0 <= MaxDepth
    BY <1>1
  <2>. QED  BY <2>1, <2>2 DEF T
<1>6. L - 0 = L /\ 0 + 1 = 1
  BY <1>1
<1>7. CASE Cuts(v) = {}
  <2>1. SubSeq(v.names, 1, L) = v.names
    BY <1>1, SubSeqFull
  <2>2. [v EXCEPT !.leaf = sanitizeString(@)] = [names |-> v.names, leaf |-> sanitizeString(v.leaf)]
    BY DEF Value
  <2>3. sanitizeBelow(v)[L - 0] = Part(v, 0, L, sanitizeString(v.leaf))
    BY <1>5, <1>7 DEF CleanBelow
  <2>. QED  BY <1>6, <1>7, <2>1, <2>2, <2>3 DEF sanitize, Clean, Part
<1>8. CASE Cuts(v) # {}
  <2>. DEFINE first == CHOOSE i \in Cuts(v) : \A j \in Cuts(v) : i <= j
  <2>1. first \in Cuts(v) /\ \A j \in Cuts(v) : first <= j
    <3>1. \E i \in Cuts(v) : \A j \in Cuts(v) : i <= j
      BY <1>2, <1>8, Least
    <3>. QED  BY <3>1
  <2>. HIDE DEF first
  <2>2. first \in Nat /\ FirstCutBelow(v, 0, first)
    BY <1>2, <2>1 DEF FirstCutBelow
  <2>3. sanitizeBelow(v)[L - 0] = Part(v, 0, first, Ending(v, first))
    BY <1>5, <2>2 DEF CleanBelow
  <2>. QED  BY <1>6, <1>8, <2>3 DEF Clean, sanitize, Part, Ending, first
<1>. QED  BY <1>7, <1>8

(* The names and leaves that the logger and the interceptor make.          *)
LEMMA WordsTyped ==
    /\ \A name \in InterceptorFields \cup Wrapper : name \in AnyName
    /\ {"url", "query", "responseBody", "sanitizedData", "error", "message"} \subseteq AnyName
    /\ {"plain", "jwt", "null", "empty"} \subseteq AnyKind
    /\ {"JWT_TOKEN_REDACTED", "REDACTED", "MAX_DEPTH_EXCEEDED"} \subseteq AnyKind
    /\ \A url \in Text : url \in AnyKind
BY DEF InterceptorFields, Wrapper, Name, LeafKind, Mark, AnyName, AnyKind

LEMMA ValuesTyped ==
    /\ \A kind \in AnyKind : Leaf(kind) \in Value
    /\ \A key \in AnyName, v \in Value : Under(key, v) \in Value
    /\ \A v \in Value : sanitizeSensitiveData(v) \in Value /\ sanitize(v) \in Value
    /\ \A n \in Nat : Values(n) \subseteq Value
<1>1. \A kind \in AnyKind : Leaf(kind) \in Value
  BY DEF Leaf, Value
<1>2. \A key \in AnyName, v \in Value : Under(key, v) \in Value
  BY DEF Under, Value
<1>3. ASSUME NEW v \in Value PROVE sanitizeSensitiveData(v) \in Value
  <2>1. v.names # <<>> => Head(v.names) \in AnyName
    BY DEF Value
  <2>2. Leaf("REDACTED") \in Value
    BY <1>1, WordsTyped
  <2>3. v.names # <<>> => Under(Head(v.names), Leaf("REDACTED")) \in Value
    BY <1>2, <2>1, <2>2
  <2>. QED  BY <2>3 DEF sanitizeSensitiveData
<1>4. ASSUME NEW v \in Value PROVE Clean(v) \in Value
  <2>1. /\ v.names \in Seq(AnyName) /\ v.leaf \in AnyKind
        /\ Cuts(v) # {} => \E i \in Cuts(v) : \A j \in Cuts(v) : i <= j
    <3>1. Cuts(v) \subseteq Nat
      BY DEF Cuts, Value
    <3>. QED  BY <3>1, Least DEF Value
  <2>2. ASSUME NEW i \in Cuts(v) PROVE SubSeq(v.names, 1, i) \in Seq(AnyName)
    <3>1. i \in Int /\ \A j \in 1..i : v.names[j] \in AnyName
      BY <2>1 DEF Cuts
    <3>. QED  BY <3>1, SubSeqProperties
  <2>3. sanitizeString(v.leaf) \in AnyKind
    BY <2>1, WordsTyped DEF sanitizeString
  <2>4. [v EXCEPT !.leaf = sanitizeString(@)] \in Value
    BY <2>3 DEF Value
  <2>5. CASE Cuts(v) = {}
    BY <2>4, <2>5 DEF Clean
  <2>6. CASE Cuts(v) # {}
    <3>. DEFINE first == CHOOSE i \in Cuts(v) : \A j \in Cuts(v) : i <= j
                kind == IF Hides(v, first) THEN "REDACTED" ELSE "MAX_DEPTH_EXCEEDED"
    <3>1. first \in Cuts(v)
      BY <2>1, <2>6
    <3>2. kind \in AnyKind
      BY WordsTyped
    <3>3. Clean(v) = [names |-> SubSeq(v.names, 1, first), leaf |-> kind]
      BY <2>6 DEF Clean
    <3>. HIDE DEF first, kind
    <3>. QED  BY <2>2, <3>1, <3>2, <3>3 DEF Value
  <2>. QED  BY <2>5, <2>6
<1>5. ASSUME NEW n \in Nat PROVE Values(n) \subseteq Value
  <2>1. Name \subseteq AnyName /\ LeafKind \subseteq AnyKind
    BY DEF AnyName, AnyKind
  <2>2. ASSUME NEW k \in 0..n, NEW f \in [1..k -> Name] PROVE f \in Seq(AnyName)
    <3>1. k \in Nat /\ f \in [1..k -> AnyName]
      BY <2>1
    <3>. QED  BY <3>1, SeqDef
  <2>. QED  BY <2>1, <2>2 DEF Values, Value
<1>. QED  BY <1>1, <1>2, <1>3, <1>4, <1>5, SanitizeClean

(* v and w go the same way to their k-th name, and both are cut there.     *)
Alike(v, w, k) ==
    /\ k \in Nat /\ k > 0 /\ k <= Len(v.names) /\ k <= Len(w.names)
    /\ \A i \in 1..k : v.names[i] = w.names[i]
    /\ Hides(v, k) /\ Hides(w, k)

(* Clean, with the first cut given.                                        *)
LEMMA CleanAt ==
    ASSUME NEW v \in Value, NEW m \in Cuts(v), \A j \in Cuts(v) : m <= j
    PROVE  Clean(v) = Part(v, 0, m, Ending(v, m))
<1>. DEFINE first == CHOOSE i \in Cuts(v) : \A j \in Cuts(v) : i <= j
<1>1. Cuts(v) \subseteq Nat
  BY DEF Cuts, Value
<1>2. first \in Cuts(v) /\ \A j \in Cuts(v) : first <= j
  OBVIOUS
<1>3. first = m
  <2>. HIDE DEF first
  <2>. QED  BY <1>1, <1>2
<1>4. Clean(v) = [names |-> SubSeq(v.names, 1, first), leaf |-> Ending(v, first)]
  BY DEF Clean, Ending
<1>. HIDE DEF first
<1>. QED  BY <1>3, <1>4 DEF Part

(* Values that go the same way to where both are cut are logged alike.     *)
LEMMA AlikeClean ==
    ASSUME NEW v \in Value, NEW w \in Value, NEW k, Alike(v, w, k)
    PROVE  Clean(v) = Clean(w)
<1>1. /\ v.names \in Seq(AnyName) /\ w.names \in Seq(AnyName)
      /\ Len(v.names) \in Nat /\ Len(w.names) \in Nat
      /\ DOMAIN v.names = 1..Len(v.names) /\ DOMAIN w.names = 1..Len(w.names)
  BY DEF Value
<1>2. Cuts(v) \subseteq Nat /\ k \in Cuts(v) /\ k \in Cuts(w)
  BY <1>1 DEF Cuts, Alike
<1>3. PICK m \in Cuts(v) : \A j \in Cuts(v) : m <= j
  BY <1>2, Least
<1>4. m \in 1..k
  BY <1>1, <1>2, <1>3 DEF Cuts
<1>5. \A i \in 1..k : Hides(v, i) <=> Hides(w, i)
  BY <1>1 DEF Alike, Hides
<1>6. \A i \in 1..k : i \in Cuts(v) <=> i \in Cuts(w)
  BY <1>1, <1>5 DEF Alike, Cuts
<1>7. m \in Cuts(w) /\ \A j \in Cuts(w) : m <= j
  BY <1>1, <1>2, <1>3, <1>4, <1>6 DEF Alike, Cuts
<1>8. SubSeq(v.names, 1, m) = SubSeq(w.names, 1, m)
  <2>1. /\ SubSeq(v.names, 1, m) = [i \in 1..m |-> v.names[i]]
        /\ SubSeq(w.names, 1, m) = [i \in 1..m |-> w.names[i]]
    BY <1>1, <1>4
  <2>2. \A i \in 1..m : v.names[i] = w.names[i]
    BY <1>4 DEF Alike
  <2>3. [i \in 1..m |-> v.names[i]] = [i \in 1..m |-> w.names[i]]
    BY <2>2
  <2>. QED  BY <2>1, <2>3
<1>. QED  BY <1>3, <1>4, <1>5, <1>7, <1>8, CleanAt DEF Part, Ending

(* A name put before both keeps them alike.                                *)
LEMMA AlikeUnder ==
    ASSUME NEW v \in Value, NEW w \in Value, NEW k, Alike(v, w, k), NEW key \in AnyName
    PROVE  Alike(Under(key, v), Under(key, w), k + 1)
<1>1. ASSUME NEW x \in Value
      PROVE  /\ Len(Under(key, x).names) = Len(x.names) + 1 /\ Under(key, x).leaf = x.leaf
             /\ Under(key, x).names[1] = key
             /\ \A i \in 1..Len(x.names) : Under(key, x).names[i + 1] = x.names[i]
  BY DEF Under, Value
<1>2. /\ Len(v.names) \in Nat /\ Len(w.names) \in Nat /\ k \in Nat
      /\ k \in 1..Len(v.names) /\ k \in 1..Len(w.names)
  BY DEF Alike, Value
<1>3. ASSUME NEW i \in 1..(k + 1) PROVE Under(key, v).names[i] = Under(key, w).names[i]
  <2>1. CASE i = 1
    BY <1>1, <2>1
  <2>2. CASE i # 1
    <3>1. i - 1 \in 1..k /\ i - 1 + 1 = i /\ i - 1 \in 1..Len(v.names) /\ i - 1 \in 1..Len(w.names)
      BY <1>2, <2>2
    <3>2. Under(key, v).names[i] = v.names[i - 1] /\ Under(key, w).names[i] = w.names[i - 1]
      BY <1>1, <3>1
    <3>. QED  BY <3>1, <3>2 DEF Alike
  <2>. QED  BY <2>1, <2>2
<1>4. ASSUME NEW x \in Value, k \in 1..Len(x.names), Hides(x, k)
      PROVE  Hides(Under(key, x), k + 1)
  <2>1. Under(key, x).names[k + 1] = x.names[k] /\ Under(key, x).leaf = x.leaf
    BY <1>1, <1>4
  <2>2. Len(x.names) \in Nat /\ (k + 1 < Len(Under(key, x).names) <=> k < Len(x.names))
    BY <1>1, <1>2, <1>4 DEF Value
  <2>. QED  BY <1>4, <2>1, <2>2 DEF Hides
<1>5. Hides(Under(key, v), k + 1) /\ Hides(Under(key, w), k + 1)
  BY <1>2, <1>4 DEF Alike
<1>. QED  BY <1>1, <1>2, <1>3, <1>5 DEF Alike

(* What the interceptor hides, the logger hides at the same name, since    *)
(* the list of the interceptor is part of the list of the logger.          *)
LEMMA InterceptorHides ==
    ASSUME NEW v \in Value, sanitizeSensitiveData(v) # v
    PROVE  Alike(v, sanitizeSensitiveData(v), 1)
<1>. DEFINE w == Under("password", Leaf("REDACTED"))
<1>1. /\ v.names # <<>> /\ Head(v.names) = "password" /\ (Len(v.names) > 1 \/ v.leaf # "null")
      /\ sanitizeSensitiveData(v) = w
  BY DEF sanitizeSensitiveData, InterceptorFields
<1>2. v.names[1] = "password" /\ Len(v.names) \in Nat /\ 1 <= Len(v.names)
  BY <1>1 DEF Value
<1>3. w.names = <<"password">> /\ w.leaf = "REDACTED"
  BY DEF Under, Leaf
<1>. QED  BY <1>1, <1>2, <1>3 DEF Alike, Hides, sensitiveFields

(* The interceptor's pass makes no difference.                             *)
LEMMA PassChangesNothing ==
    ASSUME NEW v \in Value, NEW outer \in AnyName, NEW inner \in AnyName
    PROVE  LET w == sanitizeSensitiveData(v)
           IN  /\ sanitize(Under(outer, w)) = Clean(Under(outer, v))
               /\ sanitize(Under(outer, Under(inner, w))) = Clean(Under(outer, Under(inner, v)))
<1>. DEFINE w == sanitizeSensitiveData(v)
<1>1. /\ w \in Value /\ Under(outer, w) \in Value /\ Under(inner, w) \in Value
      /\ Under(inner, v) \in Value /\ Under(outer, v) \in Value
  BY ValuesTyped
<1>2. Under(outer, Under(inner, w)) \in Value /\ Under(outer, Under(inner, v)) \in Value
  BY <1>1, ValuesTyped
<1>3. CASE w = v
  BY <1>1, <1>2, <1>3, SanitizeClean
<1>4. CASE w # v
  <2>1. Alike(v, w, 1)
    BY <1>4, InterceptorHides
  <2>. HIDE DEF w
  <2>2. Alike(Under(outer, v), Under(outer, w), 1 + 1) /\ Alike(Under(inner, v), Under(inner, w), 1 + 1)
    BY <1>1, <2>1, AlikeUnder
  <2>3. Alike(Under(outer, Under(inner, v)), Under(outer, Under(inner, w)), 1 + 1 + 1)
    BY <1>1, <2>2, AlikeUnder
  <2>4. /\ Clean(Under(outer, v)) = Clean(Under(outer, w))
        /\ Clean(Under(outer, Under(inner, v))) = Clean(Under(outer, Under(inner, w)))
    BY <1>1, <1>2, <2>2, <2>3, AlikeClean
  <2>5. /\ sanitize(Under(outer, w)) = Clean(Under(outer, w))
        /\ sanitize(Under(outer, Under(inner, w))) = Clean(Under(outer, Under(inner, w)))
    BY <1>1, <1>2, SanitizeClean
  <2>. QED  BY <2>4, <2>5 DEF w
<1>. QED  BY <1>3, <1>4

LoggerInv == LoggerTypeOK /\ LoggedByPath

(* A line whose parts are each cut where they should be.                   *)
LEMMA CleanLine ==
    ASSUME NEW what \in SUBSET Value, NEW parts, Logs(what, parts),
           {sanitize(v) : v \in parts} = {Clean(v) : v \in what}
    PROVE  LoggerInv'
<1>1. raw' = what /\ logged' = {Clean(v) : v \in what}
  BY DEF Logs
<1>2. \A v \in what : Clean(v) \in Value
  BY ValuesTyped, SanitizeClean
<1>. QED  BY <1>1, <1>2 DEF LoggerInv, LoggerTypeOK, LoggedByPath, Clean, Cuts, Hides

(* A line of the interceptor: its message and URL, and a part w in the     *)
(* place of v.                                                             *)
LEMMA InterceptorLine ==
    ASSUME NEW url \in Text, NEW v \in Value, NEW w, sanitize(w) = Clean(v),
           Logs(Line(url) \cup {v}, Line(url) \cup {w})
    PROVE  LoggerInv'
<1>1. Leaf(url) \in Value /\ Under("url", Leaf(url)) \in Value
  <2>1. "url" \in AnyName /\ url \in AnyKind
    BY WordsTyped
  <2>. QED  BY <2>1, ValuesTyped
<1>2. Line(url) \subseteq Value
  BY <1>1 DEF Line
<1>3. \A x \in Line(url) : sanitize(x) = Clean(x)
  BY <1>2, SanitizeClean
<1>4. {sanitize(x) : x \in Line(url) \cup {w}} = {Clean(x) : x \in Line(url) \cup {v}}
  BY <1>3
<1>. QED  BY <1>2, <1>4, CleanLine

LEMMA LoggerStepInv == LoggerInv /\ [LoggerNext]_loggerVars => LoggerInv'
<1>. SUFFICES ASSUME LoggerInv, [LoggerNext]_loggerVars PROVE LoggerInv'
  OBVIOUS
<1>1. ASSUME NEW v \in Value, logValue(v) PROVE LoggerInv'
  <2>1. sanitize(v) = Clean(v)
    BY SanitizeClean
  <2>2. {sanitize(x) : x \in {v}} = {Clean(x) : x \in {v}}
    BY <2>1
  <2>. QED  BY <1>1, <2>2, CleanLine DEF logValue
<1>2. ASSUME NEW v \in Value, logRequest(v) PROVE LoggerInv'
  <2>1. /\ Under("query", v) \in Value
        /\ sanitize(Under("query", sanitizeSensitiveData(v))) = Clean(Under("query", v))
    <3>1. "query" \in AnyName /\ sanitizeSensitiveData(v) \in Value
      BY WordsTyped, ValuesTyped
    <3>. QED  BY <3>1, ValuesTyped, PassChangesNothing
  <2>2. urlOf(v) \in Text
    BY DEF urlOf, Text
  <2>. QED  BY <1>2, <2>1, <2>2, InterceptorLine DEF logRequest
<1>3. ASSUME NEW url \in Text, NEW v \in Value, logResponse(url, v) PROVE LoggerInv'
  <2>1. CASE v.names = <<>>
    <3>1. Under("responseBody", v) \in Value
      BY WordsTyped, ValuesTyped
    <3>2. Logs(Line(url) \cup {Under("responseBody", v)}, Line(url) \cup {Under("responseBody", v)})
      BY <1>3, <2>1 DEF logResponse, sanitizeResponse
    <3>3. sanitize(Under("responseBody", v)) = Clean(Under("responseBody", v))
      BY <3>1, SanitizeClean
    <3>. QED  BY <3>1, <3>2, <3>3, InterceptorLine
  <2>2. CASE v.names # <<>>
    <3>. DEFINE what == Under("responseBody", Under("sanitizedData", v))
                passed == Under("responseBody", Under("sanitizedData", sanitizeSensitiveData(v)))
    <3>1. "responseBody" \in AnyName /\ "sanitizedData" \in AnyName /\ sanitizeSensitiveData(v) \in Value
      BY WordsTyped, ValuesTyped
    <3>2. Under("sanitizedData", v) \in Value
      BY <3>1, ValuesTyped
    <3>3. what \in Value
      BY <3>1, <3>2, ValuesTyped
    <3>4. sanitize(passed) = Clean(what)
      BY <3>1, PassChangesNothing
    <3>5. Logs(Line(url) \cup {what}, Line(url) \cup {passed})
      BY <1>3, <2>2 DEF logResponse, sanitizeResponse
    <3>. HIDE DEF what, passed
    <3>. QED  BY <3>3, <3>4, <3>5, InterceptorLine
  <2>. QED  BY <2>1, <2>2
<1>4. ASSUME NEW url \in Text, NEW kind \in LeafKind, logError(url, kind) PROVE LoggerInv'
  <2>. DEFINE message == Leaf(IF kind \in {"null", "empty"} THEN "plain" ELSE kind)
              what == Under("error", Under("message", message))
  <2>1. "error" \in AnyName /\ "message" \in AnyName /\ kind \in AnyKind /\ "plain" \in AnyKind
    BY WordsTyped DEF AnyKind
  <2>2. message \in Value
    BY <2>1, ValuesTyped
  <2>. HIDE DEF message
  <2>3. what \in Value
    <3>1. Under("message", message) \in Value
      BY <2>1, <2>2, ValuesTyped
    <3>. QED  BY <2>1, <3>1, ValuesTyped
  <2>4. Logs(Line(url) \cup {what}, Line(url) \cup {what})
    BY <1>4 DEF logError, sanitizeError, message
  <2>5. sanitize(what) = Clean(what)
    BY <2>3, SanitizeClean
  <2>. HIDE DEF what
  <2>. QED  BY <2>3, <2>4, <2>5, InterceptorLine
<1>5. CASE lineWritten
  BY <1>5 DEF lineWritten, NotLogged, LoggerInv, LoggerTypeOK, LoggedByPath
<1>6. CASE UNCHANGED loggerVars
  <2>1. raw' = raw /\ logged' = logged
    BY <1>6 DEF loggerVars
  <2>. QED  BY <2>1 DEF LoggerInv, LoggerTypeOK, LoggedByPath, Clean, Cuts, Hides
<1>7. Values(MaxNesting) \subseteq Value
  BY DepthsAreNumbers, ValuesTyped
<1>. QED  BY <1>1, <1>2, <1>3, <1>4, <1>5, <1>6, <1>7 DEF LoggerNext

LEMMA LoggerInvHolds == LoggerSpec => []LoggerInv
<1>1. LoggerInit => LoggerInv
  BY DEF LoggerInit, NotLogged, LoggerInv, LoggerTypeOK, LoggedByPath
<1>. QED  BY <1>1, LoggerStepInv, PTL DEF LoggerSpec

(* The parts of what is logged are again values, as are those of what was  *)
(* to be logged (SecureLoggerService, SecureLoggingInterceptor).           *)
THEOREM LoggerTyped == LoggerSpec => []LoggerTypeOK
<1>1. LoggerInv => LoggerTypeOK
  BY DEF LoggerInv
<1>. QED  BY <1>1, LoggerInvHolds, PTL

(* Whatever the limit and however deep the values, directly or by way of   *)
(* the interceptor's own pass, each part of a line is logged as the value  *)
(* cut at the first sensitive name on the way or where it is too deep, and *)
(* otherwise whole: the URL and the message, which have no such name, are  *)
(* logged as they are, whatever the query string says (sanitize of         *)
(* SecureLoggerService, SecureLoggingInterceptor).                         *)
THEOREM LogIsClean == LoggerSpec => []LoggedByPath
<1>1. LoggerInv => LoggedByPath
  BY DEF LoggerInv
<1>. QED  BY <1>1, LoggerInvHolds, PTL
-----------------------------------------------------------------------------
(* The gateway, for any sockets, channels and handlers under way.          *)
(* The rooms are ahead of the map and of the answers by the handlers that  *)
(* await: they agree with the last of them, and when the last of a client  *)
(* and channel is done, with the map and with what the client was told.    *)
Of(h, c, ch) == h.client = c /\ h.channel = ch

(* The handler at i is the last of its client and channel.                 *)
IsLast(i) ==
    \A j \in DOMAIN awaiting : j > i => ~Of(awaiting[j], awaiting[i].client, awaiting[i].channel)

RoomsFollowLast ==
    \A i \in DOMAIN awaiting :
        phase[awaiting[i].client] = "connected" /\ IsLast(i) =>
            (awaiting[i].op = "subscribed" <=> awaiting[i].channel \in rooms[awaiting[i].client])

NewIsUntouched ==
    \A c \in Client : phase[c] = "new" =>
        /\ rooms[c] = {} /\ \A ch \in Channel : told[c][ch] = Untold
        /\ \A i \in DOMAIN awaiting : awaiting[i].client # c

NotificationsInv ==
    /\ NotificationsTypeOK /\ EntriesAreConnected /\ NewIsUntouched
    /\ RoomsFollowLast /\ AnswersHold

-----------------------------------------------------------------------------
(* Awaiting handlers are handlers.                                         *)
LEMMA AwaitingType ==
    ASSUME NotificationsTypeOK, NEW i \in DOMAIN awaiting
    PROVE  /\ awaiting[i] \in Handler /\ awaiting[i].client \in Client
           /\ awaiting[i].channel \in Channel /\ awaiting[i].op \in Op
<1>1. awaiting \in Seq(Handler)
  BY DEF NotificationsTypeOK
<1>2. awaiting[i] \in Handler
  BY <1>1
<1>. QED  BY <1>2 DEF Handler

LEMMA NotificationsInitInv == NotificationsInit => NotificationsInv
<1>. SUFFICES ASSUME NotificationsInit PROVE NotificationsInv
  OBVIOUS
<1>. USE DEF NotificationsInit
<1>1. NotificationsTypeOK
  BY DEF NotificationsTypeOK, Handler, Op, Untold
<1>2. EntriesAreConnected
  BY DEF EntriesAreConnected, Entry
<1>3. NewIsUntouched /\ RoomsFollowLast
  BY DEF NewIsUntouched, RoomsFollowLast
<1>4. AnswersHold
  BY DEF AnswersHold
<1>. QED  BY <1>1, <1>2, <1>3, <1>4 DEF NotificationsInv

LEMMA ConnectKeeps ==
    ASSUME NotificationsInv, NEW c \in Client, handleConnection(c)
    PROVE  NotificationsInv'
<1>. USE DEF NotificationsInv
<1>1. /\ phase[c] = "new" /\ phase' = [phase EXCEPT ![c] = "connected"]
      /\ UNCHANGED <<rooms, awaiting, told>>
  BY DEF handleConnection
<1>2. /\ DOMAIN subscriptions' = DOMAIN subscriptions \cup {c}
      /\ subscriptions'[c] = {}
      /\ \A d \in DOMAIN subscriptions : d # c => subscriptions'[d] = subscriptions[d]
      /\ subscriptions' = [d \in DOMAIN subscriptions' |-> subscriptions'[d]]
  BY DEF handleConnection
<1>3. NotificationsTypeOK'
  BY <1>1, <1>2 DEF NotificationsTypeOK
<1>4. EntriesAreConnected'
  BY <1>1, <1>2 DEF NotificationsTypeOK, EntriesAreConnected, Entry
<1>5. NewIsUntouched'
  BY <1>1 DEF NotificationsTypeOK, NewIsUntouched
<1>6. RoomsFollowLast'
  <2>1. \A i \in DOMAIN awaiting : awaiting[i].client # c /\ awaiting[i].client \in Client
    BY <1>1, AwaitingType DEF NewIsUntouched
  <2>. QED  BY <1>1, <2>1 DEF NotificationsTypeOK, RoomsFollowLast, IsLast, Of
<1>7. ASSUME NEW d \in Client, NEW ch \in Channel, phase'[d] = "connected", ~Pending(d, ch)'
      PROVE  /\ ch \in getSubscriptions(d)' <=> ch \in rooms[d]
             /\ told[d][ch] = "subscribed" <=> ch \in rooms[d]
  <2>1. CASE d = c
    BY <1>1, <1>2, <2>1 DEF NewIsUntouched, getSubscriptions, Entry, Untold
  <2>2. CASE d # c
    <3>1. phase[d] = "connected" /\ ~Pending(d, ch) /\ Entry(d)
      BY <1>1, <1>7, <2>2 DEF NotificationsTypeOK, Pending, EntriesAreConnected
    <3>2. getSubscriptions(d)' = getSubscriptions(d)
      BY <1>2, <2>2, <3>1 DEF getSubscriptions, Entry
    <3>. QED  BY <3>1, <3>2 DEF AnswersHold, notified
  <2>. QED  BY <2>1, <2>2
<1>8. AnswersHold'
  BY <1>1, <1>7 DEF AnswersHold, notified
<1>. QED  BY <1>3, <1>4, <1>5, <1>6, <1>8

LEMMA DisconnectKeeps ==
    ASSUME NotificationsInv, NEW c \in Client, handleDisconnect(c)
    PROVE  NotificationsInv'
<1>. USE DEF NotificationsInv
<1>1. /\ phase[c] = "connected" /\ phase' = [phase EXCEPT ![c] = "gone"]
      /\ rooms' = [rooms EXCEPT ![c] = {}]
      /\ UNCHANGED <<awaiting, told>>
  BY DEF handleDisconnect
<1>2. /\ DOMAIN subscriptions' = DOMAIN subscriptions \ {c}
      /\ \A d \in DOMAIN subscriptions' : subscriptions'[d] = subscriptions[d]
      /\ subscriptions' = [d \in DOMAIN subscriptions' |-> subscriptions'[d]]
  BY DEF handleDisconnect
<1>3. NotificationsTypeOK'
  BY <1>1, <1>2 DEF NotificationsTypeOK
<1>4. EntriesAreConnected'
  BY <1>1, <1>2 DEF NotificationsTypeOK, EntriesAreConnected, Entry
<1>5. NewIsUntouched'
  BY <1>1 DEF NotificationsTypeOK, NewIsUntouched
<1>6. \A d \in Client : phase'[d] = "connected" =>
          d # c /\ phase[d] = "connected" /\ rooms'[d] = rooms[d]
  BY <1>1 DEF NotificationsTypeOK
<1>7. RoomsFollowLast'
  BY <1>1, <1>6, AwaitingType DEF RoomsFollowLast, IsLast, Of
<1>8. AnswersHold'
  <2>1. ASSUME NEW d \in Client, phase'[d] = "connected"
        PROVE  getSubscriptions(d)' = getSubscriptions(d)
    BY <1>2, <1>6, <2>1 DEF getSubscriptions, Entry
  <2>. QED  BY <1>1, <1>6, <2>1 DEF AnswersHold, notified, Pending
<1>. QED  BY <1>3, <1>4, <1>5, <1>7, <1>8

LEMMA BeginKeeps ==
    ASSUME NotificationsInv, NEW c \in Client, NEW ch \in Channel, NEW op \in Op, begin(c, ch, op)
    PROVE  NotificationsInv'
<1>. USE DEF NotificationsInv
<1>. DEFINE h == [client |-> c, channel |-> ch, op |-> op]
            n == Len(awaiting)
<1>1. /\ phase[c] = "connected"
      /\ rooms' = [rooms EXCEPT ![c] = IF op = "subscribed" THEN @ \cup {ch} ELSE @ \ {ch}]
      /\ awaiting' = Append(awaiting, h)
      /\ UNCHANGED <<phase, subscriptions, told>>
  BY DEF begin
<1>2. /\ h \in Handler /\ h.client = c /\ h.channel = ch /\ h.op = op
      /\ awaiting \in Seq(Handler) /\ n \in Nat
  BY DEF Handler, NotificationsTypeOK
<1>. HIDE DEF h
<1>3. /\ DOMAIN awaiting = 1..n /\ DOMAIN awaiting' = 1..(n + 1)
      /\ awaiting'[n + 1] = h
      /\ \A i \in 1..n : awaiting'[i] = awaiting[i]
      /\ awaiting' \in Seq(Handler)
  BY <1>1, <1>2
<1>. HIDE DEF n
<1>4. NotificationsTypeOK'
  BY <1>1, <1>3 DEF NotificationsTypeOK
<1>5. EntriesAreConnected'
  BY <1>1 DEF EntriesAreConnected, Entry
<1>6. NewIsUntouched'
  <2>1. ASSUME NEW d \in Client, phase[d] = "new" PROVE rooms'[d] = rooms[d] /\ d # c
    <3>1. d # c
      BY <1>1, <2>1
    <3>. QED  BY <1>1, <2>1, <3>1 DEF NotificationsTypeOK
  <2>2. ASSUME NEW d \in Client, phase[d] = "new", NEW i \in 1..(n + 1)
        PROVE  awaiting'[i].client # d
    <3>1. CASE i = n + 1
      BY <1>2, <1>3, <2>1, <2>2, <3>1
    <3>2. CASE i \in 1..n
      BY <1>3, <2>2, <3>2 DEF NewIsUntouched
    <3>. QED  BY <1>2, <3>1, <3>2
  <2>3. phase' = phase /\ told' = told /\ DOMAIN awaiting' = 1..(n + 1)
    BY <1>1, <1>3
  <2>4. ASSUME NEW d \in Client, phase'[d] = "new"
        PROVE  /\ rooms'[d] = {} /\ \A x \in Channel : told'[d][x] = Untold
               /\ \A i \in DOMAIN awaiting' : awaiting'[i].client # d
    BY <2>1, <2>2, <2>3, <2>4 DEF NewIsUntouched
  <2>. QED  BY <2>4 DEF NewIsUntouched
<1>7. ASSUME NEW d \in Client, NEW x \in Channel, d # c \/ x # ch
      PROVE  x \in rooms'[d] <=> x \in rooms[d]
  BY <1>1, <1>7 DEF NotificationsTypeOK
<1>8. ch \in rooms'[c] <=> op = "subscribed"
  BY <1>1 DEF NotificationsTypeOK
<1>9. RoomsFollowLast'
  <2>. SUFFICES ASSUME NEW i \in 1..(n + 1), phase[awaiting'[i].client] = "connected", IsLast(i)'
                PROVE  awaiting'[i].op = "subscribed"
                           <=> awaiting'[i].channel \in rooms'[awaiting'[i].client]
    BY <1>1, <1>3 DEF RoomsFollowLast
  <2>1. CASE i = n + 1
    BY <1>2, <1>3, <1>8, <2>1
  <2>2. CASE i \in 1..n
    <3>1. awaiting'[i] = awaiting[i] /\ awaiting[i].client \in Client /\ awaiting[i].channel \in Channel
      BY <1>3, <2>2, AwaitingType
    <3>2. n + 1 > i /\ n + 1 \in DOMAIN awaiting'
      BY <1>2, <1>3, <2>2
    <3>3. awaiting[i].client # c \/ awaiting[i].channel # ch
      BY <1>2, <1>3, <3>1, <3>2 DEF IsLast, Of
    <3>4. IsLast(i)
      <4>1. ASSUME NEW j \in 1..n, j > i
            PROVE  ~Of(awaiting[j], awaiting[i].client, awaiting[i].channel)
        BY <1>2, <1>3, <3>1, <4>1 DEF IsLast
      <4>. QED  BY <1>3, <4>1 DEF IsLast
    <3>5. awaiting[i].op = "subscribed" <=> awaiting[i].channel \in rooms[awaiting[i].client]
      BY <1>3, <2>2, <3>1, <3>4 DEF RoomsFollowLast
    <3>. QED  BY <1>7, <3>1, <3>3, <3>5
  <2>. QED  BY <1>2, <2>1, <2>2
<1>10. AnswersHold'
  <2>. SUFFICES ASSUME NEW d \in Client, NEW x \in Channel, phase[d] = "connected", ~Pending(d, x)'
                PROVE  /\ x \in getSubscriptions(d) <=> x \in rooms'[d]
                       /\ told[d][x] = "subscribed" <=> x \in rooms'[d]
    BY <1>1 DEF AnswersHold, notified, getSubscriptions, Entry
  <2>1. d # c \/ x # ch
    <3>1. n + 1 \in DOMAIN awaiting' /\ awaiting'[n + 1].client = c /\ awaiting'[n + 1].channel = ch
      BY <1>2, <1>3
    <3>. QED  BY <3>1 DEF Pending
  <2>2. ~Pending(d, x)
    BY <1>2, <1>3 DEF Pending
  <2>. QED  BY <1>7, <2>1, <2>2 DEF AnswersHold, notified
<1>. QED  BY <1>4, <1>5, <1>6, <1>9, <1>10

LEMMA FinishKeeps ==
    ASSUME NotificationsInv, finish
    PROVE  NotificationsInv'
<1>. USE DEF NotificationsInv
<1>. DEFINE h == awaiting[1]
            n == Len(awaiting)
<1>1. awaiting \in Seq(Handler) /\ awaiting # <<>>
  BY DEF NotificationsTypeOK, finish
<1>2. /\ n \in Nat \ {0} /\ DOMAIN awaiting = 1..n /\ h = Head(awaiting)
      /\ awaiting' = Tail(awaiting)
      /\ DOMAIN awaiting' = 1..(n - 1)
      /\ \A i \in 1..(n - 1) : awaiting'[i] = awaiting[i + 1]
      /\ awaiting' \in Seq(Handler)
  BY <1>1 DEF finish
<1>3. h \in Handler /\ h.client \in Client /\ h.channel \in Channel /\ h.op \in Op
  BY <1>2, AwaitingType
<1>4. /\ subscriptions' = [d \in DOMAIN subscriptions |->
             IF d # h.client THEN subscriptions[d]
             ELSE IF h.op = "subscribed" THEN subscriptions[d] \cup {h.channel}
             ELSE subscriptions[d] \ {h.channel}]
      /\ told' = IF phase[h.client] = "connected"
                 THEN [told EXCEPT ![h.client][h.channel] = h.op] ELSE told
      /\ UNCHANGED <<phase, rooms>>
  BY <1>2 DEF finish
<1>. HIDE DEF h, n
<1>5. NotificationsTypeOK'
  BY <1>2, <1>3, <1>4 DEF NotificationsTypeOK
<1>6. EntriesAreConnected'
  BY <1>4 DEF EntriesAreConnected, Entry
<1>7. \A i \in 1..(n - 1) : i + 1 \in DOMAIN awaiting
  BY <1>2
<1>8. NewIsUntouched'
  <2>1. ASSUME NEW d \in Client, phase[d] = "new" PROVE told'[d] = told[d]
    BY <1>3, <1>4, <2>1 DEF NotificationsTypeOK
  <2>. QED  BY <1>2, <1>4, <1>7, <2>1 DEF NewIsUntouched
<1>9. RoomsFollowLast'
  <2>. SUFFICES ASSUME NEW i \in 1..(n - 1), phase[awaiting'[i].client] = "connected", IsLast(i)'
                PROVE  awaiting'[i].op = "subscribed"
                           <=> awaiting'[i].channel \in rooms[awaiting'[i].client]
    BY <1>2, <1>4 DEF RoomsFollowLast
  <2>1. awaiting'[i] = awaiting[i + 1] /\ i + 1 \in DOMAIN awaiting
    BY <1>2, <1>7
  <2>2. IsLast(i + 1)
    <3>1. ASSUME NEW j \in 1..n, j > i + 1
          PROVE  ~Of(awaiting[j], awaiting[i + 1].client, awaiting[i + 1].channel)
      <4>1. j - 1 \in DOMAIN awaiting' /\ j - 1 > i /\ awaiting'[j - 1] = awaiting[j]
        BY <1>2, <3>1
      <4>. QED  BY <2>1, <4>1 DEF IsLast
    <3>. QED  BY <1>2, <3>1 DEF IsLast
  <2>. QED  BY <2>1, <2>2 DEF RoomsFollowLast
<1>10. AnswersHold'
  <2>. SUFFICES ASSUME NEW d \in Client, NEW x \in Channel, phase[d] = "connected", ~Pending(d, x)'
                PROVE  /\ x \in getSubscriptions(d)' <=> x \in rooms[d]
                       /\ told'[d][x] = "subscribed" <=> x \in rooms[d]
    BY <1>4 DEF AnswersHold, notified
  <2>1. Entry(d) /\ Entry(d)' /\ getSubscriptions(d)' = subscriptions'[d]
        /\ getSubscriptions(d) = subscriptions[d]
    BY <1>4 DEF EntriesAreConnected, Entry, getSubscriptions
  <2>2. \A i \in 1..n : i # 1 => ~Of(awaiting[i], d, x)
    <3>1. ASSUME NEW i \in 1..n, i # 1 PROVE ~Of(awaiting[i], d, x)
      <4>1. i - 1 \in DOMAIN awaiting' /\ awaiting'[i - 1] = awaiting[i]
        BY <1>2, <3>1
      <4>. QED  BY <4>1 DEF Pending, Of
    <3>. QED  BY <3>1
  <2>3. CASE d = h.client /\ x = h.channel
    <3>1. IsLast(1) /\ 1 \in DOMAIN awaiting
      BY <1>2, <2>2, <2>3 DEF IsLast, h
    <3>2. h.op = "subscribed" <=> x \in rooms[d]
      BY <2>3, <3>1 DEF RoomsFollowLast, h
    <3>3. told'[d][x] = h.op
      BY <1>3, <1>4, <2>3 DEF NotificationsTypeOK
    <3>4. x \in subscriptions'[d] <=> h.op = "subscribed"
      BY <1>3, <1>4, <2>1, <2>3 DEF Entry
    <3>. QED  BY <2>1, <3>2, <3>3, <3>4
  <2>4. CASE ~(d = h.client /\ x = h.channel)
    <3>1. ~Pending(d, x)
      BY <1>2, <2>2, <2>4 DEF Pending, Of, h
    <3>2. told'[d][x] = told[d][x]
      BY <1>3, <1>4, <2>4 DEF NotificationsTypeOK
    <3>3. x \in subscriptions'[d] <=> x \in subscriptions[d]
      BY <1>4, <2>1, <2>4 DEF Entry
    <3>. QED  BY <2>1, <3>1, <3>2, <3>3 DEF AnswersHold, notified
  <2>. QED  BY <2>3, <2>4
<1>. QED  BY <1>5, <1>6, <1>8, <1>9, <1>10

LEMMA NotificationsStepInv ==
    NotificationsInv /\ [NotificationsNext]_notificationsVars => NotificationsInv'
<1>. SUFFICES ASSUME NotificationsInv, [NotificationsNext]_notificationsVars
              PROVE  NotificationsInv'
  OBVIOUS
<1>1. CASE finish
  BY <1>1, FinishKeeps
<1>2. CASE UNCHANGED notificationsVars
  BY <1>2 DEF notificationsVars, NotificationsInv, NotificationsTypeOK, EntriesAreConnected,
              NewIsUntouched, RoomsFollowLast, IsLast, Of, AnswersHold, Entry, Pending, notified,
              getSubscriptions
<1>3. ASSUME NEW ch \in Channel, send(ch) PROVE NotificationsInv'
  BY <1>2, <1>3 DEF send
<1>4. ASSUME NEW c \in Client, refuseMessage(c) PROVE NotificationsInv'
  BY <1>2, <1>4 DEF refuseMessage
<1>5. ASSUME NEW c \in Client, handleConnection(c) PROVE NotificationsInv'
  BY <1>5, ConnectKeeps
<1>6. ASSUME NEW c \in Client, handleDisconnect(c) PROVE NotificationsInv'
  BY <1>6, DisconnectKeeps
<1>7. ASSUME NEW c \in Client, NEW ch \in Channel, NEW op \in Op, begin(c, ch, op)
      PROVE  NotificationsInv'
  BY <1>7, BeginKeeps
<1>. QED  BY <1>1, <1>2, <1>3, <1>4, <1>5, <1>6, <1>7 DEF NotificationsNext

LEMMA NotificationsInvHolds == NotificationsSpec => []NotificationsInv
BY NotificationsInitInv, NotificationsStepInv, PTL DEF NotificationsSpec

(* The gateway's types hold for any sockets and channels.                  *)
THEOREM NotificationsTyped == NotificationsSpec => []NotificationsTypeOK
<1>1. NotificationsInv => NotificationsTypeOK
  BY DEF NotificationsInv
<1>. QED  BY <1>1, NotificationsInvHolds, PTL

(* For any sockets, channels and handlers under way: the gateway has       *)
(* entries for the connected sockets and no others (handleDisconnect, and  *)
(* what handleSubscribe does after its await).                             *)
THEOREM NoEntryLeftOver == NotificationsSpec => []EntriesAreConnected
<1>1. NotificationsInv => EntriesAreConnected
  BY DEF NotificationsInv
<1>. QED  BY <1>1, NotificationsInvHolds, PTL

(* A client that waits for nothing was told what is: the map, the rooms    *)
(* and its last answer agree (handleSubscribe and handleUnsubscribe).      *)
THEOREM NotificationsSound == NotificationsSpec => []AnswersHold
<1>1. NotificationsInv => AnswersHold
  BY DEF NotificationsInv
<1>. QED  BY <1>1, NotificationsInvHolds, PTL
=============================================================================
