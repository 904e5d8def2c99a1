------------------------ MODULE OpenApiValidationProofs ------------------------
(***************************************************************************)
(* Proofs of the properties of OpenApiValidation, for any messages,        *)
(* specifications, hash of bodies and size of the cache.                   *)
(***************************************************************************)
EXTENDS OpenApiValidation, SequenceTheorems, TLAPS

Key == {generateCacheKey(m) : m \in Message}
Entry == [key : Key, errors : SUBSET Code]

Current(spec, schemas, entry) ==
    \E m \in Message : /\ generateCacheKey(m) = entry.key
                       /\ Errors(spec, schemas, m) = entry.errors

(* What a cache must be, under a specification and its schemas.            *)
Sound(spec, schemas, cache) ==
    /\ cache \in Seq(Entry)
    /\ Len(cache) <= MaxCacheSize
    /\ \A n \in 1..Len(cache) : Current(spec, schemas, cache[n])
    /\ \A n, k \in 1..Len(cache) : cache[n].key = cache[k].key => n = k

IInv == TypeOK /\ Sound(openApiSpec, ajv, validationCache)

USE CacheHasRoom, NoneIsNoRequest
-----------------------------------------------------------------------------
LEMMA ErrorsTyped == ASSUME NEW spec, NEW schemas, NEW m PROVE Errors(spec, schemas, m) \in SUBSET Code
  <1>1. ASSUME NEW params, NEW values, NEW missing \in Code, NEW invalid \in Code
        PROVE  ParameterErrors(schemas, params, values, missing, invalid) \in SUBSET Code
    BY <1>1 DEF ParameterErrors
  <1>2. ASSUME NEW schema, NEW body, NEW code \in Code
        PROVE  BodyErrors(schemas, schema, body, code) \in SUBSET Code
    BY <1>2 DEF BodyErrors
  <1>3. ASSUME NEW op PROVE requestErrors(schemas, op, m) \in SUBSET Code
    BY <1>1, <1>2 DEF requestErrors, Code
  <1>4. ASSUME NEW op PROVE responseErrors(schemas, op, m) \in SUBSET Code
    <2>1. ASSUME NEW response
          PROVE  /\ BodyErrors(schemas, response.body, m.body, "INVALID_RESPONSE_BODY")
                      \in SUBSET Code
                 /\ ParameterErrors(schemas, response.headers, m.headers,
                                    "MISSING_RESPONSE_HEADER", "INVALID_RESPONSE_HEADER")
                      \in SUBSET Code
      BY <1>1, <1>2 DEF Code
    <2>. QED BY <2>1 DEF responseErrors
  <1>. QED BY <1>3, <1>4 DEF Errors, Code

(* Eviction of the oldest entry.                                           *)
LEMMA TailSound == ASSUME NEW spec, NEW schemas, NEW cache, Sound(spec, schemas, cache), cache # <<>>
                   PROVE  Sound(spec, schemas, Tail(cache)) /\ Len(Tail(cache)) = Len(cache) - 1
                          /\ \A n \in 1..Len(Tail(cache)) : Tail(cache)[n] = cache[n + 1]
  <1>1. cache \in Seq(Entry) /\ Len(cache) \in Nat
    BY DEF Sound
  <1>2. /\ Tail(cache) \in Seq(Entry) /\ Len(Tail(cache)) = Len(cache) - 1
        /\ \A n \in 1..Len(Tail(cache)) : Tail(cache)[n] = cache[n + 1]
    BY <1>1, HeadTailProperties
  <1>3. \A n \in 1..Len(Tail(cache)) : n + 1 \in 1..Len(cache)
    BY <1>1, <1>2
  <1>. QED BY <1>1, <1>2, <1>3 DEF Sound

LEMMA AppendSound ==
  ASSUME NEW spec, NEW schemas, NEW cache, Sound(spec, schemas, cache), Len(cache) < MaxCacheSize,
         NEW entry \in Entry, Current(spec, schemas, entry),
         \A n \in 1..Len(cache) : cache[n].key # entry.key
  PROVE  Sound(spec, schemas, Append(cache, entry))
  <1>. DEFINE new == Append(cache, entry)
  <1>1. cache \in Seq(Entry) /\ Len(cache) \in Nat
    BY DEF Sound
  <1>2. /\ new \in Seq(Entry) /\ Len(new) = Len(cache) + 1
        /\ \A n \in 1..Len(cache) : new[n] = cache[n]
        /\ new[Len(cache) + 1] = entry
    BY <1>1, AppendProperties
  <1>3. \A n \in 1..Len(new) : n \in 1..Len(cache) \/ n = Len(cache) + 1
    BY <1>1, <1>2
  <1>. HIDE DEF new
  <1>4. \A n \in 1..Len(new) : Current(spec, schemas, new[n])
    BY <1>2, <1>3 DEF Sound
  <1>5. \A n, k \in 1..Len(new) : new[n].key = new[k].key => n = k
    BY <1>2, <1>3 DEF Sound
  <1>6. Len(new) <= MaxCacheSize
    BY <1>1, <1>2
  <1>7. Sound(spec, schemas, new)
    BY <1>2, <1>4, <1>5, <1>6 DEF Sound
  <1>. QED BY <1>7 DEF new

(* A validation keeps the cache sound, and its verdict is that of a        *)
(* message with the same key.                                              *)
LEMMA Validates ==
  ASSUME NEW cache, Sound(openApiSpec, ajv, cache), NEW m \in Message
  PROVE  /\ Sound(openApiSpec, ajv, validate(cache, m).cache)
         /\ \E t \in Message : /\ generateCacheKey(t) = generateCacheKey(m)
                               /\ Errors(openApiSpec, ajv, t) = validate(cache, m).errors
  <1>. DEFINE key == generateCacheKey(m)
              hits == Cached(cache, key)
              errors == Errors(openApiSpec, ajv, m)
              entry == [key |-> key, errors |-> errors]
  <1>1. DOMAIN cache = 1..Len(cache) /\ Len(cache) \in Nat
    BY DEF Sound
  <1>2. CASE hits # {}
    <2>. DEFINE n == CHOOSE k \in hits : TRUE
    <2>1. n \in hits
      BY <1>2
    <2>2. n \in 1..Len(cache) /\ cache[n].key = key
      BY <1>1, <2>1 DEF Cached
    <2>3. validate(cache, m) = [errors |-> cache[n].errors, cache |-> cache]
      BY <1>2 DEF validate
    <2>. HIDE DEF n
    <2>4. PICK t \in Message : /\ generateCacheKey(t) = cache[n].key
                               /\ Errors(openApiSpec, ajv, t) = cache[n].errors
      BY <2>2 DEF Sound, Current
    <2>5. validate(cache, m).errors = cache[n].errors /\ validate(cache, m).cache = cache
      BY <2>3
    <2>. QED BY <2>2, <2>4, <2>5
  <1>3. CASE hits = {} /\ ~Validated(openApiSpec, m)
    <2>1. validate(cache, m) = [errors |-> errors, cache |-> cache]
      BY <1>3 DEF validate
    <2>. QED BY <2>1
  <1>4. CASE hits = {} /\ Validated(openApiSpec, m)
    <2>1. validate(cache, m) = [errors |-> errors, cache |-> cacheValidationResult(cache, key, errors)]
      BY <1>4 DEF validate
    <2>2. entry \in Entry /\ Current(openApiSpec, ajv, entry)
      BY ErrorsTyped DEF Entry, Key, Current
    <2>3. \A n \in 1..Len(cache) : cache[n].key # key
      BY <1>1, <1>4 DEF Cached
    <2>4. Sound(openApiSpec, ajv, cacheValidationResult(cache, key, errors))
      <3>1. CASE Len(cache) >= MaxCacheSize
        <4>1. cache # <<>>
          BY <3>1
        <4>2. /\ Sound(openApiSpec, ajv, Tail(cache)) /\ Len(Tail(cache)) = Len(cache) - 1
              /\ \A n \in 1..Len(Tail(cache)) : Tail(cache)[n] = cache[n + 1]
          BY <4>1, TailSound
        <4>3. Len(Tail(cache)) < MaxCacheSize
          BY <1>1, <4>2 DEF Sound
        <4>4. \A n \in 1..Len(Tail(cache)) : n + 1 \in 1..Len(cache)
          BY <1>1, <4>2
        <4>5. \A n \in 1..Len(Tail(cache)) : Tail(cache)[n].key # entry.key
          BY <2>3, <4>2, <4>4
        <4>. HIDE DEF entry
        <4>6. Sound(openApiSpec, ajv, Append(Tail(cache), entry))
          BY <2>2, <4>2, <4>3, <4>5, AppendSound
        <4>. QED BY <3>1, <4>6 DEF cacheValidationResult, entry
      <3>2. CASE ~(Len(cache) >= MaxCacheSize)
        <4>1. Len(cache) < MaxCacheSize
          BY <1>1, <3>2
        <4>2. \A n \in 1..Len(cache) : cache[n].key # entry.key
          BY <2>3
        <4>. HIDE DEF entry
        <4>3. Sound(openApiSpec, ajv, Append(cache, entry))
          BY <2>2, <4>1, <4>2, AppendSound
        <4>. QED BY <3>2, <4>3 DEF cacheValidationResult, entry
      <3>. QED BY <3>1, <3>2
    <2>. QED BY <2>1, <2>4
  <1>. QED BY <1>2, <1>3, <1>4

(* One or two validations of a response keep the cache sound.              *)
LEMMA Sends ==
  ASSUME NEW cache, Sound(openApiSpec, ajv, cache), NEW q \in Request,
         NEW s \in Response \cup {Rejection}
  PROVE  Sound(openApiSpec, ajv, Sent(cache, q, s))
  <1>. DEFINE whole == AsResponse(q, s, s.body)
              text == AsResponse(q, s, IF s.json THEN Serialized[s.body] ELSE s.body)
              first == IF s.json THEN validate(cache, whole).cache ELSE cache
  <1>1. whole \in Message /\ text \in Message
    BY DEF Message, Body
  <1>2. Sound(openApiSpec, ajv, first)
    BY <1>1, Validates
  <1>. HIDE DEF whole, text, first
  <1>3. Sound(openApiSpec, ajv, validate(first, text).cache)
    BY <1>1, <1>2, Validates
  <1>. QED BY <1>3 DEF Sent, whole, text, first

LEMMA RequestIsMessage == ASSUME NEW q \in Request PROVE AsRequest(q) \in Message
  BY DEF Message

LEMMA EmptySound == ASSUME NEW spec, NEW schemas PROVE Sound(spec, schemas, <<>>)
  BY DEF Sound

(* The rest of the type invariant follows from a sound cache.              *)
LEMMA SoundTyped == ASSUME NEW spec, NEW schemas, NEW cache, Sound(spec, schemas, cache)
                    PROVE  /\ \A n \in DOMAIN cache : cache[n].errors \subseteq Code
                           /\ Len(cache) <= MaxCacheSize
  <1>1. cache \in Seq(Entry) /\ Len(cache) <= MaxCacheSize
    BY DEF Sound
  <1>2. \A n \in DOMAIN cache : cache[n] \in Entry
    BY <1>1
  <1>. QED BY <1>1, <1>2 DEF Entry

LEMMA Initially == Init => IInv
  <1>. SUFFICES ASSUME Init PROVE IInv
    OBVIOUS
  <1>1. Sound(openApiSpec, ajv, validationCache)
    BY EmptySound DEF Init
  <1>. QED BY <1>1, SoundTyped DEF Init, IInv, TypeOK

LEMMA Inductive == IInv /\ [Next]_vars => IInv'
  <1>. SUFFICES ASSUME IInv, [Next]_vars PROVE IInv'
    OBVIOUS
  <1>0. Sound(openApiSpec, ajv, validationCache)
    BY DEF IInv
  <1>1. ASSUME NEW r \in Exchange, NEW q \in Request, Pass(r, q) PROVE IInv'
    <2>1. Sound(openApiSpec, ajv, validationCache')
      BY <1>0, <1>1, RequestIsMessage, Validates DEF Pass
    <2>. QED BY <1>1, <2>1, SoundTyped DEF Pass, IInv, TypeOK
  <1>2. ASSUME NEW q \in Request, Reject(q) PROVE IInv'
    <2>. DEFINE first == validate(validationCache, AsRequest(q)).cache
    <2>1. Sound(openApiSpec, ajv, first)
      BY <1>0, RequestIsMessage, Validates
    <2>. HIDE DEF first
    <2>2. Sound(openApiSpec, ajv, Sent(first, q, Rejection))
      BY <2>1, Sends
    <2>3. Sound(openApiSpec, ajv, validationCache')
      BY <1>2, <2>2 DEF Reject, first
    <2>. QED BY <1>2, <2>3, SoundTyped DEF Reject, IInv, TypeOK
  <1>3. ASSUME NEW r \in Exchange, NEW s \in Response, Respond(r, s) PROVE IInv'
    <2>1. handling[r] \in Request
      BY <1>3 DEF Respond, IInv, TypeOK
    <2>2. Sound(openApiSpec, ajv, validationCache')
      BY <1>0, <1>3, <2>1, Sends DEF Respond
    <2>. QED BY <1>3, <2>2, SoundTyped DEF Respond, IInv, TypeOK
  <1>8. ASSUME NEW r \in Exchange, NEW q \in Request, PassUnvalidated(r, q) PROVE IInv'
    BY <1>8 DEF PassUnvalidated, IInv, TypeOK
  <1>9. ASSUME NEW r \in Exchange, RespondUnvalidated(r) PROVE IInv'
    BY <1>9 DEF RespondUnvalidated, IInv, TypeOK
  <1>4. CASE clearCache
    <2>1. Sound(openApiSpec, ajv, validationCache')
      BY <1>4, EmptySound DEF clearCache
    <2>. QED BY <1>4, <2>1, SoundTyped DEF clearCache, IInv, TypeOK
  <1>5. CASE reloadSpecification
    <2>1. Sound(openApiSpec', ajv', validationCache')
      BY <1>5, EmptySound DEF reloadSpecification
    <2>2. openApiSpec' \in {f \in File : f.parses}
      BY <1>5 DEF reloadSpecification, IInv, TypeOK
    <2>3. \A n \in DOMAIN ajv' : \E f \in {g \in File : g.parses} :
             n \in DOMAIN f.schemas /\ ajv'[n] = f.schemas[n]
      <3>1. CASE file.parses /\ file.valid
        BY <1>5, <3>1 DEF reloadSpecification, registerSchemas, IInv, TypeOK
      <3>2. CASE ~(file.parses /\ file.valid)
        BY <1>5, <3>2 DEF reloadSpecification, IInv, TypeOK
      <3>. QED BY <3>1, <3>2
    <2>. QED BY <1>5, <2>1, <2>2, <2>3, SoundTyped DEF reloadSpecification, IInv, TypeOK
  <1>6. CASE Edit
    BY <1>6 DEF Edit, IInv, TypeOK
  <1>7. CASE UNCHANGED vars
    BY <1>7 DEF vars, IInv, TypeOK
  <1>. QED BY <1>1, <1>2, <1>3, <1>4, <1>5, <1>6, <1>7, <1>8, <1>9 DEF Next

LEMMA Invariant == Spec => []IInv
  <1>. QED BY Initially, Inductive, PTL DEF Spec
-----------------------------------------------------------------------------
(* The cache keeps its bound and its types, and the specification in force *)
(* is always one that was in the file.                                     *)
THEOREM ValidationTyped == Spec => []TypeOK
  <1>1. IInv => TypeOK
    BY DEF IInv
  <1>. QED BY <1>1, Invariant, PTL

(* No verdict of an earlier specification is in the cache, whatever        *)
(* reloads, evictions and messages follow each other.                      *)
THEOREM NoStaleVerdict == Spec => []CacheCurrent
  <1>1. IInv => CacheCurrent
    <2>. SUFFICES ASSUME IInv PROVE CacheCurrent
      OBVIOUS
    <2>1. DOMAIN validationCache = 1..Len(validationCache)
      BY DEF IInv, Sound
    <2>. QED BY <2>1 DEF IInv, Sound, Current, CacheCurrent
  <1>. QED BY <1>1, Invariant, PTL

(* The lookup of an endpoint throws for a request and all like it, or none. *)
LEMMA AlikeLookup ==
  ASSUME NEW spec, NEW q \in Request, NEW p \in Request, Alike(q, p)
  PROVE  lookupThrows(spec, AsRequest(p)) <=> lookupThrows(spec, AsRequest(q))
  BY DEF Alike, lookupThrows, Literal, AsRequest

(* In strict mode, requests pass and are rejected by the verdict of one    *)
(* that the key does not tell from them, or pass unvalidated because the   *)
(* lookup of their endpoint throws (use of OpenAPIValidationMiddleware).   *)
THEOREM GateByKey == Spec => StrictByTwin
  <1>. DEFINE Gate == Strict => \A q \in Request :
          /\ Reaches(q) => \/ \E p \in Request : Alike(q, p) /\ Conforms(p)
                           \/ lookupThrows(openApiSpec, AsRequest(q))
          /\ Reject(q) => \E p \in Request : Alike(q, p) /\ ~Conforms(p)
  <1>1. IInv => Gate
    <2>. SUFFICES ASSUME IInv, Strict, NEW q \in Request
                  PROVE  /\ \A r \in Exchange : Pass(r, q) =>
                               \/ \E p \in Request : Alike(q, p) /\ Conforms(p)
                               \/ lookupThrows(openApiSpec, AsRequest(q))
                         /\ \A r \in Exchange : PassUnvalidated(r, q) =>
                               lookupThrows(openApiSpec, AsRequest(q))
                         /\ Reject(q) => \E p \in Request : Alike(q, p) /\ ~Conforms(p)
      BY DEF Reaches
    <2>. DEFINE errors == validate(validationCache, AsRequest(q)).errors
    <2>1. PICK t \in Message : /\ generateCacheKey(t) = generateCacheKey(AsRequest(q))
                               /\ Errors(openApiSpec, ajv, t) = errors
      BY RequestIsMessage, Validates DEF IInv
    <2>2. t.type = "request"
      BY <2>1 DEF generateCacheKey, AsRequest
    <2>3. PICK p \in Request : t = AsRequest(p)
      BY <2>2 DEF Message, AsResponse
    <2>4. Alike(q, p)
      BY <2>1, <2>3 DEF Alike, generateCacheKey, AsRequest
    <2>5. /\ Conforms(p) => errors = {}
          /\ errors = {} /\ ~lookupThrows(openApiSpec, AsRequest(q)) => Conforms(p)
      BY <2>1, <2>3, <2>4, AlikeLookup DEF Conforms
    <2>6. \A r \in Exchange : PassUnvalidated(r, q) => lookupThrows(openApiSpec, AsRequest(q))
      BY DEF PassUnvalidated, NoVerdict
    <2>. QED BY <2>4, <2>5, <2>6 DEF Pass, Reject
  <1>2. IInv /\ [Next]_vars => [Gate]_vars
    BY <1>1
  <1>. QED BY <1>2, Invariant, PTL DEF Spec, StrictByTwin

(* What makes strict mode wrong is the key, and lookups that throw: if no  *)
(* two requests had one key, and no specification in the file had an empty *)
(* path item that a request comes upon, strict mode would pass exactly the *)
(* requests that conform, whatever is cached, evicted, cleared or reloaded *)
(* (generateCacheKey and findEndpoint of OpenAPIValidationService).        *)
THEOREM KeyAndEmptyItemsMislead ==
    /\ \A q, p \in Request : Alike(q, p) => q = p
    /\ \A f \in File, q \in Request : f.parses => ~lookupThrows(f, AsRequest(q))
    => (Spec => StrictRejectsInvalid)
  <1>. SUFFICES ASSUME \A q, p \in Request : Alike(q, p) => q = p,
                       \A f \in File, q \in Request : f.parses => ~lookupThrows(f, AsRequest(q))
                PROVE  Spec => StrictRejectsInvalid
    OBVIOUS
  <1>. DEFINE ByTwin == Strict => \A q \in Request :
                 /\ Reaches(q) => \/ \E p \in Request : Alike(q, p) /\ Conforms(p)
                                  \/ lookupThrows(openApiSpec, AsRequest(q))
                 /\ Reject(q) => \E p \in Request : Alike(q, p) /\ ~Conforms(p)
              Right == Strict => \A q \in Request :
                 /\ Reaches(q) => Conforms(q)
                 /\ Reject(q) => ~Conforms(q)
  <1>1. TypeOK /\ [ByTwin]_vars => [Right]_vars
    <2>1. TypeOK => \A q \in Request : ~lookupThrows(openApiSpec, AsRequest(q))
      BY DEF TypeOK
    <2>. QED BY <2>1
  <1>. QED BY <1>1, GateByKey, ValidationTyped, PTL DEF StrictByTwin, StrictRejectsInvalid
=============================================================================
