--------------------------- MODULE OpenApiValidation ---------------------------
(***************************************************************************)
(* Validation of requests and responses against an OpenAPI specification:  *)
(* openapi-validation.service.ts and openapi-validation.middleware.ts of   *)
(* src/src/common/contract-testing.                                        *)
(*                                                                         *)
(* A verdict is the set of error codes of a message.  Verdicts are cached  *)
(* under a key that leaves out the query, the headers and all but the      *)
(* first bytes of a body.  The specification is read from a file at the    *)
(* start and whenever a reload is asked for; the component schemas are     *)
(* registered with ajv, which keeps the first schema of a name.            *)
(*                                                                         *)
(* The specification may be malformed, since little of it is checked when  *)
(* it is loaded.  A path item left empty makes the lookup of an endpoint   *)
(* throw, in the service's own catch once more, and the middleware then    *)
(* lets the request through unvalidated, its response too.                 *)
(*                                                                         *)
(* Everything between two awaits is one step: a request up to its handler, *)
(* a response, a reload (whose promise is already settled when it is       *)
(* awaited).  Left out are warnings, what is logged, and the cache of      *)
(* compiled schemas, which nothing reads.  Missing path parameters too:    *)
(* a path only matches a pattern of as many segments.                      *)
(*                                                                         *)
(* Definitions marked "Variant" are plausible mistakes in the definition   *)
(* after them, which the properties notice.                                *)
(***************************************************************************)
EXTENDS Naturals, Sequences, FiniteSets

CONSTANTS
    Exchange,       \* requests that are being handled at a time
    Request,        \* [method, path, query, headers, body]
    Response,       \* [status, headers, body, json], json when it is sent by res.json
    File,           \* contents of the specification file
    Segments,       \* the segments of a path, as normalizePath and split leave them
    Hash,           \* the first 12 bytes of a body as JSON
    Serialized,     \* the body that is the JSON text of a body
    Rejection,      \* the response of sendValidationError
    None,           \* undefined
    Unvalidated,    \* a request that was let through when its lookup threw
    Strict,         \* OPENAPI_STRICT_MODE
    MaxCacheSize

ASSUME CacheHasRoom == MaxCacheSize \in Nat \ {0}
ASSUME NoneIsNoRequest == None \notin Request /\ Unvalidated \notin Request /\ None # Unvalidated

VARIABLES
    file,               \* the file now
    openApiSpec,        \* what was parsed last
    ajv,                \* the component schemas registered, by name
    validationCache,    \* sequence of [key, errors], oldest first
    handling            \* the request whose handler an exchange runs, Unvalidated, or None

vars == <<file, openApiSpec, ajv, validationCache, handling>>

Code == {"ENDPOINT_NOT_FOUND", "MISSING_QUERY_PARAMETER", "INVALID_QUERY_PARAMETER",
         "MISSING_HEADER", "INVALID_HEADER", "INVALID_REQUEST_BODY",
         "INVALID_RESPONSE_BODY", "MISSING_RESPONSE_HEADER", "INVALID_RESPONSE_HEADER",
         "VALIDATION_ERROR"}

-----------------------------------------------------------------------------
(* A schema refers to a component schema, or says itself what it accepts.  *)
validateSchema(schemas, schema, value) ==
    IF schema.ref = None THEN value \in schema.accepts
    ELSE schema.ref \in DOMAIN schemas /\ value \in schemas[schema.ref]

(* The errors of query parameters or headers, values being those given.    *)
ParameterErrors(schemas, params, values, missing, invalid) ==
    {c \in {missing} : \E p \in params : p.required /\ p.name \notin DOMAIN values}
    \cup {c \in {invalid} : \E p \in params : /\ p.name \in DOMAIN values
                                              /\ ~validateSchema(schemas, p.schema, values[p.name])}

BodyErrors(schemas, schema, body, code) ==
    {c \in {code} : body # None /\ schema # None /\ ~validateSchema(schemas, schema, body)}

pathMatches(segments, pattern) ==
    /\ Len(segments) = Len(pattern)
    /\ \A n \in DOMAIN pattern : pattern[n].parameter \/ pattern[n].text = segments[n]

(* The operations of a specification, in its order, are                    *)
(* [method, pattern, query, headers, body, responses, faulty]; method is   *)
(* None for a path item that is empty.  faulty are the types of messages   *)
(* whose validation throws: the parameters are no list, or the description *)
(* of a response header is empty.                                          *)
Literal(op, m) ==
    op.method = m.method /\ [n \in DOMAIN op.pattern |-> op.pattern[n].text] = Segments[m.path]
Matches(op, m) == op.method = m.method /\ pathMatches(Segments[m.path], op.pattern)

First(ops, ns) == IF ns = {} THEN None ELSE ops[CHOOSE n \in ns : \A k \in ns : n <= k]

findEndpoint(spec, m) ==
    LET ops == spec.operations
        literal == {n \in DOMAIN ops : Literal(ops[n], m)}
    IN  First(ops, IF literal # {} THEN literal ELSE {n \in DOMAIN ops : Matches(ops[n], m)})

(* paths[...]?. passes over an empty path item, the walk over the patterns *)
(* does not.                                                               *)
lookupThrows(spec, m) ==
    LET ops == spec.operations
        walked == {n \in DOMAIN ops : /\ ops[n].method \in {m.method, None}
                                      /\ pathMatches(Segments[m.path], ops[n].pattern)}
    IN  /\ \A n \in DOMAIN ops : ~Literal(ops[n], m)
        /\ walked # {} /\ First(ops, walked).method = None

requestErrors(schemas, op, m) ==
    ParameterErrors(schemas, op.query, m.query, "MISSING_QUERY_PARAMETER", "INVALID_QUERY_PARAMETER")
    \cup ParameterErrors(schemas, op.headers, m.headers, "MISSING_HEADER", "INVALID_HEADER")
    \cup BodyErrors(schemas, op.body, m.body, "INVALID_REQUEST_BODY")

(* The response of a status, or else the default; without one, no errors.  *)
responseErrors(schemas, op, m) ==
    LET status == IF m.status \in DOMAIN op.responses THEN m.status ELSE "default"
    IN  IF status \notin DOMAIN op.responses THEN {}
        ELSE BodyErrors(schemas, op.responses[status].body, m.body, "INVALID_RESPONSE_BODY")
             \cup ParameterErrors(schemas, op.responses[status].headers, m.headers,
                                  "MISSING_RESPONSE_HEADER", "INVALID_RESPONSE_HEADER")

(* What the specification says of a message.                               *)
Errors(spec, schemas, m) ==
    LET op == findEndpoint(spec, m)
    IN  IF op = None THEN {"ENDPOINT_NOT_FOUND"}
        ELSE IF m.type \in op.faulty THEN {"VALIDATION_ERROR"}
        ELSE IF m.type = "request" THEN requestErrors(schemas, op, m)
        ELSE responseErrors(schemas, op, m)

-----------------------------------------------------------------------------
AsRequest(q) ==
    [type |-> "request", method |-> q.method, path |-> q.path, status |-> None,
     query |-> q.query, headers |-> q.headers, body |-> q.body]

AsResponse(q, s, body) ==
    [type |-> "response", method |-> q.method, path |-> q.path, status |-> s.status,
     query |-> None, headers |-> s.headers, body |-> body]

Body == {s.body : s \in Response \cup {Rejection}}
Message == {AsRequest(q) : q \in Request}
           \cup {AsResponse(q, s, b) : q \in Request, s \in Response \cup {Rejection},
                                       b \in Body \cup {Serialized[c] : c \in Body}}

(* Variant: a response and its request share a key.                        *)
generateCacheKeyUntyped(m) == <<m.method, m.path, Hash[m.body]>>

generateCacheKey(m) == <<m.method, m.path, m.type, Hash[m.body], m.status>>

Cached(cache, key) == {n \in DOMAIN cache : cache[n].key = key}

(* Variant: a full cache is not made room in.                              *)
cacheValidationResultFull(cache, key, errors) == Append(cache, [key |-> key, errors |-> errors])

cacheValidationResult(cache, key, errors) ==
    Append(IF Len(cache) >= MaxCacheSize THEN Tail(cache) ELSE cache,
           [key |-> key, errors |-> errors])

(* What is validated to the end: the others leave no verdict behind.       *)
Validated(spec, m) ==
    /\ ~lookupThrows(spec, m) /\ findEndpoint(spec, m) # None
    /\ m.type \notin findEndpoint(spec, m).faulty

(* validateRequest and validateResponse: the verdict and the cache after.  *)
validate(cache, m) ==
    LET key == generateCacheKey(m)
        hits == Cached(cache, key)
        errors == Errors(openApiSpec, ajv, m)
    IN  IF hits # {} THEN [errors |-> cache[CHOOSE n \in hits : TRUE].errors, cache |-> cache]
        ELSE IF ~Validated(openApiSpec, m) THEN [errors |-> errors, cache |-> cache]
        ELSE [errors |-> errors, cache |-> cacheValidationResult(cache, key, errors)]

(* res.json validates the body, then calls res.send with its JSON text,    *)
(* which validates that.  A response whose validation throws is sent.      *)
Sent(cache, q, s) ==
    LET first == IF s.json THEN validate(cache, AsResponse(q, s, s.body)).cache ELSE cache
    IN  validate(first, AsResponse(q, s, IF s.json THEN Serialized[s.body] ELSE s.body)).cache

-----------------------------------------------------------------------------
(* validateRequest throws: no verdict is cached, and there is none to find. *)
NoVerdict(q) ==
    /\ Cached(validationCache, generateCacheKey(AsRequest(q))) = {}
    /\ lookupThrows(openApiSpec, AsRequest(q))

(* use: a request goes on to its handler, or in strict mode is answered    *)
(* with status 400 by the methods that validate a response.  The catch     *)
(* calls next() too, before those methods are put in place.                *)
Pass(r, q) ==
    LET v == validate(validationCache, AsRequest(q))
    IN  /\ handling[r] = None
        /\ ~NoVerdict(q) /\ ~(Strict /\ v.errors # {})
        /\ handling' = [handling EXCEPT ![r] = q]
        /\ validationCache' = v.cache
        /\ UNCHANGED <<file, openApiSpec, ajv>>

PassUnvalidated(r, q) ==
    /\ handling[r] = None /\ NoVerdict(q)
    /\ handling' = [handling EXCEPT ![r] = Unvalidated]
    /\ UNCHANGED <<file, openApiSpec, ajv, validationCache>>

Reject(q) ==
    LET v == validate(validationCache, AsRequest(q))
    IN  /\ Strict /\ v.errors # {} /\ ~NoVerdict(q)
        /\ validationCache' = Sent(v.cache, q, Rejection)
        /\ UNCHANGED <<file, openApiSpec, ajv, handling>>

Respond(r, s) ==
    /\ handling[r] \in Request
    /\ handling' = [handling EXCEPT ![r] = None]
    /\ validationCache' = Sent(validationCache, handling[r], s)
    /\ UNCHANGED <<file, openApiSpec, ajv>>

RespondUnvalidated(r) ==
    /\ handling[r] = Unvalidated
    /\ handling' = [handling EXCEPT ![r] = None]
    /\ UNCHANGED <<file, openApiSpec, ajv, validationCache>>

clearCache ==
    /\ validationCache' = <<>>
    /\ UNCHANGED <<file, openApiSpec, ajv, handling>>

registerSchemas(schemas) ==
    [n \in DOMAIN ajv \cup DOMAIN schemas |-> IF n \in DOMAIN ajv THEN ajv[n] ELSE schemas[n]]

(* Variant: what was cached is kept.                                       *)
reloadSpecificationCached ==
    /\ openApiSpec' = IF file.parses THEN file ELSE openApiSpec
    /\ ajv' = IF file.parses /\ file.valid THEN registerSchemas(file.schemas) ELSE ajv
    /\ UNCHANGED <<file, handling, validationCache>>

(* A file that cannot be parsed leaves the specification; one that is not  *)
(* valid replaces it, and only its schemas are not registered.             *)
reloadSpecification ==
    /\ validationCache' = <<>>
    /\ openApiSpec' = IF file.parses THEN file ELSE openApiSpec
    /\ ajv' = IF file.parses /\ file.valid THEN registerSchemas(file.schemas) ELSE ajv
    /\ UNCHANGED <<file, handling>>

Edit ==
    /\ file' \in File
    /\ UNCHANGED <<openApiSpec, ajv, validationCache, handling>>

(* The process ends when the first load fails.                             *)
Init ==
    /\ file \in {f \in File : f.parses /\ f.valid}
    /\ openApiSpec = file
    /\ ajv = file.schemas
    /\ validationCache = <<>>
    /\ handling = [r \in Exchange |-> None]

Next ==
    \/ \E r \in Exchange, q \in Request : Pass(r, q) \/ PassUnvalidated(r, q)
    \/ \E q \in Request : Reject(q)
    \/ \E r \in Exchange, s \in Response : Respond(r, s)
    \/ \E r \in Exchange : RespondUnvalidated(r)
    \/ clearCache
    \/ reloadSpecification
    \/ Edit

Spec == Init /\ [][Next]_vars
-----------------------------------------------------------------------------
TypeOK ==
    /\ file \in File /\ openApiSpec \in {f \in File : f.parses}
    /\ \A n \in DOMAIN ajv : \E f \in {g \in File : g.parses} : n \in DOMAIN f.schemas /\ ajv[n] = f.schemas[n]
    /\ \A n \in DOMAIN validationCache : validationCache[n].errors \subseteq Code
    /\ Len(validationCache) <= MaxCacheSize
    /\ handling \in [Exchange -> Request \cup {None, Unvalidated}]

(* A verdict in the cache is what the specification and the schemas in     *)
(* force now say of a message with its key, and no key is there twice:     *)
(* no reload, eviction or failed load leaves a verdict of another          *)
(* specification, or that of a response under the key of a request.        *)
CacheCurrent ==
    /\ \A n \in DOMAIN validationCache :
          \E m \in Message : /\ generateCacheKey(m) = validationCache[n].key
                             /\ Errors(openApiSpec, ajv, m) = validationCache[n].errors
    /\ \A n, k \in DOMAIN validationCache :
          validationCache[n].key = validationCache[k].key => n = k

(* In strict mode a request reaches its handler only when a request like   *)
(* it, up to what the key leaves out, conforms to the specification in     *)
(* force, or when the lookup of its endpoint throws; and it is rejected    *)
(* only when one like it does not conform.                                 *)
Alike(q, p) == p.method = q.method /\ p.path = q.path /\ Hash[p.body] = Hash[q.body]
Conforms(q) ==
    ~lookupThrows(openApiSpec, AsRequest(q)) /\ Errors(openApiSpec, ajv, AsRequest(q)) = {}
Reaches(q) == \E r \in Exchange : Pass(r, q) \/ PassUnvalidated(r, q)

StrictByTwin ==
    [][Strict => \A q \in Request :
          /\ Reaches(q) => \/ \E p \in Request : Alike(q, p) /\ Conforms(p)
                           \/ lookupThrows(openApiSpec, AsRequest(q))
          /\ Reject(q) => \E p \in Request : Alike(q, p) /\ ~Conforms(p)]_vars

(* docs/CONTRACT_TESTING.md:263: "Continue/Reject: Passes valid requests,  *)
(* rejects invalid ones (strict mode)".                                    *)
StrictRejectsInvalid ==
    [][Strict => \A q \in Request :
          /\ Reaches(q) => Conforms(q)
          /\ Reject(q) => ~Conforms(q)]_vars
=============================================================================
