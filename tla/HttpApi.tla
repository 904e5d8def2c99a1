------------------------------- MODULE HttpApi -------------------------------
(***************************************************************************)
(* Requests of the pages of one browser, from one address, through the     *)
(* guards of the API: src/src/auth/guards/csrf.guard.ts before everything, *)
(* rate-limit.guard.ts (RateLimiter) before the handler, and the answers   *)
(* that set or clear the CSRF cookie (auth.controller.ts,                  *)
(* token.controller.ts).                                                   *)
(*                                                                         *)
(* A browser attaches the cookie it has when a request leaves, and stores  *)
(* the one of an answer when that arrives; requests and answers of the     *)
(* pages overtake each other.  Pages are external: they send any request   *)
(* at any time, with the token of the last csrf-token answer they got.     *)
(* CSRF tokens are random: one that is given out is in use nowhere.        *)
(***************************************************************************)
EXTENDS RateLimiter, Routes

CONSTANTS
    Page,
    Operation,      \* the operations the pages use
    Token,          \* CSRF tokens, enough for those in use at one time
    NoToken

ASSUME OperationsLimited ==
    /\ Operation \subseteq DOMAIN Routes
    /\ \A op \in Operation : Routes[op].limit \in LimitKey \cup {"none"}
ASSUME NoTokenIsNone == NoToken \notin Token
ASSUME TokensSuffice ==
    IsFiniteSet(Page) /\ (IsFiniteSet(Token) => Cardinality(Token) >= 3 * Cardinality(Page))

VARIABLES
    jar,            \* the XSRF-TOKEN cookie of the browser
    held,           \* the token each page sends as x-csrf-token
    request,        \* what each page has sent and not been answered to
    answer,         \* what is on its way back to each page
    tokenForm   \* the form of the refresh token a page got from its
                    \* login, if the pages use it at all

apiVars == <<jar, held, request, answer, tokenForm, store, recent>>
browser == <<jar, held, tokenForm>>

Nothing == [op |-> "none"]
(* Of a request the guard does not look at, the tokens are left out.       *)
Request == [op : Operation, header : Token \cup {NoToken}, cookie : Token \cup {NoToken}]
(* by: the gate that refused, or the handler's success or failure.         *)
Answer == [op : Operation, by : Gate \cup {"done", "failed"},
           body : Token \cup {NoToken}, cookie : Token \cup {NoToken}]

InUse == {jar} \cup {held[p] : p \in Page}
    \cup (UNION {{request[p].cookie, request[p].header} : p \in {q \in Page : request[q] # Nothing}})
    \cup (UNION {{answer[p].body, answer[p].cookie} : p \in {q \in Page : answer[q] # Nothing}})

Idle(p) == request[p] = Nothing /\ answer[p] = Nothing

(* CsrfGuard.canActivate.                                                  *)
csrfPasses(q) ==
    \/ Routes[q.op].method \in safeMethods
    \/ q.cookie # NoToken /\ q.header # NoToken /\ q.cookie = q.header

(* login gives out 40 random bytes in hex, in the body of its answer.      *)
IssuedForm == "hex"
(* The pages' bodies may be malformed, but for a refresh token: they send  *)
(* the one they got.  RefreshTokenDto: @IsJWT.                             *)
dtoMayRefuse(op, form) == op = "refreshToken" => form # "jwt"
dtoMayAccept(op, form) == op = "refreshToken" => form = "jwt"

Send(p, op) ==
    /\ Idle(p)
    /\ op = "refreshToken" => tokenForm[p] # NoToken
    /\ request' = [request EXCEPT ![p] =
           IF Routes[op].method \in safeMethods
           THEN [op |-> op, header |-> NoToken, cookie |-> NoToken]
           ELSE [op |-> op, header |-> held[p], cookie |-> jar]]
    /\ UNCHANGED <<browser, answer, store, recent>>

AnsweredWith(p, by, tokens) ==
    /\ request' = [request EXCEPT ![p] = Nothing]
    /\ answer' = [answer EXCEPT ![p] = [op |-> request[p].op, by |-> by,
                                       body |-> tokens.body, cookie |-> tokens.cookie]]
    /\ UNCHANGED browser
Answered(p, by) == AnsweredWith(p, by, [body |-> NoToken, cookie |-> NoToken])

RefuseCsrf(p) ==
    /\ request[p] # Nothing /\ ~csrfPasses(request[p])
    /\ Answered(p, "csrf")
    /\ UNCHANGED limiterVars

RefuseLimit(p) ==
    /\ request[p] # Nothing /\ csrfPasses(request[p])
    /\ LET limit == Routes[request[p].op].limit IN limit # "none" /\ Refuse(limit)
    /\ Answered(p, "limit")

(* Variant: the cookie and the body get a token each.                      *)
getCsrfTokenTwice ==
    LET t == CHOOSE u \in Token : u \notin InUse
    IN  [body |-> t, cookie |-> CHOOSE u \in Token : u \notin InUse \cup {t}]

(* The handler of csrf-token: one token, in the body and in the cookie.    *)
getCsrfToken ==
    LET t == CHOOSE u \in Token : u \notin InUse IN [body |-> t, cookie |-> t]

(* Past the CSRF guard, and the limiter if there is one.                   *)
Handle(p) ==
    /\ request[p] # Nothing /\ csrfPasses(request[p])
    /\ LET q == request[p]
           r == Routes[q.op]
       IN  /\ IF r.limit = "none" THEN UNCHANGED limiterVars ELSE Allow(r.limit)
           /\ \/ \E g \in Gates(r) \cap {"jwt", "pipe"} :
                     /\ g = "pipe" => dtoMayRefuse(q.op, tokenForm[p])
                     /\ Answered(p, g)
              \/ /\ dtoMayAccept(q.op, tokenForm[p])
                 /\ r.throws # {}
                 /\ Answered(p, "failed")
              \/ /\ dtoMayAccept(q.op, tokenForm[p])
                 /\ r.ok # {}
                 /\ IF q.op = "csrfToken" THEN AnsweredWith(p, "done", getCsrfToken)
                    ELSE Answered(p, "done")

(* The answer arrives: csrf-token sets the cookie, logout clears it.       *)
Deliver(p) ==
    /\ answer[p] # Nothing
    /\ LET a == answer[p] IN
         /\ jar' = CASE a.op = "csrfToken" -> a.cookie
                     [] a.op = "logout" /\ a.by = "done" -> NoToken
                     [] OTHER -> jar
         /\ held' = [held EXCEPT ![p] = IF a.op = "csrfToken" THEN a.body ELSE @]
         /\ tokenForm' = [tokenForm EXCEPT ![p] =
                IF a.op = "login" /\ a.by = "done" /\ "refreshToken" \in Operation
                THEN IssuedForm ELSE @]
    /\ answer' = [answer EXCEPT ![p] = Nothing]
    /\ UNCHANGED <<request, store, recent>>

(* maxAge of the cookie is over.                                           *)
ExpireCookie ==
    /\ jar # NoToken
    /\ jar' = NoToken
    /\ UNCHANGED <<held, tokenForm, request, answer, store, recent>>

ApiTick == Tick /\ UNCHANGED <<browser, request, answer>>

ApiInit ==
    /\ LimiterInit
    /\ jar = NoToken /\ held = [p \in Page |-> NoToken]
    /\ request = [p \in Page |-> Nothing] /\ answer = [p \in Page |-> Nothing]
    /\ tokenForm = [p \in Page |-> NoToken]

ApiNext ==
    \/ ApiTick \/ ExpireCookie
    \/ \E p \in Page : \/ RefuseCsrf(p) \/ RefuseLimit(p) \/ Handle(p) \/ Deliver(p)
                       \/ \E op \in Operation : Send(p, op)

ApiSpec == ApiInit /\ [][ApiNext]_apiVars

SendPost(p) == \E op \in Operation : Routes[op].method \notin safeMethods /\ Send(p, op)

(* Time passes, the server answers and answers arrive.  Nothing is said of *)
(* the pages: they may stop.                                               *)
ApiFairness ==
    /\ WF_apiVars(ApiTick)
    /\ \A p \in Page : WF_apiVars(RefuseCsrf(p) \/ RefuseLimit(p) \/ Handle(p) \/ Deliver(p))
-----------------------------------------------------------------------------
ApiTypeOK ==
    /\ LimiterTypeOK
    /\ jar \in Token \cup {NoToken} /\ held \in [Page -> Token \cup {NoToken}]
    /\ request \in [Page -> Request \cup {Nothing}]
    /\ answer \in [Page -> Answer \cup {Nothing}]
    /\ tokenForm \in [Page -> {NoToken, IssuedForm}]

(* An address that keeps trying is let through again and again, however    *)
(* its attempts fall: a refused attempt does not prolong the window.       *)
NotLockedOut ==
    \A k \in LimitKey :
        []<><<Allow(k) \/ Refuse(k)>>_apiVars => []<><<Allow(k)>>_apiVars

(* The token of one page is made useless by every csrf-token answer        *)
(* another page gets, since all pages share the cookie.  Once the others   *)
(* leave the cookie alone, a page that fetches tokens and posts again and  *)
(* again gets past the guard again and again, whatever tokens it held and  *)
(* whatever answers were still under way.                                  *)
PostsGetThrough ==
    \A p \in Page :
        /\ <>[][jar' # jar => Deliver(p)]_apiVars
        /\ []<><<Send(p, "csrfToken")>>_apiVars
        /\ []<><<SendPost(p)>>_apiVars
        => []<><<request[p] # Nothing /\ Routes[request[p].op].method \notin safeMethods
                 /\ (RefuseLimit(p) \/ Handle(p))>>_apiVars
=============================================================================
