------------------------------ MODULE SecureLogger ------------------------------
(***************************************************************************)
(* What the log is given: sanitize of                                      *)
(* src/src/common/secure-logging/secure-logger.service.ts, and what        *)
(* secure-logging.interceptor.ts does to requests, answers and errors      *)
(* before it hands them to the logger.                                     *)
(*                                                                         *)
(* What happens to a part of a value depends only on the names above it,   *)
(* so a value is one leaf with the names on the way to it, an element of   *)
(* an array under its index.  Of the names only the lists they are on      *)
(* matter, of strings only whether they look like a token, or are a text   *)
(* that quotes a secret.  A line of the log is the set of its parts.       *)
(***************************************************************************)
EXTENDS Integers, Sequences

CONSTANTS
    MaxDepth,       \* 5
    MaxNesting      \* of the values looked at

ASSUME DepthsAreNumbers == MaxDepth \in Nat /\ MaxNesting \in Nat

VARIABLES
    raw,            \* the parts of what was to be logged
    logged          \* the parts of what was

loggerVars == <<raw, logged>>

Leaf(kind) == [names |-> <<>>, leaf |-> kind]
Under(key, v) == [names |-> <<key>> \o v.names, leaf |-> v.leaf]

(* Fields on both lists, on the logger's only, others, and an index.       *)
InterceptorFields == {"password"}
sensitiveFields == {"password", "phone"}
Index == "0"
Name == {"password", "phone", "name", Index}
LeafKind == {"plain", "jwt", "null", "empty"}

(* Names and leaves of the logger's own making.                            *)
Wrapper == {"url", "query", "responseBody", "sanitizedData", "error", "message"}
(* A URL, or a message around it, by what its query string says.           *)
Text == {"text", "text with a secret"}
Mark == {"JWT_TOKEN_REDACTED", "REDACTED", "MAX_DEPTH_EXCEEDED"}
AnyName == Name \cup Wrapper
AnyKind == LeafKind \cup Text \cup Mark
Value == [names : Seq(AnyName), leaf : AnyKind]

(* Values whose leaves are at most n deep.                                 *)
Values(n) == [names : UNION {[1..k -> Name] : k \in 0..n}, leaf : LeafKind]

-----------------------------------------------------------------------------
isSensitiveField(key) == key \in sensitiveFields
(* The patterns have to fit the whole string: a text that quotes a token   *)
(* stays as it is.                                                         *)
sanitizeString(kind) == IF kind = "jwt" THEN "JWT_TOKEN_REDACTED" ELSE kind

(* Variant: arrays are logged as they are.                                 *)
sanitizeNoArrays(v) ==
    LET Depth(n) == Len(v.names) - n
        Below[n \in 0..Len(v.names)] ==
            IF Depth(n) > MaxDepth THEN Leaf("MAX_DEPTH_EXCEEDED")
            ELSE IF n = 0 THEN Leaf(sanitizeString(v.leaf))
            ELSE LET key == v.names[Depth(n) + 1] IN
                 IF key = Index
                 THEN [names |-> SubSeq(v.names, Depth(n) + 1, Len(v.names)), leaf |-> v.leaf]
                 ELSE IF isSensitiveField(key) /\ (n > 1 \/ v.leaf # "null")
                 THEN Under(key, Leaf("REDACTED"))
                 ELSE Under(key, Below[n - 1])
    IN  Below[Len(v.names)]

(* What comes of v below each depth, by the number of names left.  null    *)
(* is kept, whatever its name; an index is on no list.                     *)
sanitizeBelow(v) ==
    LET Depth(n) == Len(v.names) - n
        Below[n \in 0..Len(v.names)] ==
            IF Depth(n) > MaxDepth THEN Leaf("MAX_DEPTH_EXCEEDED")
            ELSE IF n = 0 THEN Leaf(sanitizeString(v.leaf))
            ELSE LET key == v.names[Depth(n) + 1] IN
                 IF isSensitiveField(key) /\ (n > 1 \/ v.leaf # "null")
                 THEN Under(key, Leaf("REDACTED"))
                 ELSE Under(key, Below[n - 1])
    IN  Below

sanitize(v) == sanitizeBelow(v)[Len(v.names)]

(* The interceptor's own pass, over the fields of one object; a spread     *)
(* array is an object with its indices for names.                          *)
sanitizeSensitiveData(v) ==
    IF /\ v.names # <<>> /\ Head(v.names) \in InterceptorFields
       /\ Len(v.names) > 1 \/ v.leaf \notin {"null", "empty"}
    THEN Under(Head(v.names), Leaf("REDACTED"))
    ELSE v

(* Of an answer, hasData and the names of its keys say nothing here.       *)
sanitizeResponse(v) ==
    IF v.names = <<>> THEN v ELSE Under("sanitizedData", sanitizeSensitiveData(v))

(* Of an error, the message; its stack only in development.                *)
sanitizeError(kind) == Under("message", Leaf(IF kind \in {"null", "empty"} THEN "plain" ELSE kind))
-----------------------------------------------------------------------------
NotLogged == {}
(* The logger is given some parts, in place of those it was to log.        *)
Logs(what, parts) ==
    /\ raw' = what
    /\ logged' = {sanitize(v) : v \in parts}

(* log, error, warn, debug and verbose, of the message or a parameter.     *)
logValue(v) == Logs({v}, {v})

(* What the URL says of a part of the query, and the two parts every line  *)
(* of the interceptor has: the message, and the URL.                       *)
TellsSecret(v) ==
    /\ v.leaf \notin {"null", "empty"} \cup Mark
    /\ v.leaf = "jwt" \/ \E i \in DOMAIN v.names : v.names[i] \in sensitiveFields
urlOf(v) == IF TellsSecret(v) THEN "text with a secret" ELSE "text"
Line(url) == {Leaf(url), Under("url", Leaf(url))}

(* intercept: the query of a request (params likewise), the answer and the *)
(* error, each with the URL.                                               *)
logRequest(v) ==
    Logs(Line(urlOf(v)) \cup {Under("query", v)},
         Line(urlOf(v)) \cup {Under("query", sanitizeSensitiveData(v))})
logResponse(url, v) ==
    Logs(Line(url) \cup {Under("responseBody", IF v.names = <<>> THEN v ELSE Under("sanitizedData", v))},
         Line(url) \cup {Under("responseBody", sanitizeResponse(v))})
logError(url, kind) ==
    Logs(Line(url) \cup {Under("error", Under("message", Leaf(IF kind \in {"null", "empty"} THEN "plain" ELSE kind)))},
         Line(url) \cup {Under("error", sanitizeError(kind))})

lineWritten == logged # NotLogged /\ logged' = NotLogged /\ raw' = NotLogged

LoggerInit == raw = NotLogged /\ logged = NotLogged

LoggerNext ==
    \/ lineWritten
    \/ logged = NotLogged /\ \E v \in Values(MaxNesting) :
           logValue(v) \/ logRequest(v) \/ \E url \in Text : logResponse(url, v)
    \/ logged = NotLogged /\ \E url \in Text, kind \in LeafKind : logError(url, kind)

LoggerSpec == LoggerInit /\ [][LoggerNext]_loggerVars
-----------------------------------------------------------------------------
(* Where a value is cut: behind the first sensitive name that holds        *)
(* something, or where it is too deep.                                     *)
Hides(v, i) == v.names[i] \in sensitiveFields /\ (i < Len(v.names) \/ v.leaf # "null")
Cuts(v) == {i \in DOMAIN v.names : Hides(v, i) \/ i = MaxDepth + 1}

Clean(v) ==
    IF Cuts(v) = {} THEN [v EXCEPT !.leaf = sanitizeString(@)]
    ELSE LET first == CHOOSE i \in Cuts(v) : \A j \in Cuts(v) : i <= j IN
         [names |-> SubSeq(v.names, 1, first),
          leaf |-> IF Hides(v, first) THEN "REDACTED" ELSE "MAX_DEPTH_EXCEEDED"]

LoggerTypeOK == raw \subseteq Value /\ logged \subseteq Value

(* Each part of a line is logged as it was given, cut behind the first     *)
(* sensitive field on the way and nowhere else before it is too deep, with *)
(* strings that are tokens replaced - also by way of the interceptor,      *)
(* whose own pass with its shorter list neither hides what the logger      *)
(* would show nor shows what the logger would hide.  Of a URL and of a     *)
(* message that says that they are logged as they are.                     *)
LoggedByPath == logged = {Clean(v) : v \in raw}
=============================================================================
