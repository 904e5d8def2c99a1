-------------------------------- MODULE Routes --------------------------------
(***************************************************************************)
(* The HTTP operations of the controllers, and what may be answered to     *)
(* each: the guards on its way in, the failures of the handler and of the  *)
(* services it calls, and the status GlobalExceptionFilter gives a failure.*)
(*                                                                         *)
(* A request passes, in this order (src/src/main.ts): CsrfGuard, the       *)
(* guards of the route, ValidationPipe, the handler.                       *)
(***************************************************************************)
EXTENDS Naturals, FiniteSets

(* What is thrown.  A BadRequestException may carry a body of its own.     *)
HttpException(status) == [class |-> "HttpException", status |-> status, bodyStatus |-> status]
DomainException(code) == [class |-> "DomainException", code |-> code]
ErrorNamed(name) == [class |-> "Error", name |-> name]

CsrfRefusal == HttpException(403)
RateLimitRefusal == [HttpException(400) EXCEPT !.bodyStatus = 429]
JwtRefusal == HttpException(401)
PipeRefusal == HttpException(400)
(* A query that fails, for one because an id is no uuid; any other error.  *)
Database == {ErrorNamed("QueryFailedError"), ErrorNamed("Error")}

mapDomainExceptionToStatus(code) ==
    CASE code \in {"ENTITY_NOT_FOUND", "USER_NOT_FOUND"} -> 404
      [] code \in {"USER_ALREADY_EXISTS", "CONSTRAINT_VIOLATION"} -> 409
      [] code \in {"INVALID_CREDENTIALS", "EMAIL_VERIFICATION_FAILED"} -> 401
      [] OTHER -> 400

(* Variant: the status of the exception, whatever its body says.           *)
catchPlain(e) ==
    CASE e.class = "HttpException" -> e.status
      [] e.class = "DomainException" -> mapDomainExceptionToStatus(e.code)
      [] OTHER -> IF e.name = "QueryFailedError" THEN 400 ELSE 500

(* GlobalExceptionFilter.catch: the status answered.                       *)
catch(e) ==
    CASE e.class = "HttpException" -> IF e.bodyStatus = 429 THEN 429 ELSE e.status
      [] e.class = "DomainException" -> mapDomainExceptionToStatus(e.code)
      [] OTHER -> IF e.name = "QueryFailedError" THEN 400 ELSE 500

-----------------------------------------------------------------------------
(* A GET without guards; NestJS answers 200, and 201 to a POST, unless     *)
(* @HttpCode says otherwise.                                               *)
Get == [method |-> "GET", limit |-> "none", jwt |-> FALSE, body |-> FALSE,
        ok |-> {200}, throws |-> {}]
Post == [Get EXCEPT !.method = "POST", !.ok = {201}]
PostOk == [Post EXCEPT !.ok = {200}]
Delete == [Get EXCEPT !.method = "DELETE"]

csrfToken == Get

login == [PostOk EXCEPT !.limit = "LOGIN", !.body = TRUE,
    !.throws = Database \cup {HttpException(401), HttpException(500)}]

register == [Post EXCEPT !.limit = "REGISTER", !.body = TRUE,
    !.throws = Database \cup {DomainException("USER_ALREADY_EXISTS"), HttpException(500)}]

refreshToken == [PostOk EXCEPT !.limit = "REFRESH_TOKEN", !.body = TRUE,
    !.throws = Database \cup {HttpException(401)}]

forgotPassword == [PostOk EXCEPT !.limit = "FORGOT_PASSWORD", !.body = TRUE,
    !.throws = Database \cup {HttpException(500)}]

resetPassword == [PostOk EXCEPT !.limit = "RESET_PASSWORD", !.body = TRUE,
    !.throws = Database \cup {DomainException("USER_NOT_FOUND"), HttpException(400), HttpException(500)}]

verifyEmail == [PostOk EXCEPT !.limit = "VERIFY_EMAIL", !.body = TRUE,
    !.throws = Database \cup {HttpException(404), HttpException(500)}]

(* The id is the constant 'TODO-get-from-jwt-guard', which is no uuid: the *)
(* lookup fails before anything else can.                                  *)
updatePassword == [PostOk EXCEPT !.body = TRUE, !.ok = {}, !.throws = Database]

checkPasswordStrength == [PostOk EXCEPT !.body = TRUE]
getPasswordPolicy == Get
getProfile == Get

logout == PostOk
verifyToken == [PostOk EXCEPT !.jwt = TRUE]
clearAccessToken == PostOk
clearRefreshToken == PostOk

setup == [Post EXCEPT !.jwt = TRUE, !.throws = Database]
verify == [Post EXCEPT !.jwt = TRUE, !.body = TRUE,
    !.throws = Database \cup {HttpException(400), HttpException(401)}]
disable == [verify EXCEPT !.throws = Database \cup {HttpException(401)}]

(* GET /courses is limited, by the limit of registrations.                 *)
listCourses == [Get EXCEPT !.limit = "REGISTER", !.throws = Database]
getCourse == [Get EXCEPT !.throws = Database \cup {DomainException("COURSE_NOT_FOUND")}]
listUsers == [Get EXCEPT !.throws = Database]
getUser == [Get EXCEPT !.throws = Database \cup {DomainException("USER_NOT_FOUND")}]

exportData == [Get EXCEPT !.throws = Database \cup {HttpException(404)}]
deleteUserData == [Delete EXCEPT !.ok = {204}, !.throws = Database \cup {HttpException(404)}]
getRetentionPolicies == Get
applyRetentionPolicies == [Delete EXCEPT !.throws = Database]

checkHealth == [Get EXCEPT !.throws = {HttpException(503)}]
liveness == Get
readiness == checkHealth

getHello == Get
contractReads == Get
(* The bodies have no class to validate: a missing one fails in the code.  *)
contractValidations == [Post EXCEPT !.throws = {ErrorNamed("Error")}]
reloadSpecificationRoute == [Post EXCEPT !.throws = {ErrorNamed("Error")}]
clearCacheRoute == Delete

Routes == [csrfToken |-> csrfToken, login |-> login, register |-> register,
    refreshToken |-> refreshToken, forgotPassword |-> forgotPassword,
    resetPassword |-> resetPassword, verifyEmail |-> verifyEmail,
    updatePassword |-> updatePassword, checkPasswordStrength |-> checkPasswordStrength,
    getPasswordPolicy |-> getPasswordPolicy, getProfile |-> getProfile,
    logout |-> logout, verifyToken |-> verifyToken, clearAccessToken |-> clearAccessToken,
    clearRefreshToken |-> clearRefreshToken, setup |-> setup, verify |-> verify,
    disable |-> disable, listCourses |-> listCourses, getCourse |-> getCourse,
    listUsers |-> listUsers, getUser |-> getUser, exportData |-> exportData,
    deleteUserData |-> deleteUserData, getRetentionPolicies |-> getRetentionPolicies,
    applyRetentionPolicies |-> applyRetentionPolicies, checkHealth |-> checkHealth,
    liveness |-> liveness, readiness |-> readiness, getHello |-> getHello,
    contractReads |-> contractReads, contractValidations |-> contractValidations,
    reloadSpecification |-> reloadSpecificationRoute, clearCache |-> clearCacheRoute]

-----------------------------------------------------------------------------
safeMethods == {"GET", "HEAD", "OPTIONS"}

Gate == {"csrf", "limit", "jwt", "pipe"}

(* The gates a request to r has to pass.                                   *)
Gates(r) == {g \in Gate : \/ g = "csrf" /\ r.method \notin safeMethods
                          \/ g = "limit" /\ r.limit # "none"
                          \/ g = "jwt" /\ r.jwt
                          \/ g = "pipe" /\ r.body}

Refusal == [csrf |-> CsrfRefusal, limit |-> RateLimitRefusal, jwt |-> JwtRefusal, pipe |-> PipeRefusal]

Failures == UNION {Routes[op].throws : op \in DOMAIN Routes}
Successes == UNION {Routes[op].ok : op \in DOMAIN Routes}
=============================================================================
