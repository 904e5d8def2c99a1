----------------------------- MODULE AuthService -----------------------------
(***************************************************************************)
(* The account life cycle of src/src/auth/services/auth.service.ts with    *)
(* the erasure of src/src/gdpr: concurrent HTTP requests over the tables   *)
(* users, user_profiles, refresh_tokens and security_audits.               *)
(*                                                                         *)
(* A request runs one handler once.  Its first step is the handler's read  *)
(* and the checks made on what was read, OUTSIDE any transaction; then,    *)
(* if the handler goes on, come the statements of its transaction, one     *)
(* step each, and the commit.  pc[r] is the next statement of request r or *)
(* the answer it gave.  A request whose transaction has not committed has  *)
(* changed nothing that others see; what it holds are row locks, and they  *)
(* follow from its pc.  Isolation is READ COMMITTED, the PostgreSQL        *)
(* default the code leaves in force.                                       *)
(*                                                                         *)
(* Names.  A random value (uuid of a row, refresh token, reset token) is   *)
(* fresh, so it is named by the request that draws it: a user and a        *)
(* profile by their registration, a refresh token by its login, a reset    *)
(* token by its forgot-password request.                                   *)
(*                                                                         *)
(* Definitions marked "Variant" are not part of the specification: each    *)
(* is a plausible mistake in the definition after it, and shows that the   *)
(* properties notice it.                                                   *)
(***************************************************************************)
EXTENDS Naturals, FiniteSets

CONSTANTS
    Request,      \* the HTTP requests of a behaviour, each runs one handler
    Email,        \* e-mail addresses, up to case (emailHash lower-cases)
    Password,     \* plain-text passwords; bcrypt.compare is equality of these
    StubEmail,    \* the address verifyEmail resolves every token to
    Registered,   \* registrations that are already complete at the start
    None          \* SQL null

ASSUME StubIsEmail == StubEmail \in Email
ASSUME RegisteredAreRequests == Registered \subseteq Request
ASSUME NoneIsNull == None \notin Request /\ None \notin Email /\ None \notin Password

VARIABLES
    row,       \* users: row[u] is the row whose id was drawn by u
    profile,   \* user_profiles: the owners of the profile rows
    session,   \* refresh_tokens: session[t] is the row inserted by login t
    audit,     \* security_audits
    pc,        \* next statement, or answer, of each request
    req        \* what each request holds in its local variables

vars == <<row, profile, session, audit, pc, req>>

-----------------------------------------------------------------------------
(* Rows. setBy (the request that wrote the password), session.proof (the   *)
(* setBy of the password the login verified), req.saw (the active sessions *)
(* of the user at the read) and audit.by are history: no step reads them.  *)

Row == [email: Email \cup {None}, password: Password \cup {None},
        setBy: Request \cup {None}, reset: Request \cup {None},
        resetExpired: BOOLEAN, verified: BOOLEAN]

NoRow == [email |-> None, password |-> None, setBy |-> None, reset |-> None,
          resetExpired |-> FALSE, verified |-> FALSE]

NewRow(r, e, p) == [NoRow EXCEPT !.email = e, !.password = p, !.setBy = r]

Session == [user: Request \cup {None}, revoked: BOOLEAN, expired: BOOLEAN,
            proof: Request \cup {None}]

NoSession == [user |-> None, revoked |-> FALSE, expired |-> FALSE, proof |-> None]

Event == {"login_success", "login_failed", "password_change", "two_factor_enable",
          "password_reset_request", "password_reset_success"}

AuditRow == [by: Request, user: Request \cup {None}, event: Event]

Operation == {"none", "register", "login", "loginFailed", "refresh", "logout",
              "forgot", "reset", "verify", "update", "delete"}

Statement == {"insertUser", "insertProfile", "insertSession", "updateUser",
              "revokeSessions", "insertAudit", "commit"}

(* "error" is a 500, or no answer because the process ended; "lost" is the *)
(* same to the client, but the database had committed: the acknowledgement *)
(* of the COMMIT did not arrive, so run() rejected.  Which of the two it   *)
(* was is history: no step reads it.                                       *)
Answer == {"ok", "conflict", "unauthorized", "notFound", "badRequest", "error", "lost"}

Local == [op: Operation, user: Request \cup {None}, email: Email \cup {None},
          password: Password \cup {None}, token: Request \cup {None},
          proof: Request \cup {None}, saw: SUBSET Request, marks: SUBSET Request]

NoLocal == [op |-> "none", user |-> None, email |-> None, password |-> None,
            token |-> None, proof |-> None, saw |-> {}, marks |-> {}]

Live(u) == row[u].email # None
Found(e) == {u \in Request : row[u].email = e}
Active(t) == session[t].user # None /\ ~session[t].revoked
ActiveSessions(u) == {t \in Request : session[t].user = u /\ ~session[t].revoked}
Acknowledged(r, o) == pc[r] = "ok" /\ req[r].op = o
Committed(r, o) == pc[r] \in {"ok", "lost"} /\ req[r].op = o

-----------------------------------------------------------------------------
(* Locks.  UPDATE locks the user row until commit and waits for another    *)
(* update of it; inserting a row that refers to a user shares its key,     *)
(* which only a DELETE of the user conflicts with; the unique index on     *)
(* emailHash makes the second of two inserts of one address wait.          *)

(* Variant: a transaction that is not ended keeps its locks.               *)
RowLockedForever(u) ==
    /\ Live(u)
    /\ \E q \in Request :
          /\ req[q].user = u
          /\ req[q].op \in {"reset", "update", "forgot", "verify"}
          /\ pc[q] \in {"revokeSessions", "insertAudit", "commit", "ok"}

RowLocked(u) ==
    /\ Live(u)
    /\ \E q \in Request :
          /\ req[q].user = u
          /\ \/ req[q].op \in {"reset", "update"} /\ pc[q] \in {"revokeSessions", "insertAudit", "commit"}
             \/ req[q].op \in {"forgot", "verify"} /\ pc[q] \in {"insertAudit", "commit"}

KeyShared(u) ==
    \E q \in Request :
        /\ req[q].user = u
        /\ pc[q] = "commit" \/ (req[q].op = "login" /\ pc[q] = "insertAudit")

(* Variant: emailHash without its unique index.                            *)
IndexDropped(e) == FALSE

IndexHeld(e) ==
    \E q \in Request :
        /\ req[q].op = "register" /\ req[q].email = e
        /\ pc[q] \in {"insertProfile", "insertAudit", "commit"}

-----------------------------------------------------------------------------
Goto(r, s) == pc' = [pc EXCEPT ![r] = s]

(* A request that starts: it takes the locals l and continues at s.        *)
Begin(r, l, s) ==
    /\ pc[r] = "idle"
    /\ req' = [req EXCEPT ![r] = l]
    /\ Goto(r, s)
    /\ UNCHANGED <<row, profile, session, audit>>

(* register(): looks the address up, then inserts; the handler answers 409 *)
(* when the lookup finds a row.                                            *)
RegisterCheck(r, e, p) ==
    LET l == [NoLocal EXCEPT !.op = "register", !.user = r, !.email = e, !.password = p]
    IN  Begin(r, l, IF Found(e) # {} THEN "conflict" ELSE "insertUser")

(* login(): reads the user, compares; a failure is audited, then answered  *)
(* 401.                                                                    *)
LoginCheck(r, e, p) ==
    \/ \E u \in Found(e) :
          /\ row[u].password = p
          /\ Begin(r, [NoLocal EXCEPT !.op = "login", !.user = u, !.proof = row[u].setBy],
                   "insertSession")
    \/ \E u \in Found(e) :
          /\ row[u].password # p
          /\ Begin(r, [NoLocal EXCEPT !.op = "loginFailed", !.user = u], "insertAudit")
    \/ /\ Found(e) = {}
       /\ Begin(r, [NoLocal EXCEPT !.op = "loginFailed"], "insertAudit")

(* refreshToken(): one read; the token, which a client has from the answer *)
(* to login, is neither rotated nor revoked.                               *)
Refresh(r, t) ==
    /\ Acknowledged(t, "login")
    /\ Begin(r, [NoLocal EXCEPT !.op = "refresh", !.token = t],
             IF Active(t) /\ ~session[t].expired THEN "ok" ELSE "unauthorized")

(* logout(): clears the cookies of the response and touches no table.      *)
Logout(r, t) ==
    /\ Acknowledged(t, "login")
    /\ Begin(r, [NoLocal EXCEPT !.op = "logout", !.token = t], "ok")

(* forgotPassword(): an unknown address is answered like a known one.      *)
ForgotCheck(r, e) ==
    \/ \E u \in Found(e) :
          Begin(r, [NoLocal EXCEPT !.op = "forgot", !.user = u], "updateUser")
    \/ /\ Found(e) = {}
       /\ Begin(r, [NoLocal EXCEPT !.op = "forgot"], "ok")

(* resetPassword(): the token, which a client has from the answer to       *)
(* forgotPassword, is compared with the row read here.                     *)
ResetCheck(r, e, k, p) ==
    /\ Acknowledged(k, "forgot")
    /\ \/ /\ Found(e) = {}
          /\ Begin(r, [NoLocal EXCEPT !.op = "reset"], "notFound")
       \/ \E u \in Found(e) :
             Begin(r, [NoLocal EXCEPT !.op = "reset", !.user = u, !.token = k,
                                      !.password = p, !.saw = ActiveSessions(u)],
                   IF row[u].reset = k /\ ~row[u].resetExpired
                   THEN "updateUser" ELSE "badRequest")

(* verifyEmail(): every token resolves to the stub address.                *)
VerifyCheck(r) ==
    \/ /\ Found(StubEmail) = {}
       /\ Begin(r, [NoLocal EXCEPT !.op = "verify"], "notFound")
    \/ \E u \in Found(StubEmail) :
          Begin(r, [NoLocal EXCEPT !.op = "verify", !.user = u],
                IF row[u].verified THEN "ok" ELSE "updateUser")

(* The first read of a handler fails.  Nothing catches it before the       *)
(* exception filter, which answers 500, whatever the request asked for.    *)
ReadFails(r) ==
    \E o \in {"register", "login", "refresh", "forgot", "reset", "verify", "update"} :
        Begin(r, [NoLocal EXCEPT !.op = o], "error")

(* updatePassword(): compares the current password given with the row read *)
(* now.  The ids of all accounts are listed by GET /users, whether their   *)
(* registration was acknowledged or not.                                   *)
UpdateCheck(r, u, current, p) ==
    /\ Committed(u, "register")
    /\ Begin(r, [NoLocal EXCEPT !.op = "update", !.user = u, !.password = p,
                                !.saw = ActiveSessions(u)],
             IF ~Live(u) THEN "notFound"
             ELSE IF row[u].password # current THEN "unauthorized"
             ELSE "updateUser")

(* deleteUserData(): one DELETE statement; it waits for the locks on the   *)
(* row, and the foreign keys cascade to profile and sessions and null the  *)
(* user of the audits.  Its outcome may be lost on the way back.           *)
Delete(r, u) ==
    /\ pc[r] = "idle"
    /\ Committed(u, "register")
    /\ ~RowLocked(u) /\ ~KeyShared(u)
    /\ req' = [req EXCEPT ![r] = [NoLocal EXCEPT !.op = "delete", !.user = u]]
    /\ \E a \in {IF Live(u) THEN "ok" ELSE "notFound", "lost"} : Goto(r, a)
    /\ row' = [row EXCEPT ![u] = NoRow]
    /\ profile' = profile \ {u}
    /\ session' = [t \in Request |-> IF session[t].user = u THEN NoSession ELSE session[t]]
    /\ audit' = {IF a.user = u THEN [a EXCEPT !.user = None] ELSE a : a \in audit}

(* The DELETE fails, running or waiting: it is answered 500.               *)
DeleteFails(r, u) ==
    /\ Committed(u, "register")
    /\ Begin(r, [NoLocal EXCEPT !.op = "delete", !.user = u], "error")

-----------------------------------------------------------------------------
(* The statements of a transaction.                                        *)

(* Variant: the catch block forgets to translate the error.                *)
FailedRaw(r) == "queryFailed"

Failed(r) == IF req[r].op = "loginFailed" THEN "unauthorized" ELSE "error"

(* The step s of request r: to pc n, its locals unchanged.                 *)
Execute(r, s, n) ==
    /\ pc[r] = s
    /\ Goto(r, n)
    /\ UNCHANGED <<row, profile, session, audit, req>>

InsertUser(r) ==
    /\ Execute(r, "insertUser", IF Found(req[r].email) # {} THEN Failed(r) ELSE "insertProfile")
    /\ ~IndexHeld(req[r].email)

InsertProfile(r) == Execute(r, "insertProfile", "insertAudit")

InsertSession(r) ==
    Execute(r, "insertSession", IF Live(req[r].user) THEN "insertAudit" ELSE Failed(r))

(* UPDATE users ... WHERE id: no error when the row is gone.               *)
UpdateUser(r) ==
    /\ Execute(r, "updateUser",
               IF req[r].op \in {"reset", "update"} THEN "revokeSessions" ELSE "insertAudit")
    /\ ~RowLocked(req[r].user)

(* UPDATE refresh_tokens: marks the rows committed when the statement runs. *)
RevokeSessions(r) ==
    /\ pc[r] = "revokeSessions"
    /\ req' = [req EXCEPT ![r].marks = ActiveSessions(req[r].user)]
    /\ Goto(r, "insertAudit")
    /\ UNCHANGED <<row, profile, session, audit>>

(* Variant: security_audits without its foreign key.                       *)
InsertAuditUnchecked(r) == Execute(r, "insertAudit", "commit")

(* The user of the audit row must exist, or be null.                       *)
InsertAudit(r) ==
    LET u == req[r].user
    IN  Execute(r, "insertAudit",
                IF req[r].op = "register" \/ u = None \/ Live(u) THEN "commit" ELSE Failed(r))

Audited(r, e) == audit' = audit \cup {[by |-> r, user |-> req[r].user, event |-> e]}

(* The database commits.  The handler then answers a, unless it does not   *)
(* hear of it: the connection, or the process, is lost after the COMMIT.   *)
AtCommit(r, o, a) ==
    /\ pc[r] = "commit" /\ req[r].op = o
    /\ \E b \in {a, "lost"} : Goto(r, b)
    /\ UNCHANGED req

CommitRegister(r) ==
    /\ AtCommit(r, "register", "ok")
    /\ row' = [row EXCEPT ![r] = NewRow(r, req[r].email, req[r].password)]
    /\ profile' = profile \cup {r}
    /\ Audited(r, "login_success")
    /\ UNCHANGED session

CommitLogin(r) ==
    /\ AtCommit(r, "login", "ok")
    /\ session' = [session EXCEPT ![r] = [NoSession EXCEPT !.user = req[r].user,
                                                          !.proof = req[r].proof]]
    /\ Audited(r, "login_success")
    /\ UNCHANGED <<row, profile>>

CommitLoginFailed(r) ==
    /\ AtCommit(r, "loginFailed", "unauthorized")
    /\ Audited(r, "login_failed")
    /\ UNCHANGED <<row, profile, session>>

CommitForgot(r) ==
    /\ AtCommit(r, "forgot", "ok")
    /\ row' = [row EXCEPT ![req[r].user] = [@ EXCEPT !.reset = r, !.resetExpired = FALSE]]
    /\ Audited(r, "password_reset_request")
    /\ UNCHANGED <<profile, session>>

CommitVerify(r) ==
    /\ AtCommit(r, "verify", "ok")
    /\ row' = [row EXCEPT ![req[r].user] = [@ EXCEPT !.verified = TRUE]]
    /\ Audited(r, "two_factor_enable")
    /\ UNCHANGED <<profile, session>>

(* Variant: the update sets isRevoked of every row instead of the marked.  *)
RevokedExactly(marks) == [t \in Request |-> [session[t] EXCEPT !.revoked = (t \in marks)]]

Revoked(marks) == [t \in Request |-> IF t \in marks THEN [session[t] EXCEPT !.revoked = TRUE]
                                                   ELSE session[t]]

(* Variant: the reset leaves its token on the row.                         *)
CommitResetKeepsToken(r) ==
    /\ AtCommit(r, "reset", "ok")
    /\ row' = [row EXCEPT ![req[r].user] = [@ EXCEPT !.password = req[r].password, !.setBy = r]]
    /\ session' = Revoked(req[r].marks)
    /\ Audited(r, "password_reset_success")
    /\ UNCHANGED profile

(* Variant: the reset does not revoke the sessions.                        *)
CommitResetKeepsSessions(r) ==
    /\ AtCommit(r, "reset", "ok")
    /\ row' = [row EXCEPT ![req[r].user] = [@ EXCEPT !.password = req[r].password, !.setBy = r,
                                                    !.reset = None, !.resetExpired = FALSE]]
    /\ Audited(r, "password_reset_success")
    /\ UNCHANGED <<profile, session>>

CommitReset(r) ==
    /\ AtCommit(r, "reset", "ok")
    /\ row' = [row EXCEPT ![req[r].user] = [@ EXCEPT !.password = req[r].password, !.setBy = r,
                                                    !.reset = None, !.resetExpired = FALSE]]
    /\ session' = Revoked(req[r].marks)
    /\ Audited(r, "password_reset_success")
    /\ UNCHANGED profile

(* Variant: the audit row is left out of the transaction.                  *)
CommitUpdateUnaudited(r) ==
    /\ AtCommit(r, "update", "ok")
    /\ row' = [row EXCEPT ![req[r].user] = [@ EXCEPT !.password = req[r].password, !.setBy = r]]
    /\ session' = Revoked(req[r].marks)
    /\ UNCHANGED <<profile, audit>>

CommitUpdate(r) ==
    /\ AtCommit(r, "update", "ok")
    /\ row' = [row EXCEPT ![req[r].user] = [@ EXCEPT !.password = req[r].password, !.setBy = r]]
    /\ session' = Revoked(req[r].marks)
    /\ Audited(r, "password_change")
    /\ UNCHANGED profile

(* A statement fails, or the connection or the process is lost before the  *)
(* database commits: the transaction rolls back.                           *)
Abort(r) == \E s \in Statement, a \in {Failed(r), "error"} : Execute(r, s, a)

-----------------------------------------------------------------------------
(* Time.                                                                   *)

ExpireSession(t) ==
    /\ Active(t) /\ ~session[t].expired
    /\ session' = [session EXCEPT ![t].expired = TRUE]
    /\ UNCHANGED <<row, profile, audit, pc, req>>

ExpireReset(u) ==
    /\ row[u].reset # None /\ ~row[u].resetExpired
    /\ row' = [row EXCEPT ![u].resetExpired = TRUE]
    /\ UNCHANGED <<profile, session, audit, pc, req>>

-----------------------------------------------------------------------------
Init ==
    \E mail \in [Registered -> Email], secret \in [Registered -> Password] :
        /\ \A u, v \in Registered : mail[u] = mail[v] => u = v
        /\ row = [u \in Request |-> IF u \in Registered THEN NewRow(u, mail[u], secret[u]) ELSE NoRow]
        /\ profile = Registered
        /\ session = [t \in Request |-> NoSession]
        /\ audit = {[by |-> u, user |-> u, event |-> "login_success"] : u \in Registered}
        /\ pc = [r \in Request |-> IF r \in Registered THEN "ok" ELSE "idle"]
        /\ req = [r \in Request |->
                    IF r \in Registered
                    THEN [NoLocal EXCEPT !.op = "register", !.user = r,
                                         !.email = mail[r], !.password = secret[r]]
                    ELSE NoLocal]

Start(r) ==
    \/ \E e \in Email, p \in Password : RegisterCheck(r, e, p)
    \/ \E e \in Email, p \in Password : LoginCheck(r, e, p)
    \/ \E t \in Request : Refresh(r, t)
    \/ \E t \in Request : Logout(r, t)
    \/ \E e \in Email : ForgotCheck(r, e)
    \/ \E e \in Email, k \in Request, p \in Password : ResetCheck(r, e, k, p)
    \/ VerifyCheck(r)
    \/ \E u \in Request, current, p \in Password : UpdateCheck(r, u, current, p)
    \/ \E u \in Request : Delete(r, u)
    \/ \E u \in Request : DeleteFails(r, u)
    \/ ReadFails(r)

(* What the event loop and the database carry on by themselves once a      *)
(* request is under way.                                                   *)
Advance(r) ==
    \/ InsertUser(r) \/ InsertProfile(r) \/ InsertSession(r)
    \/ UpdateUser(r) \/ RevokeSessions(r) \/ InsertAudit(r)
    \/ CommitRegister(r) \/ CommitLogin(r) \/ CommitLoginFailed(r)
    \/ CommitForgot(r) \/ CommitVerify(r) \/ CommitReset(r) \/ CommitUpdate(r)

Next ==
    \/ \E r \in Request : Start(r) \/ Advance(r) \/ Abort(r)
    \/ \E t \in Request : ExpireSession(t)
    \/ \E u \in Request : ExpireReset(u)

Spec == Init /\ [][Next]_vars

(* A statement that can run is run: locks are released by commits, which   *)
(* nothing blocks.  Nothing obliges clients to send requests.              *)
FairSpec == Spec /\ \A r \in Request : WF_vars(Advance(r))
-----------------------------------------------------------------------------
(* Properties.                                                             *)

(* Type invariant of the tables and of the requests' locals.               *)
TypeOK ==
    /\ row \in [Request -> Row]
    /\ profile \subseteq Request
    /\ session \in [Request -> Session]
    /\ audit \subseteq AuditRow
    /\ pc \in [Request -> {"idle"} \cup Statement \cup Answer]
    /\ req \in [Request -> Local]

(* However registrations of one address interleave (both looked it up and  *)
(* found nothing), at most one account carries it: the lookup of register()*)
(* alone does not give this, the unique index does.                        *)
UniqueEmail == \A u, v \in Request : Live(u) /\ row[u].email = row[v].email => u = v

(* Whatever commits while an account is being erased, no profile, session  *)
(* or audit row refers to a user that is gone, and no account is without   *)
(* its profile.                                                            *)
ReferencesLive ==
    /\ profile = {u \in Request : Live(u)}
    /\ \A t \in Request : session[t].user # None => Live(session[t].user)
    /\ \A a \in audit : a.user # None => Live(a.user)

(* Every password in force was put there by a request whose transaction    *)
(* committed, answered 200 or a 500 in place of a lost acknowledgement, and *)
(* that left its audit row on the account; a rolled back, failed or        *)
(* overtaken request leaves neither.                                       *)
PasswordAccountedFor ==
    \A u \in Request : Live(u) =>
        LET c == row[u].setBy
        IN  /\ c \in Request /\ pc[c] \in {"ok", "lost"}
            /\ req[c].op \in {"register", "reset", "update"}
            /\ req[c].user = u /\ req[c].password = row[u].password
            /\ \E a \in audit : a.by = c /\ a.user = u

(* Once a password change took effect, acknowledged or not, every session  *)
(* of the account that was active when that change read the account is     *)
(* revoked, whatever logins, changes and resets ran in between.            *)
OlderSessionsRevoked ==
    \A c \in Request : pc[c] \in {"ok", "lost"} /\ req[c].op \in {"reset", "update"} =>
        \A t \in req[c].saw : ~Active(t)

(* The reset token stored on an account has never been consumed, by a      *)
(* reset answered 200 or by one whose acknowledgement was lost: no         *)
(* interleaving of resets and forgot-password requests puts a used token   *)
(* back, so a reset that starts later cannot use it again.                 *)
StoredTokenUnused ==
    \A u, r \in Request : Committed(r, "reset") /\ row[u].reset # None
                              => row[u].reset # req[r].token

(* A revoked session never becomes usable again; it stays revoked until    *)
(* its row goes with the account.                                          *)
RevocationIsFinal ==
    [][\A t \in Request : session[t].revoked /\ session'[t].user # None
            => session'[t].revoked]_vars

(* The tables as AccountContract sees them: an account is its row with its *)
(* profile, a session counts while a refresh with its token succeeds, and  *)
(* the statements of a transaction are nothing until the answer.           *)
Seen(x) == [email |-> x.email, password |-> x.password, setBy |-> x.setBy,
            reset |-> IF x.resetExpired THEN None ELSE x.reset, verified |-> x.verified]
Accounts ==
    [u \in Request |-> IF Live(u) /\ u \in profile THEN Seen(row[u]) ELSE [email |-> None]]

Usable(t) == Active(t) /\ ~session[t].expired
UsableSessions == {[id |-> t, user |-> session[t].user] : t \in {q \in Request : Usable(q)}}

ReplyTo(l, a) ==
    IF a \in Answer
    THEN [op |-> IF l.op = "loginFailed" THEN "login" ELSE l.op,
          about |-> IF l.op \in {"refresh", "logout"} THEN l.token ELSE l.user,
          result |-> IF a = "lost" THEN "error" ELSE a]
    ELSE [op |-> "none"]
Replies == [r \in Request |-> ReplyTo(req[r], pc[r])]

C == INSTANCE AccountContract WITH
        account <- Accounts, sessions <- UsableSessions, trail <- audit, reply <- Replies

(* To its clients every handler is one step: a request is answered once,   *)
(* its writes to the account, the sessions and the audit trail happen with *)
(* its answer or not at all (a 500 leaves open which of the two), and they *)
(* find the account still there, whatever other requests, erasures and     *)
(* failures come between its check and its commit.                         *)
KeepsAccountContract == C!Contract

(* Every request whose transaction began is answered: waiting for row      *)
(* locks, foreign keys and the unique index never goes in a circle.        *)
EveryRequestAnswered ==
    \A r \in Request : pc[r] \in Statement ~> pc[r] \in Answer

(* auth.service.ts:405 of a password change: "Revokes all existing refresh *)
(* tokens (forces re-login everywhere)".  A session that the user did not  *)
(* open with the password in force is then not active.                     *)
ForcesReLogin ==
    \A t \in Request : Active(t) => session[t].proof = row[session[t].user].setBy

(* auth.service.ts:278-282 of a reset: "Atomically: 1. Validates reset     *)
(* token & expiry 2. Updates the password & clears reset token fields".    *)
(* One token then resets a password once.                                  *)
ResetTokenUsedOnce ==
    \A r, q \in Request :
        Acknowledged(r, "reset") /\ Acknowledged(q, "reset") /\ req[r].token = req[q].token => r = q

(* docs/ERROR_CODES.md:28: a registration with an address that already     *)
(* exists is answered 409 Conflict, so the insert of an address that is    *)
(* taken does not make it answer anything else.                            *)
DuplicateIsConflict ==
    [][\A r \in Request :
            pc[r] = "insertUser" /\ Found(req[r].email) # {} /\ pc'[r] # "insertUser"
              => pc'[r] = "conflict"]_vars
=============================================================================
