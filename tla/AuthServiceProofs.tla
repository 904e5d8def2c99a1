-------------------------- MODULE AuthServiceProofs --------------------------
(***************************************************************************)
(* Proofs about AuthService, for every set of requests, addresses and      *)
(* passwords: its types, its safety invariants with the inductive one that *)
(* carries them, how its requests wait for each other, and that it         *)
(* implements AccountContract.                                             *)
(***************************************************************************)
EXTENDS AuthService, TLAPS

-----------------------------------------------------------------------------
(* Type correctness.                                                        *)

LEMMA Types ==
    /\ NoRow \in Row /\ NoSession \in Session /\ NoLocal \in Local
    /\ \A r \in Request, e \in Email, p \in Password : NewRow(r, e, p) \in Row
BY DEF NoRow, Row, NoSession, Session, NoLocal, Local, NewRow, Operation

LEMMA StartType ==
    ASSUME TypeOK, NEW r \in Request, Start(r)
    PROVE  TypeOK'
<1>1. ASSUME NEW l \in Local, NEW s \in {"idle"} \cup Statement \cup Answer, Begin(r, l, s)
      PROVE  TypeOK'
  BY <1>1 DEF TypeOK, Begin, Goto
<1>2. \A u \in Request : ActiveSessions(u) \in SUBSET Request
  BY DEF ActiveSessions
<1>3. ASSUME NEW e \in Email, NEW p \in Password, RegisterCheck(r, e, p) PROVE TypeOK'
  BY <1>1, <1>3 DEF RegisterCheck, NoLocal, Local, Operation, Statement, Answer
<1>4. ASSUME NEW e \in Email, NEW p \in Password, LoginCheck(r, e, p) PROVE TypeOK'
  <2>1. \A u \in Found(e) : u \in Request /\ row[u].setBy \in Request \cup {None}
    BY DEF TypeOK, Row, Found
  <2>. QED  BY <1>1, <1>4, <2>1 DEF LoginCheck, NoLocal, Local, Operation, Statement, Answer
<1>5. ASSUME NEW t \in Request, Refresh(r, t) PROVE TypeOK'
  BY <1>1, <1>5 DEF Refresh, NoLocal, Local, Operation, Statement, Answer
<1>6. ASSUME NEW t \in Request, Logout(r, t) PROVE TypeOK'
  BY <1>1, <1>6 DEF Logout, NoLocal, Local, Operation, Statement, Answer
<1>7. ASSUME NEW e \in Email, ForgotCheck(r, e) PROVE TypeOK'
  BY <1>1, <1>7 DEF ForgotCheck, Found, NoLocal, Local, Operation, Statement, Answer
<1>8. ASSUME NEW e \in Email, NEW k \in Request, NEW p \in Password, ResetCheck(r, e, k, p)
      PROVE  TypeOK'
  BY <1>1, <1>2, <1>8 DEF ResetCheck, Found, NoLocal, Local, Operation, Statement, Answer
<1>9. ASSUME VerifyCheck(r) PROVE TypeOK'
  BY <1>1, <1>9 DEF VerifyCheck, Found, NoLocal, Local, Operation, Statement, Answer
<1>10. ASSUME NEW u \in Request, NEW current \in Password, NEW p \in Password,
              UpdateCheck(r, u, current, p)
       PROVE  TypeOK'
  BY <1>1, <1>2, <1>10 DEF UpdateCheck, NoLocal, Local, Operation, Statement, Answer
<1>11. ASSUME NEW u \in Request, Delete(r, u) PROVE TypeOK'
  <2>1. [NoLocal EXCEPT !.op = "delete", !.user = u] \in Local
    BY DEF NoLocal, Local, Operation
  <2>2. row' \in [Request -> Row] /\ session' \in [Request -> Session] /\ profile' \subseteq Request
    BY <1>11, Types DEF Delete, TypeOK
  <2>3. audit' \subseteq AuditRow
    BY <1>11 DEF Delete, TypeOK, AuditRow
  <2>4. pc' \in [Request -> {"idle"} \cup Statement \cup Answer] /\ req' \in [Request -> Local]
    BY <1>11, <2>1 DEF Delete, TypeOK, Goto, Statement, Answer
  <2>. QED  BY <2>2, <2>3, <2>4 DEF TypeOK
<1>12. ASSUME NEW u \in Request, DeleteFails(r, u) PROVE TypeOK'
  BY <1>1, <1>12 DEF DeleteFails, NoLocal, Local, Operation, Statement, Answer
<1>13. ASSUME ReadFails(r) PROVE TypeOK'
  BY <1>1, <1>13 DEF ReadFails, NoLocal, Local, Operation, Statement, Answer
<1>. QED
  BY <1>3, <1>4, <1>5, <1>6, <1>7, <1>8, <1>9, <1>10, <1>11, <1>12, <1>13 DEF Start

LEMMA RowUpdate ==
    ASSUME NEW f \in [Request -> Row], NEW u, NEW x, u \in Request => x \in Row
    PROVE  [f EXCEPT ![u] = x] \in [Request -> Row]
OBVIOUS

LEMMA AdvanceType ==
    ASSUME TypeOK, NEW r \in Request, Advance(r)
    PROVE  TypeOK'
<1>1. ASSUME NEW s \in Statement, NEW n \in Statement \cup Answer, Execute(r, s, n)
      PROVE  TypeOK'
  BY <1>1 DEF TypeOK, Execute, Goto
<1>2. Failed(r) \in Answer
  BY DEF Failed, Answer
<1>3. CASE InsertUser(r)
  BY <1>1, <1>2, <1>3 DEF InsertUser, Statement
<1>4. CASE InsertProfile(r)
  BY <1>1, <1>4 DEF InsertProfile, Statement
<1>5. CASE InsertSession(r)
  BY <1>1, <1>2, <1>5 DEF InsertSession, Statement
<1>6. CASE UpdateUser(r)
  BY <1>1, <1>6 DEF UpdateUser, Statement
<1>7. CASE RevokeSessions(r)
  BY <1>7 DEF RevokeSessions, TypeOK, Goto, Statement, Local, ActiveSessions
<1>8. CASE InsertAudit(r)
  BY <1>1, <1>2, <1>8 DEF InsertAudit, Statement
<1>9. ASSUME NEW o, NEW a \in Answer, NEW e \in Event, AtCommit(r, o, a), Audited(r, e)
      PROVE  /\ pc' \in [Request -> {"idle"} \cup Statement \cup Answer]
             /\ req' \in [Request -> Local] /\ audit' \subseteq AuditRow
  BY <1>9 DEF AtCommit, Audited, Goto, TypeOK, AuditRow, Local, Answer
<1>10. CASE CommitRegister(r)
  <2>1. req[r].email \in Email \cup {None} /\ req[r].password \in Password \cup {None}
    BY DEF TypeOK, Local
  <2>2. NewRow(r, req[r].email, req[r].password) \in Row
    BY <2>1 DEF NewRow, NoRow, Row
  <2>. QED
    BY <1>9, <1>10, <2>2 DEF CommitRegister, TypeOK, Answer, Event
<1>11. CASE CommitLogin(r)
  <2>1. [NoSession EXCEPT !.user = req[r].user, !.proof = req[r].proof] \in Session
    BY DEF NoSession, Session, TypeOK, Local
  <2>. QED
    BY <1>9, <1>11, <2>1 DEF CommitLogin, TypeOK, Answer, Event
<1>12. CASE CommitLoginFailed(r)
  BY <1>9, <1>12 DEF CommitLoginFailed, TypeOK, Answer, Event
<1>13. CASE CommitForgot(r)
  <2>. DEFINE u == req[r].user
              new == [row[u] EXCEPT !.reset = r, !.resetExpired = FALSE]
  <2>1. ASSUME u \in Request PROVE new \in Row
    <3>1. row[u] \in Row /\ req[r].password \in Password \cup {None}
      BY <2>1 DEF TypeOK, Local
    <3>2. TRUE \in BOOLEAN /\ FALSE \in BOOLEAN /\ r \in Request \cup {None}
          /\ None \in Request \cup {None}
      OBVIOUS
    <3>. QED  BY <3>1, <3>2, Zenon DEF Row
  <2>2. row' = [row EXCEPT ![u] = new]
    BY <1>13 DEF CommitForgot
  <2>3. row' \in [Request -> Row]
    <3>. HIDE DEF new
    <3>. QED  BY <2>1, <2>2, RowUpdate DEF TypeOK
  <2>. QED
    BY <1>9, <1>13, <2>3 DEF CommitForgot, TypeOK, Answer, Event
<1>14. CASE CommitVerify(r)
  <2>. DEFINE u == req[r].user
              new == [row[u] EXCEPT !.verified = TRUE]
  <2>1. ASSUME u \in Request PROVE new \in Row
    <3>1. row[u] \in Row /\ req[r].password \in Password \cup {None}
      BY <2>1 DEF TypeOK, Local
    <3>2. TRUE \in BOOLEAN /\ FALSE \in BOOLEAN /\ r \in Request \cup {None}
          /\ None \in Request \cup {None}
      OBVIOUS
    <3>. QED  BY <3>1, <3>2, Zenon DEF Row
  <2>2. row' = [row EXCEPT ![u] = new]
    BY <1>14 DEF CommitVerify
  <2>3. row' \in [Request -> Row]
    <3>. HIDE DEF new
    <3>. QED  BY <2>1, <2>2, RowUpdate DEF TypeOK
  <2>. QED
    BY <1>9, <1>14, <2>3 DEF CommitVerify, TypeOK, Answer, Event
<1>15. ASSUME NEW m PROVE Revoked(m) \in [Request -> Session]
  BY DEF Revoked, TypeOK, Session
<1>16. CASE CommitReset(r)
  <2>. DEFINE u == req[r].user
              new == [row[u] EXCEPT !.password = req[r].password, !.setBy = r,
                        !.reset = None, !.resetExpired = FALSE]
  <2>1. ASSUME u \in Request PROVE new \in Row
    <3>1. row[u] \in Row /\ req[r].password \in Password \cup {None}
      BY <2>1 DEF TypeOK, Local
    <3>2. TRUE \in BOOLEAN /\ FALSE \in BOOLEAN /\ r \in Request \cup {None}
          /\ None \in Request \cup {None}
      OBVIOUS
    <3>. QED  BY <3>1, <3>2, Zenon DEF Row
  <2>2. row' = [row EXCEPT ![u] = new]
    BY <1>16 DEF CommitReset
  <2>3. row' \in [Request -> Row]
    <3>. HIDE DEF new
    <3>. QED  BY <2>1, <2>2, RowUpdate DEF TypeOK
  <2>. QED
    BY <1>9, <1>15, <1>16, <2>3 DEF CommitReset, TypeOK, Answer, Event
<1>17. CASE CommitUpdate(r)
  <2>. DEFINE u == req[r].user
              new == [row[u] EXCEPT !.password = req[r].password, !.setBy = r]
  <2>1. ASSUME u \in Request PROVE new \in Row
    <3>1. row[u] \in Row /\ req[r].password \in Password \cup {None}
      BY <2>1 DEF TypeOK, Local
    <3>2. TRUE \in BOOLEAN /\ FALSE \in BOOLEAN /\ r \in Request \cup {None}
          /\ None \in Request \cup {None}
      OBVIOUS
    <3>. QED  BY <3>1, <3>2, Zenon DEF Row
  <2>2. row' = [row EXCEPT ![u] = new]
    BY <1>17 DEF CommitUpdate
  <2>3. row' \in [Request -> Row]
    <3>. HIDE DEF new
    <3>. QED  BY <2>1, <2>2, RowUpdate DEF TypeOK
  <2>. QED
    BY <1>9, <1>15, <1>17, <2>3 DEF CommitUpdate, TypeOK, Answer, Event
<1>. QED
  BY <1>3, <1>4, <1>5, <1>6, <1>7, <1>8, <1>10, <1>11, <1>12, <1>13, <1>14, <1>16, <1>17
     DEF Advance

LEMMA NextType == TypeOK /\ [Next]_vars => TypeOK'
<1>. SUFFICES ASSUME TypeOK, [Next]_vars PROVE TypeOK'
  OBVIOUS
<1>1. ASSUME NEW r \in Request, Start(r) PROVE TypeOK'
  BY <1>1, StartType
<1>2. ASSUME NEW r \in Request, Advance(r) PROVE TypeOK'
  BY <1>2, AdvanceType
<1>3. ASSUME NEW r \in Request, Abort(r) PROVE TypeOK'
  BY <1>3 DEF Abort, Execute, Goto, Failed, Answer, TypeOK
<1>4. ASSUME NEW t \in Request, ExpireSession(t) PROVE TypeOK'
  BY <1>4 DEF ExpireSession, TypeOK, Session
<1>5. ASSUME NEW u \in Request, ExpireReset(u) PROVE TypeOK'
  BY <1>5 DEF ExpireReset, TypeOK, Row
<1>6. CASE UNCHANGED vars
  BY <1>6 DEF vars, TypeOK
<1>. QED  BY <1>1, <1>2, <1>3, <1>4, <1>5, <1>6 DEF Next

LEMMA InitType == Init => TypeOK
<1>. SUFFICES ASSUME NEW mail \in [Registered -> Email], NEW secret \in [Registered -> Password],
                     row = [u \in Request |-> IF u \in Registered THEN NewRow(u, mail[u], secret[u])
                                                                  ELSE NoRow],
                     profile = Registered,
                     session = [t \in Request |-> NoSession],
                     audit = {[by |-> u, user |-> u, event |-> "login_success"] : u \in Registered},
                     pc = [r \in Request |-> IF r \in Registered THEN "ok" ELSE "idle"],
                     req = [r \in Request |->
                              IF r \in Registered
                              THEN [NoLocal EXCEPT !.op = "register", !.user = r,
                                                   !.email = mail[r], !.password = secret[r]]
                              ELSE NoLocal]
              PROVE  TypeOK
  BY DEF Init
<1>1. row \in [Request -> Row] /\ session \in [Request -> Session]
  BY Types, RegisteredAreRequests
<1>2. profile \subseteq Request /\ audit \subseteq AuditRow
  <2>1. \A u \in Registered : [by |-> u, user |-> u, event |-> "login_success"] \in AuditRow
    BY RegisteredAreRequests DEF AuditRow, Event
  <2>. QED  BY <2>1, RegisteredAreRequests
<1>3. pc \in [Request -> {"idle"} \cup Statement \cup Answer]
  BY DEF Answer
<1>4. req \in [Request -> Local]
  BY Types, RegisteredAreRequests DEF NoLocal, Local, Operation
<1>. QED  BY <1>1, <1>2, <1>3, <1>4 DEF TypeOK

(* The tables and the requests' locals keep their types, whatever runs.    *)
THEOREM TypeCorrect == Spec => []TypeOK
BY InitType, NextType, PTL DEF Spec

-----------------------------------------------------------------------------
(* What a request holds while its transaction runs: the handler it runs    *)
(* fits its next statement, and its checks left the locals the statements  *)
(* rely on.                                                                *)

Changing == {"reset", "update"}

FitsStatement(r, l, s) ==
    \/ /\ s \in {"insertUser", "insertProfile", "insertAudit", "commit"}
       /\ l.op = "register" /\ l.user = r /\ l.email \in Email /\ l.password \in Password
    \/ s \in {"insertSession", "insertAudit", "commit"} /\ l.op = "login" /\ l.user \in Request
    \/ s \in {"insertAudit", "commit"} /\ l.op = "loginFailed"
    \/ /\ s \in {"updateUser", "insertAudit", "commit"}
       /\ l.op \in {"forgot", "verify"} /\ l.user \in Request
    \/ /\ s \in {"updateUser", "revokeSessions", "insertAudit", "commit"}
       /\ l.op \in Changing /\ l.user \in Request /\ l.password \in Password

LocalsFit == \A r \in Request : pc[r] \in Statement => FitsStatement(r, req[r], pc[r])

(* How a handler leaves its checks: answered, or at its first statement.   *)
FirstStep(r, l, s) ==
    \/ s = "error" /\ l.op \notin {"none", "loginFailed"} /\ l.token = None
    \/ /\ s \in Answer \ {"error", "lost"} /\ l.op \notin {"none", "delete"}
       /\ s = "ok" => l.op \in {"refresh", "logout", "forgot", "verify"}
       /\ l.op = "refresh" => l.token \in Request /\ (s = "ok" <=> Usable(l.token))
       /\ l.op = "forgot" => l.user = None
       /\ l.op = "reset" /\ l.token # None => s = "badRequest"
       /\ s = "ok" /\ l.op = "verify" => /\ l.user \in Request /\ Live(l.user)
                                         /\ row[l.user].verified
    \/ /\ s \in {"insertUser", "insertSession", "insertAudit", "updateUser"}
       /\ FitsStatement(r, l, s)
       /\ s = "insertAudit" => l.op = "loginFailed"
       /\ l.op \in Changing => l.saw = ActiveSessions(l.user)
       /\ l.op = "reset" => /\ l.token \in Request /\ Committed(l.token, "forgot")
                            /\ row[l.user].reset = l.token

LEMMA StartShape ==
    ASSUME TypeOK, NEW r \in Request, Start(r)
    PROVE  \/ \E u \in Request : Delete(r, u)
           \/ Begin(r, req'[r], pc'[r]) /\ FirstStep(r, req'[r], pc'[r])
<1>. DEFINE Goal == Begin(r, req'[r], pc'[r]) /\ FirstStep(r, req'[r], pc'[r])
<1>1. ASSUME NEW l, NEW s, Begin(r, l, s), FirstStep(r, l, s) PROVE Goal
  BY <1>1 DEF Begin, Goto, TypeOK
<1>2. ASSUME NEW e \in Email, NEW p \in Password, RegisterCheck(r, e, p) PROVE Goal
  <2>. DEFINE l == [NoLocal EXCEPT !.op = "register", !.user = r, !.email = e, !.password = p]
  <2>1. FirstStep(r, l, "conflict") /\ FirstStep(r, l, "insertUser")
    BY DEF FirstStep, FitsStatement, Changing, NoLocal, Answer
  <2>. QED  BY <1>1, <1>2, <2>1 DEF RegisterCheck
<1>3. ASSUME NEW e \in Email, NEW p \in Password, LoginCheck(r, e, p) PROVE Goal
  <2>1. ASSUME NEW u \in Found(e)
        PROVE  /\ FirstStep(r, [NoLocal EXCEPT !.op = "login", !.user = u, !.proof = row[u].setBy],
                            "insertSession")
               /\ FirstStep(r, [NoLocal EXCEPT !.op = "loginFailed", !.user = u], "insertAudit")
    BY DEF Found, FirstStep, FitsStatement, Changing, NoLocal
  <2>2. FirstStep(r, [NoLocal EXCEPT !.op = "loginFailed"], "insertAudit")
    BY DEF FirstStep, FitsStatement, Changing, NoLocal
  <2>. QED  BY <1>1, <1>3, <2>1, <2>2 DEF LoginCheck
<1>4. ASSUME NEW t \in Request, Refresh(r, t) PROVE Goal
  <2>. DEFINE l == [NoLocal EXCEPT !.op = "refresh", !.token = t]
  <2>1. IF Usable(t) THEN FirstStep(r, l, "ok") ELSE FirstStep(r, l, "unauthorized")
    BY DEF FirstStep, NoLocal, Answer
  <2>. QED  BY <1>1, <1>4, <2>1 DEF Refresh, Usable
<1>5. ASSUME NEW t \in Request, Logout(r, t) PROVE Goal
  <2>. DEFINE l == [NoLocal EXCEPT !.op = "logout", !.token = t]
  <2>1. FirstStep(r, l, "ok")
    BY DEF FirstStep, NoLocal, Answer
  <2>. QED  BY <1>1, <1>5, <2>1 DEF Logout
<1>6. ASSUME NEW e \in Email, ForgotCheck(r, e) PROVE Goal
  <2>1. ASSUME NEW u \in Found(e)
        PROVE  FirstStep(r, [NoLocal EXCEPT !.op = "forgot", !.user = u], "updateUser")
    BY DEF Found, FirstStep, FitsStatement, Changing, NoLocal
  <2>2. FirstStep(r, [NoLocal EXCEPT !.op = "forgot"], "ok")
    BY DEF FirstStep, NoLocal, Answer
  <2>. QED  BY <1>1, <1>6, <2>1, <2>2 DEF ForgotCheck
<1>7. ASSUME NEW e \in Email, NEW k \in Request, NEW p \in Password, ResetCheck(r, e, k, p)
      PROVE  Goal
  <2>1. FirstStep(r, [NoLocal EXCEPT !.op = "reset"], "notFound")
    BY DEF FirstStep, NoLocal, Answer
  <2>2. ASSUME NEW u \in Found(e)
        PROVE  LET l == [NoLocal EXCEPT !.op = "reset", !.user = u, !.token = k,
                                        !.password = p, !.saw = ActiveSessions(u)]
               IN  /\ FirstStep(r, l, "badRequest")
                   /\ Committed(k, "forgot") /\ row[u].reset = k => FirstStep(r, l, "updateUser")
    BY DEF Found, FirstStep, FitsStatement, Changing, NoLocal, Answer
  <2>3. Committed(k, "forgot")
    BY <1>7 DEF ResetCheck, Acknowledged, Committed
  <2>4. CASE Found(e) = {} /\ Begin(r, [NoLocal EXCEPT !.op = "reset"], "notFound")
    BY <1>1, <2>1, <2>4
  <2>5. ASSUME NEW u \in Found(e),
               Begin(r, [NoLocal EXCEPT !.op = "reset", !.user = u, !.token = k,
                                        !.password = p, !.saw = ActiveSessions(u)],
                     IF row[u].reset = k /\ ~row[u].resetExpired
                     THEN "updateUser" ELSE "badRequest")
        PROVE  Goal
    BY <1>1, <2>2, <2>3, <2>5
  <2>. QED  BY <1>7, <2>4, <2>5 DEF ResetCheck
<1>8. ASSUME VerifyCheck(r) PROVE Goal
  <2>1. ASSUME NEW u \in Found(StubEmail)
        PROVE  LET l == [NoLocal EXCEPT !.op = "verify", !.user = u]
               IN  FirstStep(r, l, "updateUser") /\ (row[u].verified => FirstStep(r, l, "ok"))
    BY StubIsEmail, NoneIsNull DEF Found, Live, FirstStep, FitsStatement, Changing, NoLocal, Answer
  <2>2. FirstStep(r, [NoLocal EXCEPT !.op = "verify"], "notFound")
    BY DEF FirstStep, NoLocal, Answer
  <2>. QED  BY <1>1, <1>8, <2>1, <2>2 DEF VerifyCheck
<1>9. ASSUME NEW u \in Request, NEW current \in Password, NEW p \in Password,
             UpdateCheck(r, u, current, p)
      PROVE  Goal
  <2>. DEFINE l == [NoLocal EXCEPT !.op = "update", !.user = u, !.password = p,
                                   !.saw = ActiveSessions(u)]
  <2>1. /\ FirstStep(r, l, "updateUser") /\ FirstStep(r, l, "unauthorized")
        /\ FirstStep(r, l, "notFound")
    BY DEF FirstStep, FitsStatement, Changing, NoLocal, Answer
  <2>. QED  BY <1>1, <1>9, <2>1 DEF UpdateCheck
<1>10. ASSUME ReadFails(r) \/ \E u \in Request : DeleteFails(r, u)
       PROVE  Goal
  BY <1>1, <1>10 DEF DeleteFails, ReadFails, FirstStep, NoLocal
<1>. QED
  BY <1>2, <1>3, <1>4, <1>5, <1>6, <1>7, <1>8, <1>9, <1>10 DEF Start

-----------------------------------------------------------------------------
(* What every step leaves alone, and that requests stay well formed.       *)

Step(r) == Start(r) \/ Advance(r) \/ Abort(r)

(* The locals that the statements of a transaction do not touch.           *)
SameLocals(l, m) ==
    /\ m.op = l.op /\ m.user = l.user /\ m.email = l.email /\ m.password = l.password
    /\ m.token = l.token /\ m.proof = l.proof /\ m.saw = l.saw

LEMMA Frame ==
    ASSUME TypeOK, NEW r \in Request, Step(r)
    PROVE  /\ \A q \in Request : q # r => pc'[q] = pc[q] /\ req'[q] = req[q]
           /\ \/ pc[r] = "idle" /\ pc'[r] \in Statement \cup Answer
              \/ /\ pc[r] \in Statement /\ pc'[r] \in Statement \cup Answer
                 /\ SameLocals(req[r], req'[r])
<1>1. CASE Start(r)
  <2>1. ASSUME NEW u \in Request, Delete(r, u)
        PROVE  /\ \A q \in Request : q # r => pc'[q] = pc[q] /\ req'[q] = req[q]
               /\ pc[r] = "idle" /\ pc'[r] \in Answer
    BY <2>1 DEF Delete, Goto, TypeOK, Answer
  <2>2. ASSUME Begin(r, req'[r], pc'[r]), FirstStep(r, req'[r], pc'[r])
        PROVE  /\ \A q \in Request : q # r => pc'[q] = pc[q] /\ req'[q] = req[q]
               /\ pc[r] = "idle" /\ pc'[r] \in Statement \cup Answer
    BY <2>2 DEF Begin, FirstStep, Goto, TypeOK, Statement, Answer
  <2>. QED  BY <1>1, <2>1, <2>2, StartShape
<1>2. ASSUME NEW s \in Statement, NEW n \in Statement \cup Answer, Execute(r, s, n)
      PROVE  /\ \A q \in Request : q # r => pc'[q] = pc[q] /\ req'[q] = req[q]
             /\ pc[r] \in Statement /\ pc'[r] \in Statement \cup Answer
             /\ SameLocals(req[r], req'[r])
  BY <1>2 DEF Execute, Goto, TypeOK, SameLocals
<1>3. ASSUME NEW o, NEW a \in Answer, AtCommit(r, o, a)
      PROVE  /\ \A q \in Request : q # r => pc'[q] = pc[q] /\ req'[q] = req[q]
             /\ pc[r] \in Statement /\ pc'[r] \in Statement \cup Answer
             /\ SameLocals(req[r], req'[r])
  BY <1>3 DEF AtCommit, Goto, TypeOK, SameLocals, Statement, Answer
<1>4. Failed(r) \in Answer
  BY DEF Failed, Answer
<1>5. CASE Abort(r)
  <2>1. "error" \in Answer
    BY DEF Answer
  <2>. QED  BY <1>2, <1>4, <1>5, <2>1 DEF Abort
<1>6. CASE RevokeSessions(r)
  <2>1. req'[r] = [req[r] EXCEPT !.marks = ActiveSessions(req[r].user)]
    BY <1>6 DEF RevokeSessions, TypeOK
  <2>2. SameLocals(req[r], req'[r])
    BY <2>1 DEF SameLocals, TypeOK, Local
  <2>. QED  BY <1>6, <2>2 DEF RevokeSessions, Goto, TypeOK, Statement
<1>7. CASE Advance(r) /\ ~RevokeSessions(r)
  <2>1. CASE InsertUser(r)
    BY <1>2, <1>4, <2>1 DEF InsertUser, Statement
  <2>2. CASE InsertProfile(r)
    BY <1>2, <2>2 DEF InsertProfile, Statement
  <2>3. CASE InsertSession(r)
    BY <1>2, <1>4, <2>3 DEF InsertSession, Statement
  <2>4. CASE UpdateUser(r)
    BY <1>2, <2>4 DEF UpdateUser, Statement
  <2>5. CASE InsertAudit(r)
    BY <1>2, <1>4, <2>5 DEF InsertAudit, Statement
  <2>6. CASE \/ CommitRegister(r) \/ CommitLogin(r) \/ CommitLoginFailed(r)
             \/ CommitForgot(r) \/ CommitVerify(r) \/ CommitReset(r) \/ CommitUpdate(r)
    BY <1>3, <2>6 DEF CommitRegister, CommitLogin, CommitLoginFailed, CommitForgot, CommitVerify,
                      CommitReset, CommitUpdate, Answer
  <2>. QED  BY <1>7, <2>1, <2>2, <2>3, <2>4, <2>5, <2>6 DEF Advance
<1>. QED  BY <1>1, <1>5, <1>6, <1>7 DEF Step

(* The steps of Next that are not a request's.                             *)
LEMMA NextCases ==
    ASSUME [Next]_vars
    PROVE  \/ \E r \in Request : Step(r)
           \/ \E t \in Request : ExpireSession(t)
           \/ \E u \in Request : ExpireReset(u)
           \/ UNCHANGED vars
BY DEF Next, Step

(* An answer is final.                                                     *)
LEMMA AnswerFinal ==
    ASSUME TypeOK, [Next]_vars, NEW q \in Request, pc[q] \in Answer
    PROVE  pc'[q] = pc[q] /\ req'[q] = req[q]
<1>1. "idle" \notin Answer /\ \A s \in Statement : s \notin Answer
  BY DEF Answer, Statement
<1>2. ASSUME NEW r \in Request, Step(r) PROVE pc'[q] = pc[q] /\ req'[q] = req[q]
  BY <1>1, <1>2, Frame
<1>3. CASE \/ \E t \in Request : ExpireSession(t)
           \/ \E u \in Request : ExpireReset(u)
           \/ UNCHANGED vars
  BY <1>3 DEF ExpireSession, ExpireReset, vars
<1>. QED  BY <1>2, <1>3, NextCases

LEMMA LocalsFitInductive ==
    ASSUME TypeOK, LocalsFit, [Next]_vars
    PROVE  LocalsFit'
<1>1. ASSUME NEW r \in Request, Step(r) PROVE LocalsFit'
  <2>. SUFFICES ASSUME pc'[r] \in Statement PROVE FitsStatement(r, req'[r], pc'[r])
    BY <1>1, Frame DEF LocalsFit
  <2>1. "error" \notin Statement /\ \A s \in Statement : s \notin Answer
    BY DEF Answer, Statement
  <2>2. CASE Start(r)
    <3>1. ~ \E u \in Request : Delete(r, u)
      BY <2>1 DEF Delete, Goto, TypeOK, Answer
    <3>. QED  BY <2>1, <2>2, <3>1, StartShape DEF FirstStep
  <2>3. CASE Abort(r)
    BY <2>1, <2>3 DEF Abort, Execute, Goto, TypeOK, Failed, Answer
  <2>4. CASE Advance(r)
    <3>1. pc[r] \in Statement => FitsStatement(r, req[r], pc[r])
      BY DEF LocalsFit
    <3>2. CASE InsertUser(r)
      BY <3>1, <3>2 DEF InsertUser, Execute, Goto, TypeOK, FitsStatement, Statement, Changing, Failed
    <3>3. CASE InsertProfile(r)
      BY <3>1, <3>3 DEF InsertProfile, Execute, Goto, TypeOK, FitsStatement, Statement, Changing
    <3>4. CASE InsertSession(r)
      BY <3>1, <3>4 DEF InsertSession, Execute, Goto, TypeOK, FitsStatement, Statement, Changing, Failed
    <3>5. CASE UpdateUser(r)
      BY <3>1, <3>5 DEF UpdateUser, Execute, Goto, TypeOK, FitsStatement, Statement, Changing
    <3>6. CASE RevokeSessions(r)
      <4>1. pc[r] = "revokeSessions" /\ pc'[r] = "insertAudit" /\ pc[r] # "idle"
        BY <3>6 DEF RevokeSessions, Goto, TypeOK
      <4>2. SameLocals(req[r], req'[r])
        BY <1>1, <4>1, Frame
      <4>. QED  BY <3>1, <4>1, <4>2 DEF FitsStatement, SameLocals, Statement
    <3>7. CASE InsertAudit(r)
      BY <3>1, <3>7 DEF InsertAudit, Execute, Goto, TypeOK, FitsStatement, Statement, Changing, Failed
    <3>8. CASE \/ CommitRegister(r) \/ CommitLogin(r) \/ CommitLoginFailed(r)
               \/ CommitForgot(r) \/ CommitVerify(r) \/ CommitReset(r) \/ CommitUpdate(r)
      BY <2>1, <3>8 DEF CommitRegister, CommitLogin, CommitLoginFailed, CommitForgot, CommitVerify,
                        CommitReset, CommitUpdate, AtCommit, Goto, TypeOK, Answer
    <3>. QED  BY <2>4, <3>2, <3>3, <3>4, <3>5, <3>6, <3>7, <3>8 DEF Advance
  <2>. QED  BY <1>1, <2>2, <2>3, <2>4 DEF Step
<1>2. CASE \/ \E t \in Request : ExpireSession(t)
           \/ \E u \in Request : ExpireReset(u)
           \/ UNCHANGED vars
  BY <1>2 DEF ExpireSession, ExpireReset, vars, LocalsFit
<1>. QED  BY <1>1, <1>2, NextCases

-----------------------------------------------------------------------------
(* A step that commits nothing leaves the tables alone, and where it goes  *)
(* tells which statement it ran.                                           *)
Uncommitted(r) ==
    /\ UNCHANGED <<row, profile, session, audit>>
    /\ pc'[r] # "lost"
    /\ pc'[r] = "ok" => pc[r] = "idle" /\ req'[r].op \in {"refresh", "logout", "forgot", "verify"}
    /\ pc'[r] = "insertProfile" => InsertUser(r)
    /\ pc'[r] = "revokeSessions" => UpdateUser(r)
    /\ pc'[r] = "insertAudit" => \/ InsertProfile(r) \/ InsertSession(r) \/ RevokeSessions(r)
                                 \/ UpdateUser(r) /\ req[r].op \notin Changing
                                 \/ pc[r] = "idle" /\ req'[r].op = "loginFailed"
    /\ pc'[r] = "commit" => InsertAudit(r)

Commits(r) ==
    \/ CommitRegister(r) \/ CommitLogin(r) \/ CommitLoginFailed(r)
    \/ CommitForgot(r) \/ CommitVerify(r) \/ CommitReset(r) \/ CommitUpdate(r)

LEMMA StepCases ==
    ASSUME TypeOK, NEW r \in Request, Step(r)
    PROVE  (\E u \in Request : Delete(r, u)) \/ Commits(r) \/ Uncommitted(r)
<1>1. CASE Start(r)
  <2>1. ASSUME Begin(r, req'[r], pc'[r]), FirstStep(r, req'[r], pc'[r])
        PROVE  Uncommitted(r)
    BY <2>1 DEF Begin, FirstStep, Uncommitted, Answer
  <2>. QED  BY <1>1, <2>1, StartShape
<1>2. CASE Abort(r)
  BY <1>2 DEF Abort, Execute, Goto, TypeOK, Failed, Uncommitted
<1>3. CASE InsertUser(r)
  BY <1>3 DEF InsertUser, Execute, Goto, TypeOK, Failed, Uncommitted
<1>4. CASE InsertProfile(r)
  <2>1. UNCHANGED <<row, profile, session, audit>> /\ pc'[r] = "insertAudit"
    BY <1>4 DEF InsertProfile, Execute, Goto, TypeOK
  <2>. QED  BY <1>4, <2>1 DEF Uncommitted
<1>5. CASE InsertSession(r)
  <2>1. UNCHANGED <<row, profile, session, audit>> /\ pc'[r] \in {"insertAudit", Failed(r)}
    BY <1>5 DEF InsertSession, Execute, Goto, TypeOK
  <2>. QED  BY <1>5, <2>1 DEF Uncommitted, Failed
<1>6. CASE UpdateUser(r)
  <2>1. /\ UNCHANGED <<row, profile, session, audit>>
        /\ pc'[r] = IF req[r].op \in Changing THEN "revokeSessions" ELSE "insertAudit"
    BY <1>6 DEF UpdateUser, Execute, Goto, TypeOK, Changing
  <2>. QED  BY <1>6, <2>1 DEF Uncommitted
<1>7. CASE RevokeSessions(r)
  <2>1. UNCHANGED <<row, profile, session, audit>> /\ pc'[r] = "insertAudit"
    BY <1>7 DEF RevokeSessions, Goto, TypeOK
  <2>. QED  BY <1>7, <2>1 DEF Uncommitted
<1>8. CASE InsertAudit(r)
  <2>1. UNCHANGED <<row, profile, session, audit>> /\ pc'[r] \in {"commit", Failed(r)}
    BY <1>8 DEF InsertAudit, Execute, Goto, TypeOK
  <2>. QED  BY <1>8, <2>1 DEF Uncommitted, Failed
<1>. QED
  BY <1>1, <1>2, <1>3, <1>4, <1>5, <1>6, <1>7, <1>8 DEF Step, Advance, Commits

(* What the commits do to the rows of users.                               *)
LEMMA RowEffect ==
    ASSUME TypeOK, LocalsFit, NEW r \in Request, Commits(r)
    PROVE  /\ ~CommitRegister(r) => \A u \in Request : row'[u].email = row[u].email
           /\ CommitRegister(r) => /\ row'[r] = NewRow(r, req[r].email, req[r].password)
                                   /\ row'[r].email = req[r].email
                                   /\ req[r].email \in Email /\ req[r].user = r
           /\ \A u \in Request : u # req[r].user => row'[u] = row[u]
           /\ pc[r] = "commit" /\ pc'[r] \in {"ok", "lost", "unauthorized"}
           /\ IF req[r].op = "loginFailed" THEN pc'[r] \in {"unauthorized", "lost"}
              ELSE pc'[r] \in {"ok", "lost"}
           /\ UNCHANGED req
<1>1. CASE CommitRegister(r)
  <2>1. req[r].op = "register" /\ pc[r] = "commit" /\ pc'[r] \in {"ok", "lost"} /\ UNCHANGED req
    BY <1>1 DEF CommitRegister, AtCommit, Goto, TypeOK
  <2>2. req[r].email \in Email /\ req[r].user = r
    BY <2>1 DEF LocalsFit, FitsStatement, Statement, Changing
  <2>3. /\ row'[r] = NewRow(r, req[r].email, req[r].password)
        /\ \A u \in Request : u # r => row'[u] = row[u]
    BY <1>1 DEF CommitRegister, TypeOK
  <2>. QED  BY <1>1, <2>1, <2>2, <2>3 DEF NewRow, NoRow
<1>2. CASE CommitLogin(r) \/ CommitLoginFailed(r)
  BY <1>2 DEF CommitLogin, CommitLoginFailed, AtCommit, Goto, CommitRegister, TypeOK
<1>3. CASE CommitForgot(r) \/ CommitVerify(r) \/ CommitReset(r) \/ CommitUpdate(r)
  <2>1. /\ ~CommitRegister(r) /\ pc[r] = "commit" /\ pc'[r] \in {"ok", "lost"} /\ req[r].op # "loginFailed"
        /\ UNCHANGED req
    BY <1>3 DEF CommitForgot, CommitVerify, CommitReset, CommitUpdate, AtCommit, CommitRegister,
                Goto, TypeOK
  <2>2. \A u \in Request : u # req[r].user => row'[u] = row[u]
    BY <1>3 DEF CommitForgot, CommitVerify, CommitReset, CommitUpdate, TypeOK
  <2>3. ASSUME NEW u \in Request, u = req[r].user PROVE row'[u].email = row[u].email
    <3>1. row[u] \in Row
      BY DEF TypeOK
    <3>2. CASE CommitForgot(r)
      BY <2>3, <3>1, <3>2 DEF CommitForgot, TypeOK, Row
    <3>3. CASE CommitVerify(r)
      BY <2>3, <3>1, <3>3 DEF CommitVerify, TypeOK, Row
    <3>4. CASE CommitReset(r)
      BY <2>3, <3>1, <3>4 DEF CommitReset, TypeOK, Row
    <3>5. CASE CommitUpdate(r)
      BY <2>3, <3>1, <3>5 DEF CommitUpdate, TypeOK, Row
    <3>. QED  BY <1>3, <3>2, <3>3, <3>4, <3>5
  <2>. QED  BY <2>1, <2>2, <2>3
<1>. QED  BY <1>1, <1>2, <1>3 DEF Commits

-----------------------------------------------------------------------------
(* Foreign keys.  A transaction that reached its commit with a user in     *)
(* hand has its row: the audit row it inserted shares the row's key, and   *)
(* an erasure waits for it.                                                *)
CommitsLive ==
    \A r \in Request : pc[r] = "commit" /\ req[r].op # "register" /\ req[r].user # None
                          => Live(req[r].user)

LEMMA ReferencesInductive ==
    ASSUME TypeOK, LocalsFit, ReferencesLive, CommitsLive, [Next]_vars
    PROVE  ReferencesLive' /\ CommitsLive'
<1>0. None \notin Email /\ None \notin Request
  BY NoneIsNull
<1>1. ASSUME NEW r \in Request, NEW u \in Request, Delete(r, u)
      PROVE  ReferencesLive' /\ CommitsLive'
  <2>1. \A v \in Request : row'[v].email # None <=> Live(v) /\ v # u
    BY <1>1 DEF Delete, Live, NoRow, TypeOK
  <2>2. profile' = {v \in Request : row'[v].email # None}
    BY <1>1, <2>1 DEF Delete, ReferencesLive
  <2>3. \A t \in Request : session'[t].user # None => row'[session'[t].user].email # None
    <3>. SUFFICES ASSUME NEW t \in Request, session'[t].user # None PROVE row'[session'[t].user].email # None
      OBVIOUS
    <3>1. session[t].user # u /\ session'[t] = session[t]
      BY <1>1 DEF Delete, NoSession
    <3>2. session[t].user \in Request
      BY <3>1 DEF TypeOK, Session
    <3>. QED  BY <2>1, <3>1, <3>2 DEF ReferencesLive
  <2>4. \A a \in audit' : a.user # None => row'[a.user].email # None
    <3>. SUFFICES ASSUME NEW a \in audit, NEW b, b = IF a.user = u THEN [a EXCEPT !.user = None] ELSE a,
                         b.user # None
                  PROVE  row'[b.user].email # None
      BY <1>1 DEF Delete
    <3>1. a.user # u /\ b = a
      BY DEF TypeOK, AuditRow
    <3>. QED  BY <2>1, <3>1 DEF ReferencesLive, TypeOK, AuditRow
  <2>5. CommitsLive'
    <3>. SUFFICES ASSUME NEW q \in Request, pc'[q] = "commit", req'[q].op # "register",
                         req'[q].user # None
                  PROVE  row'[req'[q].user].email # None
      BY DEF CommitsLive, Live
    <3>1. q # r
      BY <1>1 DEF Delete, Goto, TypeOK
    <3>2. pc[q] = "commit" /\ req'[q] = req[q]
      BY <1>1, <3>1 DEF Delete, Goto, TypeOK
    <3>3. req[q].user # u /\ req[q].user \in Request
      BY <1>1, <3>2 DEF Delete, KeyShared, TypeOK, Local
    <3>. QED  BY <2>1, <3>2, <3>3 DEF CommitsLive
  <2>. QED  BY <2>2, <2>3, <2>4, <2>5 DEF ReferencesLive, Live
<1>2. ASSUME NEW r \in Request, Step(r), Uncommitted(r)
      PROVE  ReferencesLive' /\ CommitsLive'
  <2>1. ReferencesLive' /\ \A u \in Request : row'[u].email # None <=> Live(u)
    BY <1>2 DEF Uncommitted, ReferencesLive, Live
  <2>2. CommitsLive'
    <3>. SUFFICES ASSUME NEW q \in Request, pc'[q] = "commit", req'[q].op # "register",
                         req'[q].user # None
                  PROVE  row'[req'[q].user].email # None
      BY DEF CommitsLive, Live
    <3>1. CASE q # r
      BY <1>2, <2>1, <3>1, Frame DEF CommitsLive, TypeOK, Local
    <3>2. CASE q = r
      BY <1>2, <2>1, <3>2 DEF Uncommitted, InsertAudit, Execute, Goto, TypeOK, Local, Failed
    <3>. QED  BY <3>1, <3>2
  <2>. QED  BY <2>1, <2>2
<1>3. ASSUME NEW r \in Request, Step(r), Commits(r)
      PROVE  ReferencesLive' /\ CommitsLive'
  <2>1. \A u \in Request : row'[u].email # None <=> Live(u) \/ (CommitRegister(r) /\ u = r)
    BY <1>0, <1>3, RowEffect DEF Live
  <2>2. profile' = {v \in Request : row'[v].email # None}
    <3>1. profile' = IF CommitRegister(r) THEN profile \cup {r} ELSE profile
      BY <1>3 DEF Commits, CommitRegister, CommitLogin, CommitLoginFailed, CommitForgot, CommitVerify,
                  CommitReset, CommitUpdate
    <3>. QED  BY <2>1, <3>1 DEF ReferencesLive
  <2>3. req[r].user # None => row'[req[r].user].email # None
    <3>1. req[r].user \in Request \cup {None}
      BY DEF TypeOK, Local
    <3>2. CASE CommitRegister(r)
      BY <1>3, <2>1, <3>2, RowEffect
    <3>3. CASE ~CommitRegister(r)
      <4>1. req[r].op # "register" /\ pc[r] = "commit"
        BY <1>3, <3>3 DEF Commits, CommitLogin, CommitLoginFailed, CommitForgot, CommitVerify,
                          CommitReset, CommitUpdate, AtCommit
      <4>. QED  BY <2>1, <3>1, <4>1 DEF CommitsLive
    <3>. QED  BY <3>2, <3>3
  <2>4. \A t \in Request : session'[t].user # None => row'[session'[t].user].email # None
    <3>. SUFFICES ASSUME NEW t \in Request, session'[t].user # None PROVE row'[session'[t].user].email # None
      OBVIOUS
    <3>1. session'[t].user = session[t].user \/ session'[t].user = req[r].user
      <4>1. CASE CommitLogin(r)
        BY <4>1 DEF CommitLogin, TypeOK, NoSession
      <4>2. CASE CommitReset(r) \/ CommitUpdate(r)
        BY <4>2 DEF CommitReset, CommitUpdate, Revoked, TypeOK, Session
      <4>3. CASE CommitRegister(r) \/ CommitLoginFailed(r) \/ CommitForgot(r) \/ CommitVerify(r)
        BY <4>3 DEF CommitRegister, CommitLoginFailed, CommitForgot, CommitVerify
      <4>. QED  BY <1>3, <4>1, <4>2, <4>3 DEF Commits
    <3>2. session[t].user # None => row'[session[t].user].email # None
      BY <2>1 DEF ReferencesLive, TypeOK, Session
    <3>. QED  BY <2>3, <3>1, <3>2
  <2>5. \A a \in audit' : a.user # None => row'[a.user].email # None
    <3>1. \A a \in audit' : a \in audit \/ a.user = req[r].user
      BY <1>3 DEF Commits, CommitRegister, CommitLogin, CommitLoginFailed, CommitForgot, CommitVerify,
                  CommitReset, CommitUpdate, Audited
    <3>. QED  BY <2>1, <2>3, <3>1 DEF ReferencesLive, TypeOK, AuditRow
  <2>6. CommitsLive'
    <3>1. \A q \in Request : pc'[q] = "commit" => q # r /\ pc[q] = "commit" /\ req'[q] = req[q]
      BY <1>3, Frame, RowEffect
    <3>. QED  BY <2>1, <3>1 DEF CommitsLive, Live, TypeOK, Local
  <2>. QED  BY <2>2, <2>4, <2>5, <2>6 DEF ReferencesLive, Live
<1>4. ASSUME NEW t \in Request, ExpireSession(t) PROVE ReferencesLive' /\ CommitsLive'
  <2>1. \A s \in Request : session'[s].user = session[s].user
    BY <1>4 DEF ExpireSession, TypeOK, Session
  <2>. QED  BY <1>4, <2>1 DEF ExpireSession, ReferencesLive, CommitsLive, Live
<1>5. ASSUME NEW u \in Request, ExpireReset(u) PROVE ReferencesLive' /\ CommitsLive'
  <2>1. \A v \in Request : row'[v].email = row[v].email
    BY <1>5 DEF ExpireReset, TypeOK, Row
  <2>. QED
    BY <1>5, <2>1 DEF ExpireReset, ReferencesLive, CommitsLive, Live, TypeOK, Session, AuditRow, Local
<1>6. CASE UNCHANGED vars
  BY <1>6 DEF vars, ReferencesLive, CommitsLive, Live
<1>. QED  BY <1>1, <1>2, <1>3, <1>4, <1>5, <1>6, NextCases, StepCases

-----------------------------------------------------------------------------
(* One account per address.  A registration past its insert holds the      *)
(* index entry of its address: no row carries that address, and no other   *)
(* registration holds it.                                                  *)
Holds(r) == req[r].op = "register" /\ pc[r] \in {"insertProfile", "insertAudit", "commit"}

IndexExclusive ==
    /\ \A r, u \in Request : Holds(r) => row[u].email # req[r].email
    /\ \A r, q \in Request : Holds(r) /\ Holds(q) /\ req[r].email = req[q].email => r = q

LEMMA UniqueEmailInductive ==
    ASSUME TypeOK, LocalsFit, UniqueEmail, IndexExclusive, [Next]_vars
    PROVE  UniqueEmail' /\ IndexExclusive'
<1>0. None \notin Email
  BY NoneIsNull
<1>1. ASSUME NEW r \in Request, Step(r), pc'[r] \notin {"insertProfile", "insertAudit", "commit"}
      PROVE  \A q \in Request : Holds(q)' => q # r /\ Holds(q) /\ req'[q] = req[q]
  BY <1>1, Frame DEF Holds
<1>2. ASSUME NEW r \in Request, NEW u \in Request, Delete(r, u)
      PROVE  UniqueEmail' /\ IndexExclusive'
  <2>1. \A v \in Request : row'[v].email = IF v = u THEN None ELSE row[v].email
    BY <1>2 DEF Delete, NoRow, TypeOK
  <2>2. \A q \in Request : Holds(q)' => Holds(q) /\ req'[q] = req[q]
    <3>1. Step(r) /\ pc'[r] \in {"ok", "notFound", "lost"}
      BY <1>2 DEF Delete, Step, Start, Goto, TypeOK
    <3>. QED  BY <1>1, <3>1
  <2>3. \A q \in Request : Holds(q) => req[q].email # None
    BY <1>0 DEF Holds, LocalsFit, FitsStatement, Statement, Changing
  <2>. QED  BY <2>1, <2>2, <2>3 DEF UniqueEmail, IndexExclusive, Live
<1>3. ASSUME NEW r \in Request, Step(r), Uncommitted(r)
      PROVE  UniqueEmail' /\ IndexExclusive'
  <2>1. UniqueEmail'
    BY <1>3 DEF Uncommitted, UniqueEmail, Live
  <2>2. row' = row
    BY <1>3 DEF Uncommitted
  <2>3. CASE InsertUser(r) /\ pc'[r] = "insertProfile" /\ req[r].op = "register"
    <3>1. /\ pc[r] = "insertUser" /\ req' = req
          /\ Found(req[r].email) = {} /\ ~IndexHeld(req[r].email)
      BY <2>3 DEF InsertUser, Execute, Goto, TypeOK, Failed
    <3>2. \A u \in Request : row[u].email # req[r].email
      BY <3>1 DEF Found
    <3>3. \A q \in Request : Holds(q) => req[q].email # req[r].email
      BY <3>1 DEF IndexHeld, Holds
    <3>4. \A q \in Request : Holds(q)' => q = r \/ Holds(q)
      BY <1>3, Frame DEF Holds
    <3>. QED  BY <2>1, <2>2, <3>1, <3>2, <3>3, <3>4 DEF IndexExclusive
  <2>4. ASSUME ~(InsertUser(r) /\ pc'[r] = "insertProfile" /\ req[r].op = "register"), Holds(r)'
        PROVE  Holds(r) /\ req'[r].email = req[r].email
    <3>1. req'[r].op = "register" /\ pc'[r] \in {"insertProfile", "insertAudit", "commit"}
      BY <2>4 DEF Holds
    <3>2. CASE pc[r] = "idle"
      BY <1>3, <3>1, <3>2
         DEF Uncommitted, InsertUser, InsertProfile, InsertSession, RevokeSessions, UpdateUser,
             InsertAudit, Execute
    <3>3. CASE pc[r] \in Statement /\ SameLocals(req[r], req'[r])
      <4>1. FitsStatement(r, req[r], pc[r]) /\ req[r].op = "register"
        BY <3>1, <3>3 DEF LocalsFit, SameLocals
      <4>2. pc[r] \in {"insertProfile", "insertAudit"}
        BY <1>3, <2>4, <3>1, <3>3, <4>1
           DEF Uncommitted, InsertUser, InsertProfile, InsertSession, RevokeSessions, UpdateUser,
               InsertAudit, Execute, FitsStatement, Changing, SameLocals, Statement
      <4>. QED  BY <3>3, <4>1, <4>2 DEF Holds, SameLocals
    <3>. QED  BY <1>3, <3>2, <3>3, Frame
  <2>5. CASE ~(InsertUser(r) /\ pc'[r] = "insertProfile" /\ req[r].op = "register")
    <3>1. \A q \in Request : Holds(q)' => Holds(q) /\ req'[q].email = req[q].email
      BY <1>3, <2>4, <2>5, Frame DEF Holds
    <3>. QED  BY <2>1, <2>2, <3>1 DEF IndexExclusive
  <2>. QED  BY <2>1, <2>3, <2>5
<1>4. ASSUME NEW r \in Request, Step(r), Commits(r)
      PROVE  UniqueEmail' /\ IndexExclusive'
  <2>1. \A q \in Request : Holds(q)' => q # r /\ Holds(q) /\ req'[q] = req[q]
    BY <1>1, <1>4, RowEffect
  <2>2. CASE ~CommitRegister(r)
    <3>1. \A u \in Request : row'[u].email = row[u].email
      BY <1>4, <2>2, RowEffect
    <3>2. UniqueEmail'
      BY <3>1 DEF UniqueEmail, Live
    <3>3. IndexExclusive'
      BY <2>1, <3>1, Zenon DEF IndexExclusive
    <3>. QED  BY <3>2, <3>3
  <2>3. CASE CommitRegister(r)
    <3>1. /\ row'[r].email = req[r].email /\ req[r].email \in Email
          /\ \A u \in Request : u # r => row'[u] = row[u]
      BY <1>4, <2>3, RowEffect
    <3>2. Holds(r)
      BY <2>3 DEF CommitRegister, AtCommit, Holds
    <3>. QED  BY <2>1, <3>1, <3>2 DEF UniqueEmail, IndexExclusive, Live
  <2>. QED  BY <2>2, <2>3
<1>5. CASE \/ \E t \in Request : ExpireSession(t)
           \/ \E u \in Request : ExpireReset(u)
           \/ UNCHANGED vars
  <2>1. /\ \A v \in Request : row'[v].email = row[v].email
        /\ pc' = pc /\ req' = req
    BY <1>5 DEF ExpireSession, ExpireReset, vars, TypeOK, Row
  <2>. QED  BY <2>1 DEF UniqueEmail, IndexExclusive, Live, Holds
<1>. QED  BY <1>2, <1>3, <1>4, <1>5, NextCases, StepCases

-----------------------------------------------------------------------------
(* Reset tokens.  A stored token, the token of a running reset and the     *)
(* token of a finished one were drawn by an answered forgot-password       *)
(* request of the same account.                                            *)
TokenOf(k, u) == k \in Request /\ Committed(k, "forgot") /\ req[k].user = u

TokensGenuine ==
    /\ \A u \in Request : row[u].reset # None => TokenOf(row[u].reset, u)
    /\ \A r \in Request : req[r].op = "reset" /\ (pc[r] \in Statement \/ pc[r] \in {"ok", "lost"})
                              => TokenOf(req[r].token, req[r].user)

LEMMA TokenOfStable ==
    ASSUME TypeOK, [Next]_vars, NEW k, NEW u, TokenOf(k, u)
    PROVE  k \in Request /\ pc'[k] \in {"ok", "lost"} /\ req'[k].op = "forgot" /\ req'[k].user = u
<1>1. k \in Request /\ pc[k] \in Answer /\ pc[k] \in {"ok", "lost"} /\ req[k].op = "forgot" /\ req[k].user = u
  BY DEF TokenOf, Committed, Answer
<1>. QED  BY <1>1, AnswerFinal

(* What a commit stores as reset token.                                    *)
LEMMA ResetEffect ==
    ASSUME TypeOK, LocalsFit, NEW r \in Request, Commits(r), NEW u \in Request
    PROVE  \/ row'[u].reset = None
           \/ row'[u].reset = row[u].reset /\ ~(CommitReset(r) /\ u = req[r].user)
           \/ CommitForgot(r) /\ u = req[r].user /\ row'[u].reset = r
<1>1. row[u] \in Row
  BY DEF TypeOK
<1>2. CASE u # req[r].user
  BY <1>2, RowEffect
<1>3. CASE u = req[r].user /\ CommitRegister(r)
  <2>1. u = r /\ row'[r] = NewRow(r, req[r].email, req[r].password)
    BY <1>3, RowEffect
  <2>2. NewRow(r, req[r].email, req[r].password).reset = None
    BY DEF NewRow, NoRow
  <2>. QED  BY <2>1, <2>2
<1>4. CASE CommitLogin(r) \/ CommitLoginFailed(r)
  BY <1>4 DEF CommitLogin, CommitLoginFailed, AtCommit, CommitReset
<1>5. CASE u = req[r].user /\ CommitForgot(r)
  <2>1. row'[u] = [row[u] EXCEPT !.reset = r, !.resetExpired = FALSE]
    BY <1>5 DEF CommitForgot, TypeOK
  <2>. QED  BY <1>1, <1>5, <2>1 DEF Row
<1>6. CASE u = req[r].user /\ CommitVerify(r)
  BY <1>1, <1>6 DEF CommitVerify, TypeOK, Row, AtCommit, CommitReset
<1>7. CASE u = req[r].user /\ CommitReset(r)
  BY <1>1, <1>7 DEF CommitReset, TypeOK, Row
<1>8. CASE u = req[r].user /\ CommitUpdate(r)
  BY <1>1, <1>8 DEF CommitUpdate, TypeOK, Row, AtCommit, CommitReset
<1>. QED  BY <1>2, <1>3, <1>4, <1>5, <1>6, <1>7, <1>8 DEF Commits

LEMMA TokensInductive ==
    ASSUME TypeOK, LocalsFit, TokensGenuine, StoredTokenUnused, [Next]_vars
    PROVE  TokensGenuine' /\ StoredTokenUnused'
<1>0. None \notin Request /\ \A s \in Statement : s \notin Answer /\ s # "idle" /\ s \notin {"ok", "lost", "error"}
  BY NoneIsNull DEF Statement, Answer
<1>. DEFINE Kept(r) == req[r].op = "reset" /\ (pc[r] \in Statement \/ pc[r] \in {"ok", "lost"})
<1>1. ASSUME NEW r \in Request, TokenOf(req[r].token, req[r].user), req'[r].op = "reset",
             req'[r].token = req[r].token, req'[r].user = req[r].user
      PROVE  TokenOf(req[r].token, req[r].user)'
  BY <1>1, TokenOfStable DEF TokenOf, Committed
<1>2. ASSUME NEW u \in Request, row[u].reset # None, row'[u].reset = row[u].reset
      PROVE  TokenOf(row[u].reset, u)'
  BY <1>2, TokenOfStable DEF TokenOf, Committed, TokensGenuine
<1>3. ASSUME NEW q \in Request, Kept(q), pc'[q] = pc[q], req'[q] = req[q]
      PROVE  TokenOf(req[q].token, req[q].user)'
  BY <1>1, <1>3 DEF TokensGenuine
<1>4. ASSUME NEW r \in Request, NEW u \in Request, Delete(r, u)
      PROVE  TokensGenuine' /\ StoredTokenUnused'
  <2>1. \A v \in Request : row'[v].reset = IF v = u THEN None ELSE row[v].reset
    BY <1>4 DEF Delete, NoRow, TypeOK
  <2>2. \A q \in Request : Kept(q)' => Kept(q) /\ pc'[q] = pc[q] /\ req'[q] = req[q]
    BY <1>4 DEF Delete, Goto, TypeOK, NoLocal
  <2>3. TokensGenuine'
    BY <1>2, <1>3, <2>1, <2>2 DEF TokensGenuine
  <2>4. StoredTokenUnused'
    BY <2>1, <2>2, <1>0 DEF StoredTokenUnused, Committed
  <2>. QED  BY <2>3, <2>4
<1>5. ASSUME NEW r \in Request, Step(r), Uncommitted(r)
      PROVE  TokensGenuine' /\ StoredTokenUnused'
  <2>1. row' = row
    BY <1>5 DEF Uncommitted
  <2>2. \A q \in Request : Committed(q, "reset")' => q # r /\ Committed(q, "reset") /\ req'[q] = req[q]
    BY <1>5, Frame DEF Committed, Uncommitted
  <2>3. StoredTokenUnused'
    BY <2>1, <2>2 DEF StoredTokenUnused
  <2>4. ASSUME Kept(r)' PROVE TokenOf(req[r].token, req[r].user)'
    <3>1. pc'[r] \in Statement /\ req'[r].op = "reset"
      BY <1>5, <2>4 DEF Uncommitted
    <3>2. CASE pc[r] = "idle"
      <4>1. Start(r) /\ Begin(r, req'[r], pc'[r]) /\ FirstStep(r, req'[r], pc'[r])
        <5>1. Start(r)
          BY <1>0, <1>5, <3>1, <3>2
             DEF Step, Advance, Abort, Execute, AtCommit, InsertUser, InsertProfile, InsertSession,
                 UpdateUser, RevokeSessions, InsertAudit, CommitRegister, CommitLogin,
                 CommitLoginFailed, CommitForgot, CommitVerify, CommitReset, CommitUpdate
        <5>2. \A v \in Request : ~Delete(r, v)
          BY <1>0, <3>1 DEF Delete, Goto, TypeOK, Answer
        <5>. QED  BY <5>1, <5>2, StartShape
      <4>2. /\ req'[r].token \in Request /\ req'[r].user \in Request
            /\ row[req'[r].user].reset = req'[r].token
        BY <1>0, <3>1, <4>1 DEF FirstStep, FitsStatement, Changing
      <4>3. TokenOf(req'[r].token, req'[r].user)
        BY <1>0, <4>2 DEF TokensGenuine
      <4>4. req'[r].token # r
        BY <3>2, <4>3 DEF TokenOf, Committed
      <4>. QED  BY <1>5, <4>3, <4>4, Frame DEF TokenOf, Committed
    <3>3. CASE pc[r] \in Statement /\ SameLocals(req[r], req'[r])
      BY <1>1, <3>1, <3>3 DEF SameLocals, TokensGenuine
    <3>. QED  BY <1>5, <3>2, <3>3, Frame
  <2>5. ASSUME NEW q \in Request, q # r, Kept(q)' PROVE TokenOf(req[q].token, req[q].user)'
    BY <1>3, <1>5, <2>5, Frame
  <2>6. TokensGenuine'
    BY <1>2, <2>1, <2>4, <2>5 DEF TokensGenuine
  <2>. QED  BY <2>3, <2>6
<1>6. ASSUME NEW r \in Request, Step(r), Commits(r)
      PROVE  TokensGenuine' /\ StoredTokenUnused'
  <2>1. pc[r] = "commit" /\ UNCHANGED req /\ pc'[r] \in {"ok", "lost", "unauthorized"}
    BY <1>6, RowEffect
  <2>2. ASSUME NEW u \in Request, row'[u].reset # None
        PROVE  TokenOf(row[u].reset, u)'
    <3>1. CASE row'[u].reset = row[u].reset
      BY <1>2, <2>2, <3>1
    <3>2. CASE CommitForgot(r) /\ u = req[r].user /\ row'[u].reset = r
      BY <3>2 DEF CommitForgot, AtCommit, Goto, TypeOK, TokenOf, Committed
    <3>. QED  BY <1>6, <2>2, <3>1, <3>2, ResetEffect
  <2>3. ASSUME NEW q \in Request, Kept(q)' PROVE Kept(q) /\ TokenOf(req[q].token, req[q].user)'
    <3>1. Kept(q)
      BY <2>1, <2>3, <1>6, Frame DEF Statement
    <3>. QED  BY <1>1, <2>1, <2>3, <3>1 DEF TokensGenuine
  <2>4. TokensGenuine'
    BY <2>2, <2>3 DEF TokensGenuine
  <2>5. StoredTokenUnused'
    <3>. SUFFICES ASSUME NEW u \in Request, NEW q \in Request, Committed(q, "reset")',
                         row'[u].reset # None, row'[u].reset = req[q].token
                  PROVE  FALSE
      BY <2>1 DEF StoredTokenUnused
    <3>1. TokenOf(req[q].token, req[q].user)
      BY <2>1, <2>3 DEF TokensGenuine, Committed
    <3>2. row'[u].reset = row[u].reset /\ ~(CommitReset(r) /\ u = req[r].user)
      <4>1. ~(CommitForgot(r) /\ row'[u].reset = r)
        BY <2>1, <3>1 DEF TokenOf, Committed
      <4>. QED  BY <1>6, <4>1, ResetEffect
    <3>3. TokenOf(row[u].reset, u)
      BY <3>2 DEF TokensGenuine
    <3>4. req[q].user = u
      BY <3>1, <3>2, <3>3 DEF TokenOf
    <3>5. CASE q = r
      <4>1. CommitReset(r)
        BY <1>6, <2>1, <3>5 DEF Commits, CommitRegister, CommitLogin, CommitLoginFailed,
                                CommitForgot, CommitVerify, CommitUpdate, AtCommit, Committed
      <4>. QED  BY <3>2, <3>4, <3>5, <4>1
    <3>6. CASE q # r
      <4>1. Committed(q, "reset")
        BY <1>6, <3>6, Frame DEF Committed
      <4>. QED  BY <3>2, <4>1 DEF StoredTokenUnused
    <3>. QED  BY <3>5, <3>6
  <2>. QED  BY <2>4, <2>5
<1>7. CASE \/ \E t \in Request : ExpireSession(t)
           \/ \E u \in Request : ExpireReset(u)
           \/ UNCHANGED vars
  <2>1. /\ \A v \in Request : row'[v].reset = row[v].reset
        /\ pc' = pc /\ req' = req
    BY <1>7 DEF ExpireSession, ExpireReset, vars, TypeOK, Row
  <2>. QED  BY <2>1 DEF TokensGenuine, StoredTokenUnused, TokenOf, Committed
<1>. QED  BY <1>4, <1>5, <1>6, <1>7, NextCases, StepCases

-----------------------------------------------------------------------------
(* Sessions.  A session row is that of an answered login, and only a row   *)
(* is marked revoked.  What a password change saw and what it marked are   *)
(* sessions of its account, and once its UPDATE ran, no session it saw is  *)
(* active unmarked.                                                        *)
SessionsOfLogins ==
    \A t \in Request : /\ session[t].user = None => ~session[t].revoked
                       /\ session[t].user # None => Committed(t, "login")

SawItsSessions ==
    \A c \in Request : req[c].op \in Changing /\ (pc[c] \in Statement \/ pc[c] \in {"ok", "lost"}) =>
        \A t \in req[c].saw : pc[t] \in {"ok", "lost"} /\ session[t].user \in {None, req[c].user}

MarkedItsSessions ==
    \A c \in Request : req[c].op \in Changing /\ pc[c] \in {"insertAudit", "commit"} =>
        /\ \A t \in req[c].saw : Active(t) => t \in req[c].marks
        /\ \A t \in req[c].marks : session[t].user = req[c].user

(* What one step does to one session row.                                  *)
LEMMA SessionEffect ==
    ASSUME TypeOK, [Next]_vars, NEW t \in Request
    PROVE  \/ /\ session'[t].user = None /\ ~session'[t].revoked
              /\ \E r \in Request : Delete(r, session[t].user)
           \/ CommitLogin(t) /\ session'[t].user = req[t].user /\ ~session'[t].revoked
           \/ /\ session'[t].user = session[t].user
              /\ session[t].revoked => session'[t].revoked
              /\ session'[t].revoked =>
                    \/ session[t].revoked
                    \/ \E r \in Request : (CommitReset(r) \/ CommitUpdate(r)) /\ t \in req[r].marks
<1>0. session[t] \in Session
  BY DEF TypeOK
<1>1. ASSUME NEW r \in Request, NEW u \in Request, Delete(r, u)
      PROVE  \/ session'[t] = session[t]
             \/ session'[t].user = None /\ ~session'[t].revoked /\ session[t].user = u
  BY <1>1 DEF Delete, NoSession
<1>2. ASSUME NEW r \in Request, CommitLogin(r)
      PROVE  \/ session'[t] = session[t]
             \/ r = t /\ session'[t].user = req[t].user /\ ~session'[t].revoked
  BY <1>2 DEF CommitLogin, NoSession, TypeOK
<1>3. ASSUME NEW r \in Request, CommitReset(r) \/ CommitUpdate(r)
      PROVE  /\ session'[t].user = session[t].user
             /\ session'[t].revoked <=> session[t].revoked \/ t \in req[r].marks
  <2>1. session'[t] = IF t \in req[r].marks THEN [session[t] EXCEPT !.revoked = TRUE] ELSE session[t]
    BY <1>3 DEF CommitReset, CommitUpdate, Revoked
  <2>. QED  BY <1>0, <2>1 DEF Session
<1>4. ASSUME NEW r \in Request, Step(r), Uncommitted(r) PROVE session'[t] = session[t]
  BY <1>4 DEF Uncommitted
<1>5. ASSUME NEW r \in Request,
             CommitRegister(r) \/ CommitLoginFailed(r) \/ CommitForgot(r) \/ CommitVerify(r)
      PROVE  session'[t] = session[t]
  BY <1>5 DEF CommitRegister, CommitLoginFailed, CommitForgot, CommitVerify
<1>6. CASE \/ \E s \in Request : ExpireSession(s)
           \/ \E u \in Request : ExpireReset(u)
           \/ UNCHANGED vars
  <2>1. session'[t].user = session[t].user /\ session'[t].revoked = session[t].revoked
    BY <1>0, <1>6 DEF ExpireSession, ExpireReset, vars, TypeOK, Session
  <2>. QED  BY <2>1
<1>7. ASSUME NEW r \in Request, Step(r), Commits(r)
      PROVE  \/ CommitLogin(r) \/ CommitReset(r) \/ CommitUpdate(r)
             \/ CommitRegister(r) \/ CommitLoginFailed(r) \/ CommitForgot(r) \/ CommitVerify(r)
  BY <1>7 DEF Commits
<1>. QED  BY <1>1, <1>2, <1>3, <1>4, <1>5, <1>6, <1>7, NextCases, StepCases

(* A login that was answered is over: its session only loses.              *)
LEMMA SessionOnlyLoses ==
    ASSUME TypeOK, [Next]_vars, NEW t \in Request, pc[t] \in {"ok", "lost"}
    PROVE  session'[t].user \in {None, session[t].user} /\ (Active(t)' => Active(t))
BY SessionEffect DEF CommitLogin, AtCommit, Active

LEMMA SessionsOfLoginsInductive ==
    ASSUME TypeOK, [Next]_vars, LocalsFit, ReferencesLive, SessionsOfLogins, MarkedItsSessions
    PROVE  SessionsOfLogins'
<1>. SUFFICES ASSUME NEW t \in Request
              PROVE  /\ session'[t].user = None => ~session'[t].revoked
                     /\ session'[t].user # None => Committed(t, "login")'
  BY DEF SessionsOfLogins
<1>1. CASE session'[t].user = None /\ ~session'[t].revoked
  BY <1>1
<1>2. CASE CommitLogin(t) /\ session'[t].user = req[t].user /\ ~session'[t].revoked
  BY <1>2 DEF CommitLogin, AtCommit, Goto, TypeOK, Committed
<1>3. CASE /\ session'[t].user = session[t].user
           /\ session'[t].revoked =>
                 \/ session[t].revoked
                 \/ \E r \in Request : (CommitReset(r) \/ CommitUpdate(r)) /\ t \in req[r].marks
  <2>1. ASSUME session[t].user = None PROVE ~session'[t].revoked
    <3>1. ASSUME NEW r \in Request, CommitReset(r) \/ CommitUpdate(r), t \in req[r].marks
          PROVE  FALSE
      <4>1. req[r].op \in Changing /\ pc[r] = "commit"
        BY <3>1 DEF CommitReset, CommitUpdate, AtCommit, Changing
      <4>2. req[r].user \in Request
        BY <4>1 DEF LocalsFit, FitsStatement, Statement, Changing
      <4>. QED  BY <2>1, <3>1, <4>1, <4>2, NoneIsNull DEF MarkedItsSessions
    <3>. QED  BY <1>3, <2>1, <3>1 DEF SessionsOfLogins
  <2>2. ASSUME session[t].user # None PROVE Committed(t, "login")'
    <3>1. Committed(t, "login") /\ pc[t] \in Answer
      BY <2>2 DEF SessionsOfLogins, Committed, Answer
    <3>. QED  BY <3>1, AnswerFinal DEF Committed
  <2>. QED  BY <1>3, <2>1, <2>2
<1>. QED  BY <1>1, <1>2, <1>3, SessionEffect

(* Who is a password change past its read after a step: it was one before, *)
(* with the same locals, or it has just read the account.                  *)
LEMMA ChangeSource ==
    ASSUME TypeOK, [Next]_vars, NEW c \in Request,
           req'[c].op \in Changing, pc'[c] \in Statement \/ pc'[c] \in {"ok", "lost"}
    PROVE  \/ /\ req[c].op \in Changing /\ (pc[c] \in Statement \/ pc[c] \in {"ok", "lost"})
              /\ SameLocals(req[c], req'[c])
           \/ /\ pc[c] = "idle" /\ session' = session /\ pc'[c] = "updateUser"
              /\ req'[c].saw = ActiveSessions(req'[c].user)
              /\ req'[c].user \in Request
<1>0. \A s \in Statement : s \notin Answer /\ s # "idle" /\ s \notin {"ok", "lost", "error"}
  BY DEF Statement, Answer
<1>1. CASE pc'[c] = pc[c] /\ req'[c] = req[c]
  BY <1>1 DEF SameLocals
<1>2. ASSUME NEW r \in Request, Step(r), c # r PROVE pc'[c] = pc[c] /\ req'[c] = req[c]
  BY <1>2, Frame
<1>3. CASE Step(c) /\ pc[c] \in Statement /\ SameLocals(req[c], req'[c])
  BY <1>3 DEF SameLocals
<1>4. CASE Step(c) /\ pc[c] = "idle"
  <2>1. Start(c)
    BY <1>0, <1>4
       DEF Step, Advance, Abort, Execute, AtCommit, InsertUser, InsertProfile, InsertSession,
           UpdateUser, RevokeSessions, InsertAudit, CommitRegister, CommitLogin,
           CommitLoginFailed, CommitForgot, CommitVerify, CommitReset, CommitUpdate
  <2>2. \A v \in Request : ~Delete(c, v)
    <3>. SUFFICES ASSUME NEW v \in Request, Delete(c, v) PROVE FALSE
      OBVIOUS
    <3>1. req'[c] = [NoLocal EXCEPT !.op = "delete", !.user = v]
      BY DEF Delete, TypeOK
    <3>2. req'[c].op = "delete"
      BY <3>1 DEF NoLocal
    <3>. QED  BY <3>2 DEF Changing
  <2>3. Begin(c, req'[c], pc'[c]) /\ FirstStep(c, req'[c], pc'[c])
    BY <2>1, <2>2, StartShape
  <2>. QED
    BY <1>0, <1>4, <2>3 DEF FirstStep, FitsStatement, Begin, Changing
<1>5. CASE \/ \E t \in Request : ExpireSession(t)
           \/ \E u \in Request : ExpireReset(u)
           \/ UNCHANGED vars
  BY <1>1, <1>5 DEF ExpireSession, ExpireReset, vars
<1>. QED  BY <1>1, <1>2, <1>3, <1>4, <1>5, NextCases, Frame

LEMMA SawInductive ==
    ASSUME TypeOK, LocalsFit, SessionsOfLogins, SawItsSessions, [Next]_vars
    PROVE  SawItsSessions'
<1>. SUFFICES ASSUME NEW c \in Request, req'[c].op \in Changing,
                     pc'[c] \in Statement \/ pc'[c] \in {"ok", "lost"}, NEW t \in req'[c].saw
              PROVE  pc'[t] \in {"ok", "lost"} /\ session'[t].user \in {None, req'[c].user}
  BY DEF SawItsSessions
<1>1. CASE /\ req[c].op \in Changing /\ (pc[c] \in Statement \/ pc[c] \in {"ok", "lost"})
           /\ SameLocals(req[c], req'[c])
  <2>1. /\ t \in Request /\ pc[t] \in {"ok", "lost"} /\ req'[c].user = req[c].user
        /\ session[t].user \in {None, req[c].user}
    BY <1>1 DEF SawItsSessions, SameLocals, TypeOK, Local
  <2>2. pc'[t] \in {"ok", "lost"}
    BY <2>1, AnswerFinal DEF Answer
  <2>. QED  BY <2>1, <2>2, SessionOnlyLoses
<1>2. CASE /\ pc[c] = "idle" /\ session' = session
           /\ req'[c].saw = ActiveSessions(req'[c].user)
           /\ req'[c].user \in Request
  <2>1. t \in Request /\ session[t].user = req'[c].user /\ pc[t] \in {"ok", "lost"}
    BY <1>2, NoneIsNull DEF ActiveSessions, SessionsOfLogins, Committed
  <2>2. pc'[t] \in {"ok", "lost"}
    BY <2>1, AnswerFinal DEF Answer
  <2>. QED  BY <1>2, <2>1, <2>2
<1>. QED  BY <1>1, <1>2, ChangeSource

LEMMA MovesItself ==
    ASSUME TypeOK, [Next]_vars, NEW c \in Request, pc'[c] # pc[c] \/ req'[c] # req[c]
    PROVE  Step(c)
<1>1. ASSUME NEW r \in Request, Step(r), c # r PROVE pc'[c] = pc[c] /\ req'[c] = req[c]
  BY <1>1, Frame
<1>2. CASE \/ \E t \in Request : ExpireSession(t)
           \/ \E u \in Request : ExpireReset(u)
           \/ UNCHANGED vars
  BY <1>2 DEF ExpireSession, ExpireReset, vars
<1>. QED  BY <1>1, <1>2, NextCases

(* Where a password change that is past its UPDATE of the sessions was.    *)
LEMMA MarkSource ==
    ASSUME TypeOK, LocalsFit, [Next]_vars, NEW c \in Request,
           req'[c].op \in Changing, pc'[c] \in {"insertAudit", "commit"}
    PROVE  /\ req[c].op \in Changing /\ SameLocals(req[c], req'[c])
           /\ \/ pc[c] \in {"insertAudit", "commit"} /\ req'[c] = req[c]
              \/ RevokeSessions(c)
<1>1. /\ req[c].op \in Changing /\ (pc[c] \in Statement \/ pc[c] \in {"ok", "lost"})
      /\ SameLocals(req[c], req'[c])
  BY ChangeSource DEF Statement
<1>2. CASE ~Step(c)
  BY <1>1, <1>2, MovesItself
<1>3. CASE Step(c)
  <2>1. /\ pc[c] # "idle" /\ req[c].op \notin {"login", "register"}
        /\ pc[c] \notin {"insertProfile", "insertSession"}
    BY <1>1 DEF Changing, Statement, LocalsFit, FitsStatement
  <2>2. Uncommitted(c)
    <3>1. \A u \in Request : ~Delete(c, u)
      BY <2>1 DEF Delete
    <3>2. ~Commits(c)
      BY RowEffect
    <3>. QED  BY <1>3, <3>1, <3>2, StepCases
  <2>3. CASE pc'[c] = "commit"
    BY <1>1, <2>2, <2>3 DEF Uncommitted, InsertAudit, Execute
  <2>4. CASE pc'[c] = "insertAudit"
    BY <1>1, <2>1, <2>2, <2>4 DEF Uncommitted, InsertProfile, InsertSession, Execute
  <2>. QED  BY <2>3, <2>4
<1>. QED  BY <1>2, <1>3

LEMMA MarkedInductive ==
    ASSUME TypeOK, LocalsFit, ReferencesLive, SessionsOfLogins, SawItsSessions, MarkedItsSessions,
           [Next]_vars
    PROVE  MarkedItsSessions'
<1>. SUFFICES ASSUME NEW c \in Request, req'[c].op \in Changing,
                     pc'[c] \in {"insertAudit", "commit"}
              PROVE  /\ \A t \in req'[c].saw : Active(t)' => t \in req'[c].marks
                     /\ \A t \in req'[c].marks : session'[t].user = req'[c].user
  BY DEF MarkedItsSessions
<1>1. req[c].op \in Changing /\ SameLocals(req[c], req'[c])
  BY MarkSource
<1>2. \A t \in req[c].saw : t \in Request /\ pc[t] \in {"ok", "lost"} /\ session[t].user \in {None, req[c].user}
  <2>1. pc[c] \in Statement
    BY MarkSource DEF Statement, RevokeSessions
  <2>. QED  BY <1>1, <2>1 DEF SawItsSessions, TypeOK, Local
<1>3. CASE pc[c] \in {"insertAudit", "commit"} /\ req'[c] = req[c]
  <2>1. ASSUME NEW t \in req[c].saw, Active(t)' PROVE t \in req[c].marks
    BY <1>1, <1>2, <1>3, <2>1, SessionOnlyLoses DEF MarkedItsSessions
  <2>2. ASSUME NEW t \in req[c].marks PROVE session'[t].user = req[c].user
    <3>1. t \in Request /\ session[t].user = req[c].user /\ req[c].user \in Request
      BY <1>1, <1>3, <2>2
         DEF MarkedItsSessions, TypeOK, Local, LocalsFit, FitsStatement, Statement, Changing
    <3>2. RowLocked(req[c].user)
      BY <1>1, <1>3, <3>1, NoneIsNull DEF RowLocked, ReferencesLive, Changing
    <3>3. \A r \in Request : ~Delete(r, session[t].user)
      BY <3>1, <3>2 DEF Delete
    <3>4. ~CommitLogin(t)
      BY <3>1, NoneIsNull DEF SessionsOfLogins, Committed, CommitLogin, AtCommit
    <3>. QED  BY <3>1, <3>3, <3>4, SessionEffect
  <2>. QED  BY <1>3, <2>1, <2>2
<1>4. CASE RevokeSessions(c)
  <2>1. /\ session' = session /\ req'[c].marks = ActiveSessions(req[c].user)
        /\ req'[c].saw = req[c].saw /\ req'[c].user = req[c].user
    BY <1>1, <1>4 DEF RevokeSessions, SameLocals, TypeOK, Local
  <2>. QED  BY <1>2, <2>1 DEF ActiveSessions, Active
<1>. QED  BY <1>3, <1>4, MarkSource

LEMMA OlderInductive ==
    ASSUME TypeOK, LocalsFit, SessionsOfLogins, SawItsSessions, MarkedItsSessions,
           OlderSessionsRevoked, [Next]_vars
    PROVE  OlderSessionsRevoked'
<1>. SUFFICES ASSUME NEW c \in Request, pc'[c] \in {"ok", "lost"}, req'[c].op \in Changing,
                     NEW t \in req'[c].saw
              PROVE  ~Active(t)'
  BY DEF OlderSessionsRevoked, Changing
<1>1. /\ req[c].op \in Changing /\ (pc[c] \in Statement \/ pc[c] \in {"ok", "lost"})
      /\ SameLocals(req[c], req'[c])
  BY ChangeSource
<1>2. t \in Request /\ t \in req[c].saw /\ pc[t] \in {"ok", "lost"}
  BY <1>1 DEF SawItsSessions, SameLocals, TypeOK, Local
<1>3. CASE pc[c] \in {"ok", "lost"}
  BY <1>1, <1>2, <1>3, SessionOnlyLoses DEF OlderSessionsRevoked, Changing
<1>4. CASE pc[c] \in Statement
  <2>1. pc[c] \notin {"ok", "lost"} /\ pc[c] # "idle"
    BY <1>4 DEF Statement
  <2>2. Step(c)
    BY <2>1, MovesItself
  <2>3. Commits(c)
    BY <2>1, <2>2, StepCases DEF Uncommitted, Delete
  <2>4. pc[c] = "commit" /\ (CommitReset(c) \/ CommitUpdate(c))
    BY <1>1, <2>3 DEF Commits, CommitRegister, CommitLogin, CommitLoginFailed, CommitForgot,
                      CommitVerify, CommitReset, CommitUpdate, AtCommit, Changing
  <2>5. session'[t] = IF t \in req[c].marks THEN [session[t] EXCEPT !.revoked = TRUE] ELSE session[t]
    BY <1>2, <2>4 DEF CommitReset, CommitUpdate, Revoked
  <2>6. Active(t)' => t \in req[c].marks
    BY <1>1, <1>2, <2>4, SessionOnlyLoses DEF MarkedItsSessions
  <2>. QED  BY <1>2, <2>5, <2>6 DEF Active, TypeOK, Session
<1>. QED  BY <1>1, <1>3, <1>4

-----------------------------------------------------------------------------
(* The password in force is accounted for.                                 *)
SetBy(c, u, p) ==
    /\ c \in Request /\ pc[c] \in {"ok", "lost"}
    /\ req[c].op \in {"register", "reset", "update"}
    /\ req[c].user = u /\ req[c].password = p

LEMMA PasswordInductive ==
    ASSUME TypeOK, LocalsFit, PasswordAccountedFor, [Next]_vars
    PROVE  PasswordAccountedFor'
<1>. SUFFICES ASSUME NEW u \in Request, row'[u].email # None
              PROVE  /\ SetBy(row[u].setBy, u, row[u].password)'
                     /\ \E a \in audit' : a.by = row'[u].setBy /\ a.user = u
  BY DEF PasswordAccountedFor, SetBy, Live
<1>0. row[u] \in Row
  BY DEF TypeOK
<1>1. ASSUME Live(u), row'[u].setBy = row[u].setBy, row'[u].password = row[u].password
      PROVE  SetBy(row[u].setBy, u, row[u].password)'
  <2>1. SetBy(row[u].setBy, u, row[u].password) /\ pc[row[u].setBy] \in Answer
    BY <1>1 DEF PasswordAccountedFor, SetBy, Answer
  <2>. QED  BY <1>1, <2>1, AnswerFinal DEF SetBy
<1>2. ASSUME Live(u) PROVE \E a \in audit : a.by = row[u].setBy /\ a.user = u
  BY <1>2 DEF PasswordAccountedFor
<1>3. ASSUME NEW r \in Request, NEW v \in Request, Delete(r, v)
      PROVE  /\ SetBy(row[u].setBy, u, row[u].password)'
             /\ \E a \in audit' : a.by = row'[u].setBy /\ a.user = u
  <2>1. u # v /\ row'[u] = row[u]
    BY <1>3 DEF Delete, NoRow, TypeOK
  <2>2. Live(u)
    BY <2>1 DEF Live
  <2>3. PICK a \in audit : a.by = row[u].setBy /\ a.user = u
    BY <1>2, <2>2
  <2>4. a \in audit'
    BY <1>3, <2>1, <2>3 DEF Delete
  <2>. QED  BY <1>1, <2>1, <2>2, <2>3, <2>4
<1>4. ASSUME NEW r \in Request, Step(r), Commits(r)
      PROVE  /\ SetBy(row[u].setBy, u, row[u].password)'
             /\ \E a \in audit' : a.by = row'[u].setBy /\ a.user = u
  <2>1. audit \subseteq audit' /\ \E a \in audit' : a.by = r /\ a.user = req[r].user
    <3>1. PICK e : audit' = audit \cup {[by |-> r, user |-> req[r].user, event |-> e]}
      BY <1>4 DEF Commits, CommitRegister, CommitLogin, CommitLoginFailed, CommitForgot,
                  CommitVerify, CommitReset, CommitUpdate, Audited
    <3>. DEFINE a == [by |-> r, user |-> req[r].user, event |-> e]
    <3>2. a \in audit' /\ audit \subseteq audit'
      BY <3>1
    <3>3. a.by = r /\ a.user = req[r].user
      OBVIOUS
    <3>. QED  BY <3>2, <3>3
  <2>2. ASSUME Live(u), row'[u].setBy = row[u].setBy, row'[u].password = row[u].password
        PROVE  /\ SetBy(row[u].setBy, u, row[u].password)'
               /\ \E a \in audit' : a.by = row'[u].setBy /\ a.user = u
    BY <1>1, <1>2, <2>1, <2>2
  <2>3. ASSUME u = req[r].user, pc'[r] \in {"ok", "lost"}, req[r].op \in {"register", "reset", "update"},
               row'[u].setBy = r, row'[u].password = req[r].password
        PROVE  /\ SetBy(row[u].setBy, u, row[u].password)'
               /\ \E a \in audit' : a.by = row'[u].setBy /\ a.user = u
    BY <1>4, <2>1, <2>3, RowEffect DEF SetBy
  <2>4. CASE u # req[r].user \/ CommitLogin(r) \/ CommitLoginFailed(r)
    <3>1. row'[u] = row[u]
      BY <1>4, <2>4, RowEffect DEF CommitLogin, CommitLoginFailed
    <3>. QED  BY <2>2, <3>1 DEF Live
  <2>5. CASE u = req[r].user /\ CommitRegister(r)
    <3>1. u = r /\ row'[r] = NewRow(r, req[r].email, req[r].password)
      BY <1>4, <2>5, RowEffect
    <3>2. row'[u].setBy = r /\ row'[u].password = req[r].password
      BY <3>1 DEF NewRow, NoRow
    <3>. QED  BY <2>3, <2>5, <3>2 DEF CommitRegister, AtCommit, Goto, TypeOK
  <2>6. CASE u = req[r].user /\ CommitForgot(r)
    <3>1. row'[u] = [row[u] EXCEPT !.reset = r, !.resetExpired = FALSE]
      BY <2>6 DEF CommitForgot, TypeOK
    <3>. QED  BY <1>0, <2>2, <3>1 DEF Live, Row
  <2>7. CASE u = req[r].user /\ CommitVerify(r)
    <3>1. row'[u] = [row[u] EXCEPT !.verified = TRUE]
      BY <2>7 DEF CommitVerify, TypeOK
    <3>. QED  BY <1>0, <2>2, <3>1 DEF Live, Row
  <2>8. CASE u = req[r].user /\ CommitReset(r)
    <3>1. row'[u] = [row[u] EXCEPT !.password = req[r].password, !.setBy = r,
                                   !.reset = None, !.resetExpired = FALSE]
      BY <2>8 DEF CommitReset, TypeOK
    <3>2. pc'[r] \in {"ok", "lost"} /\ req[r].op = "reset"
      BY <2>8 DEF CommitReset, AtCommit, Goto, TypeOK
    <3>. QED  BY <1>0, <2>3, <2>8, <3>1, <3>2 DEF Row
  <2>9. CASE u = req[r].user /\ CommitUpdate(r)
    <3>1. row'[u] = [row[u] EXCEPT !.password = req[r].password, !.setBy = r]
      BY <2>9 DEF CommitUpdate, TypeOK
    <3>2. pc'[r] \in {"ok", "lost"} /\ req[r].op = "update"
      BY <2>9 DEF CommitUpdate, AtCommit, Goto, TypeOK
    <3>. QED  BY <1>0, <2>3, <2>9, <3>1, <3>2 DEF Row
  <2>. QED  BY <1>4, <2>4, <2>5, <2>6, <2>7, <2>8, <2>9 DEF Commits
<1>5. ASSUME NEW r \in Request, Step(r), Uncommitted(r)
      PROVE  /\ SetBy(row[u].setBy, u, row[u].password)'
             /\ \E a \in audit' : a.by = row'[u].setBy /\ a.user = u
  BY <1>1, <1>2, <1>5 DEF Uncommitted, Live
<1>6. CASE \/ \E t \in Request : ExpireSession(t)
           \/ \E v \in Request : ExpireReset(v)
           \/ UNCHANGED vars
  <2>1. /\ row'[u].email = row[u].email /\ row'[u].setBy = row[u].setBy
        /\ row'[u].password = row[u].password /\ audit' = audit
    BY <1>0, <1>6 DEF ExpireSession, ExpireReset, vars, TypeOK, Row
  <2>. QED  BY <1>1, <1>2, <2>1 DEF Live
<1>. QED  BY <1>3, <1>4, <1>5, <1>6, NextCases, StepCases

-----------------------------------------------------------------------------
(* A row is that of an answered registration: nothing else inserts one.    *)
RowsOfRegistrations == \A u \in Request : Live(u) => Committed(u, "register")

LEMMA RowsInductive ==
    ASSUME TypeOK, LocalsFit, RowsOfRegistrations, [Next]_vars
    PROVE  RowsOfRegistrations'
<1>. SUFFICES ASSUME NEW u \in Request, row'[u].email # None
              PROVE  pc'[u] \in {"ok", "lost"} /\ req'[u].op = "register"
  BY DEF RowsOfRegistrations, Live, Committed
<1>1. ASSUME Live(u) PROVE pc'[u] \in {"ok", "lost"} /\ req'[u].op = "register"
  BY <1>1, AnswerFinal DEF RowsOfRegistrations, Committed, Answer
<1>2. ASSUME NEW r \in Request, Step(r), Commits(r)
      PROVE  pc'[u] \in {"ok", "lost"} /\ req'[u].op = "register"
  <2>1. CASE CommitRegister(r) /\ u = r
    BY <2>1 DEF CommitRegister, AtCommit, Goto, TypeOK
  <2>2. CASE ~CommitRegister(r) \/ u # r
    BY <1>1, <1>2, <2>2, RowEffect DEF Live
  <2>. QED  BY <2>1, <2>2
<1>3. ASSUME NEW r \in Request, NEW v \in Request, Delete(r, v) PROVE Live(u)
  BY <1>3 DEF Delete, NoRow, Live, TypeOK
<1>4. ASSUME NEW r \in Request, Uncommitted(r) PROVE Live(u)
  BY <1>4 DEF Uncommitted, Live
<1>5. CASE \/ \E t \in Request : ExpireSession(t)
           \/ \E v \in Request : ExpireReset(v)
           \/ UNCHANGED vars
  <2>1. row'[u].email = row[u].email
    BY <1>5 DEF ExpireSession, ExpireReset, vars, TypeOK, Row
  <2>. QED  BY <1>1, <2>1 DEF Live
<1>. QED  BY <1>1, <1>2, <1>3, <1>4, <1>5, NextCases, StepCases

-----------------------------------------------------------------------------
(* The inductive invariant.                                                *)
Invariant ==
    /\ TypeOK /\ LocalsFit
    /\ ReferencesLive /\ CommitsLive
    /\ UniqueEmail /\ IndexExclusive
    /\ TokensGenuine /\ StoredTokenUnused
    /\ SessionsOfLogins /\ SawItsSessions /\ MarkedItsSessions /\ OlderSessionsRevoked
    /\ PasswordAccountedFor /\ RowsOfRegistrations

(* What the initial states are, said once for all conjuncts.               *)
LEMMA InitState ==
    ASSUME Init
    PROVE  /\ \A r \in Request : pc[r] \in {"ok", "idle"} /\ req[r].op \in {"register", "none"}
           /\ \A u \in Request : row[u].reset = None
           /\ \A t \in Request : session[t].user = None /\ ~session[t].revoked
           /\ \A u \in Request : Live(u) <=> u \in Registered
           /\ \A u, v \in Registered : row[u].email = row[v].email => u = v
           /\ profile = Registered
           /\ \A a \in audit : a.user \in Registered
           /\ \A u \in Registered : /\ row[u].setBy = u /\ pc[u] = "ok" /\ req[u].op = "register"
                                   /\ req[u].user = u /\ req[u].password = row[u].password
                                   /\ \E a \in audit : a.by = u /\ a.user = u
<1>0. Registered \subseteq Request /\ None \notin Email
  BY RegisteredAreRequests, NoneIsNull
<1>1. PICK mail \in [Registered -> Email], secret \in [Registered -> Password] :
        /\ \A u, v \in Registered : mail[u] = mail[v] => u = v
        /\ row = [u \in Request |-> IF u \in Registered THEN NewRow(u, mail[u], secret[u])
                                                        ELSE NoRow]
        /\ profile = Registered
        /\ session = [t \in Request |-> NoSession]
        /\ audit = {[by |-> u, user |-> u, event |-> "login_success"] : u \in Registered}
        /\ pc = [r \in Request |-> IF r \in Registered THEN "ok" ELSE "idle"]
        /\ req = [r \in Request |->
                    IF r \in Registered
                    THEN [NoLocal EXCEPT !.op = "register", !.user = r,
                                         !.email = mail[r], !.password = secret[r]]
                    ELSE NoLocal]
  BY DEF Init
<1>2. \A u \in Registered : /\ row[u] = NewRow(u, mail[u], secret[u]) /\ pc[u] = "ok"
                            /\ req[u] = [NoLocal EXCEPT !.op = "register", !.user = u,
                                                        !.email = mail[u], !.password = secret[u]]
  BY <1>0, <1>1
<1>3. \A u \in Request : u \notin Registered =>
        row[u] = NoRow /\ pc[u] = "idle" /\ req[u] = NoLocal
  BY <1>1
<1>4. \A u \in Registered : /\ row[u].email = mail[u] /\ row[u].setBy = u /\ row[u].reset = None
                            /\ row[u].password = secret[u]
                            /\ pc[u] = "ok" /\ req[u].op = "register" /\ req[u].user = u
                            /\ req[u].password = secret[u]
  <2>1. ASSUME NEW u, NEW e, NEW p
        PROVE  /\ NewRow(u, e, p).email = e /\ NewRow(u, e, p).setBy = u
               /\ NewRow(u, e, p).reset = None /\ NewRow(u, e, p).password = p
    BY DEF NewRow, NoRow
  <2>2. ASSUME NEW u, NEW l,
               l = [NoLocal EXCEPT !.op = "register", !.user = u, !.email = mail[u],
                                   !.password = secret[u]]
        PROVE  l.op = "register" /\ l.user = u /\ l.password = secret[u]
    BY <2>2 DEF NoLocal
  <2>3. ASSUME NEW u \in Registered
        PROVE  /\ row[u] = NewRow(u, mail[u], secret[u]) /\ pc[u] = "ok"
               /\ req[u].op = "register" /\ req[u].user = u /\ req[u].password = secret[u]
    <3>. DEFINE l == [NoLocal EXCEPT !.op = "register", !.user = u, !.email = mail[u],
                                     !.password = secret[u]]
    <3>1. l.op = "register" /\ l.user = u /\ l.password = secret[u]
      BY <2>2, Zenon
    <3>2. /\ row[u] = NewRow(u, mail[u], secret[u]) /\ pc[u] = "ok"
          /\ req[u] = l
      BY <1>2, Zenon
    <3>. HIDE DEF l
    <3>. QED  BY <3>1, <3>2
  <2>. QED  BY <2>1, <2>3
<1>5. \A u \in Request : u \notin Registered =>
        row[u].email = None /\ row[u].reset = None /\ pc[u] = "idle" /\ req[u].op = "none"
  BY <1>3 DEF NoRow, NoLocal
<1>6. \A t \in Request : session[t].user = None /\ ~session[t].revoked
  BY <1>1 DEF NoSession
<1>7. \A u \in Registered : mail[u] \in Email
  OBVIOUS
<1>8. ASSUME NEW a \in audit PROVE a.user \in Registered
  <2>1. PICK u \in Registered : a = [by |-> u, user |-> u, event |-> "login_success"]
    BY <1>1
  <2>. QED  BY <2>1
<1>9. ASSUME NEW u \in Registered PROVE \E a \in audit : a.by = u /\ a.user = u
  <2>. DEFINE a == [by |-> u, user |-> u, event |-> "login_success"]
  <2>1. a \in audit
    BY <1>1
  <2>2. a.by = u /\ a.user = u
    OBVIOUS
  <2>. HIDE DEF a
  <2>. QED  BY <2>1, <2>2
<1>10. \A u \in Request : Live(u) <=> u \in Registered
  BY <1>0, <1>4, <1>5, <1>7 DEF Live
<1>11. \A u, v \in Registered : row[u].email = row[v].email => u = v
  <2>. SUFFICES ASSUME NEW u \in Registered, NEW v \in Registered, row[u].email = row[v].email
                PROVE  u = v
    OBVIOUS
  <2>1. mail[u] = mail[v]
    BY <1>4
  <2>. QED  BY <1>1, <2>1
<1>12. \A u \in Registered : req[u].password = row[u].password
  BY <1>4
<1>. QED
  BY <1>0, <1>1, <1>4, <1>5, <1>6, <1>8, <1>9, <1>10, <1>11, <1>12, Zenon

LEMMA InitInvariant == Init => Invariant
<1>. SUFFICES ASSUME Init PROVE Invariant
  OBVIOUS
<1>1. LocalsFit /\ CommitsLive /\ IndexExclusive
  BY InitState DEF LocalsFit, CommitsLive, IndexExclusive, Holds, Statement
<1>2. ReferencesLive
  BY InitState, RegisteredAreRequests DEF ReferencesLive
<1>3. UniqueEmail
  <2>. SUFFICES ASSUME NEW u \in Request, NEW v \in Request, Live(u), row[u].email = row[v].email
                PROVE  u = v
    BY DEF UniqueEmail
  <2>1. Live(v)
    BY DEF Live
  <2>. QED  BY <2>1, InitState
<1>4. TokensGenuine /\ StoredTokenUnused
  BY InitState DEF TokensGenuine, StoredTokenUnused
<1>5. SessionsOfLogins /\ SawItsSessions /\ MarkedItsSessions /\ OlderSessionsRevoked
  BY InitState DEF SessionsOfLogins, SawItsSessions, MarkedItsSessions, OlderSessionsRevoked, Changing
<1>6. PasswordAccountedFor
  <2>1. \A u \in Request : Live(u) => u \in Registered
    BY InitState
  <2>. QED  BY <2>1, InitState, RegisteredAreRequests DEF PasswordAccountedFor
<1>7. RowsOfRegistrations
  BY InitState, RegisteredAreRequests DEF RowsOfRegistrations, Committed
<1>. QED  BY <1>1, <1>2, <1>3, <1>4, <1>5, <1>6, <1>7, InitType DEF Invariant

LEMMA NextInvariant == Invariant /\ [Next]_vars => Invariant'
BY NextType, LocalsFitInductive, ReferencesInductive, UniqueEmailInductive, TokensInductive,
   SessionsOfLoginsInductive, SawInductive, MarkedInductive, OlderInductive, PasswordInductive,
   RowsInductive DEF Invariant

LEMMA InvariantHolds == Spec => []Invariant
BY InitInvariant, NextInvariant, PTL DEF Spec

(* At most one account per address, whatever registrations interleave.     *)
THEOREM AccountsUnique == Spec => []UniqueEmail
<1>1. Invariant => UniqueEmail
  BY DEF Invariant
<1>. QED  BY <1>1, InvariantHolds, PTL

(* No profile, session or audit row refers to an erased user, and every    *)
(* account has its profile.                                                *)
THEOREM NoDanglingReference == Spec => []ReferencesLive
<1>1. Invariant => ReferencesLive
  BY DEF Invariant
<1>. QED  BY <1>1, InvariantHolds, PTL

(* A reset token that changed a password is on no account any more.        *)
THEOREM UsedTokenNotStored == Spec => []StoredTokenUnused
<1>1. Invariant => StoredTokenUnused
  BY DEF Invariant
<1>. QED  BY <1>1, InvariantHolds, PTL

(* A password change that took effect has ended the sessions it saw.       *)
THEOREM ChangeEndsSessions == Spec => []OlderSessionsRevoked
<1>1. Invariant => OlderSessionsRevoked
  BY DEF Invariant
<1>. QED  BY <1>1, InvariantHolds, PTL

(* The password in force was set by a committed, audited request.          *)
THEOREM PasswordAudited == Spec => []PasswordAccountedFor
<1>1. Invariant => PasswordAccountedFor
  BY DEF Invariant
<1>. QED  BY <1>1, InvariantHolds, PTL

(* A revoked session stays revoked until its row goes with the account.    *)
THEOREM RevokedForGood == Spec => RevocationIsFinal
<1>1. ASSUME Invariant, [Next]_vars
      PROVE  [\A t \in Request : session[t].revoked /\ session'[t].user # None
                                    => session'[t].revoked]_vars
  <2>. SUFFICES ASSUME NEW t \in Request, session[t].revoked, session'[t].user # None
                PROVE  session'[t].revoked
    OBVIOUS
  <2>1. pc[t] \in {"ok", "lost"}
    BY <1>1 DEF Invariant, SessionsOfLogins, Committed
  <2>2. ~CommitLogin(t)
    BY <2>1 DEF CommitLogin, AtCommit
  <2>. QED  BY <1>1, <2>2, SessionEffect DEF Invariant
<1>. QED  BY <1>1, InvariantHolds, PTL DEF Spec, RevocationIsFinal

(* What is left of ResetTokenUsedOnce, which the code does not keep: two   *)
(* resets with one token succeed only if each read the account before the  *)
(* other committed.  One that begins after the other's commit gets a 400,  *)
(* or a 500 when its read fails and the token is compared with nothing.    *)
SpentTokenRefused ==
    [][\A q, r \in Request :
            /\ Committed(q, "reset")
            /\ pc[r] = "idle" /\ pc'[r] # "idle"
            /\ req'[r].op = "reset" /\ req'[r].token = req[q].token
            => pc'[r] = "badRequest"]_vars

(* A reset that begins after one with its token has committed is refused   *)
(* (resetPassword of AuthService).                                         *)
THEOREM SpentTokensAreRefused == Spec => SpentTokenRefused
<1>1. ASSUME Invariant, [Next]_vars, NEW q \in Request, NEW r \in Request,
             Committed(q, "reset"), pc[r] = "idle", pc'[r] # "idle",
             req'[r].op = "reset", req'[r].token = req[q].token
      PROVE  pc'[r] = "badRequest"
  <2>1. req[q].token # None
    BY <1>1, NoneIsNull DEF Invariant, TokensGenuine, TokenOf, Committed
  <2>2. \A u \in Request : row[u].reset # req[q].token
    BY <1>1, <2>1 DEF Invariant, StoredTokenUnused
  <2>3. Start(r)
    <3>1. Step(r)
      BY <1>1, MovesItself DEF Invariant
    <3>2. ~Advance(r) /\ ~Abort(r)
      BY <1>1 DEF Advance, Abort, Execute, AtCommit, Statement, InsertUser, InsertProfile,
                  InsertSession, UpdateUser, RevokeSessions, InsertAudit, CommitRegister,
                  CommitLogin, CommitLoginFailed, CommitForgot, CommitVerify, CommitReset, CommitUpdate
    <3>. QED  BY <3>1, <3>2 DEF Step
  <2>4. ASSUME NEW u \in Request, Delete(r, u) PROVE FALSE
    <3>1. req'[r] = [NoLocal EXCEPT !.op = "delete", !.user = u]
      BY <1>1, <2>4 DEF Delete, Invariant, TypeOK
    <3>2. req'[r].op = "delete"
      BY <3>1 DEF NoLocal
    <3>. QED  BY <1>1, <3>2
  <2>5. FirstStep(r, req'[r], pc'[r])
    BY <1>1, <2>3, <2>4, StartShape DEF Invariant
  <2>6. req'[r].user \in Request => row[req'[r].user].reset # req'[r].token
    BY <1>1, <2>2
  <2>. QED  BY <1>1, <2>1, <2>5, <2>6 DEF FirstStep, FitsStatement, Changing
<1>2. Invariant /\ [Next]_vars
      => [\A q, r \in Request :
             /\ Committed(q, "reset")
             /\ pc[r] = "idle" /\ pc'[r] # "idle"
             /\ req'[r].op = "reset" /\ req'[r].token = req[q].token
             => pc'[r] = "badRequest"]_vars
  BY <1>1
<1>. QED  BY <1>2, InvariantHolds, PTL DEF Spec, SpentTokenRefused

-----------------------------------------------------------------------------
(* Waiting.  The safety half of EveryRequestAnswered: a statement waits    *)
(* only for transactions that can go on, and every step of a request       *)
(* leaves it fewer, whatever the others do.                                *)

(* Request q has the lock that the next statement of request r waits for.  *)
HoldsUp(q, r) ==
    \/ /\ pc[r] = "insertUser"
       /\ req[q].op = "register" /\ req[q].email = req[r].email
       /\ pc[q] \in {"insertProfile", "insertAudit", "commit"}
    \/ /\ pc[r] = "updateUser" /\ req[q].user = req[r].user /\ Live(req[r].user)
       /\ \/ req[q].op \in Changing /\ pc[q] \in {"revokeSessions", "insertAudit", "commit"}
          \/ req[q].op \in {"forgot", "verify"} /\ pc[q] \in {"insertAudit", "commit"}

(* The guards of Advance: the statement has its lock, and a transaction    *)
(* that is to commit is of a handler that has one.                         *)
CanGoOn(r) ==
    \/ pc[r] = "insertUser" /\ ~IndexHeld(req[r].email)
    \/ pc[r] = "updateUser" /\ ~RowLocked(req[r].user)
    \/ pc[r] \in {"insertProfile", "insertSession", "revokeSessions", "insertAudit"}
    \/ pc[r] = "commit" /\ req[r].op \in {"register", "login", "loginFailed", "forgot", "verify"}
                                              \cup Changing

(* Waiting never goes in a circle: a request under way can go on, or       *)
(* another that can holds it up; and so it is with an erasure, whose       *)
(* DELETE waits for the locks on the row and on its key.                   *)
SomeoneGoesOn ==
    /\ \A r \in Request : pc[r] \in Statement /\ ~CanGoOn(r)
           => \E q \in Request : HoldsUp(q, r) /\ CanGoOn(q)
    /\ \A u \in Request : RowLocked(u) \/ KeyShared(u)
           => \E q \in Request : req[q].user = u /\ CanGoOn(q)

(* The steps of Advance a request has before it at most.                   *)
StepsLeft(r) ==
    CASE pc[r] \in {"insertUser", "updateUser"} -> 4
      [] pc[r] \in {"insertProfile", "insertSession", "revokeSessions"} -> 3
      [] pc[r] = "insertAudit" -> 2
      [] pc[r] = "commit" -> 1
      [] OTHER -> 0

(* A request that has begun only comes closer to its answer: nothing sends *)
(* it back to a statement, and every statement of it is a step closer.     *)
StepsRunOut ==
    [][\A r \in Request :
            Advance(r) \/ (pc[r] # "idle" /\ pc'[r] # pc[r]) => StepsLeft(r)' < StepsLeft(r)]_vars

(* CanGoOn is not too strong: only requests it holds of take steps.        *)
LEMMA AdvanceCan ==
    ASSUME NEW r \in Request, Advance(r)
    PROVE  CanGoOn(r)
BY DEF Advance, CanGoOn, Execute, AtCommit, InsertUser, InsertProfile, InsertSession, UpdateUser,
       RevokeSessions, InsertAudit, CommitRegister, CommitLogin, CommitLoginFailed, CommitForgot,
       CommitVerify, CommitReset, CommitUpdate, Changing

(* No deadlock of transactions over the unique index and the rows, as the  *)
(* statements of the handlers of AuthService take them.                    *)
THEOREM NoCircularWait == Spec => []SomeoneGoesOn
<1>1. ASSUME Invariant, NEW q \in Request,
             pc[q] \in {"insertProfile", "revokeSessions", "insertAudit", "commit"}
      PROVE  CanGoOn(q)
  BY <1>1 DEF CanGoOn, Invariant, LocalsFit, FitsStatement, Statement, Changing
<1>2. ASSUME Invariant, NEW r \in Request, pc[r] \in Statement, ~CanGoOn(r)
      PROVE  \E q \in Request : HoldsUp(q, r) /\ CanGoOn(q)
  <2>1. CASE pc[r] = "insertUser"
    BY <1>1, <1>2, <2>1 DEF CanGoOn, IndexHeld, HoldsUp
  <2>2. CASE pc[r] = "updateUser"
    BY <1>1, <1>2, <2>2 DEF CanGoOn, RowLocked, HoldsUp, Changing
  <2>3. CASE pc[r] \notin {"insertUser", "updateUser"}
    BY <1>1, <1>2, <2>3 DEF CanGoOn, Statement
  <2>. QED  BY <2>1, <2>2, <2>3
<1>3. ASSUME Invariant, NEW u \in Request, RowLocked(u) \/ KeyShared(u)
      PROVE  \E q \in Request : req[q].user = u /\ CanGoOn(q)
  BY <1>1, <1>3 DEF RowLocked, KeyShared
<1>4. Invariant => SomeoneGoesOn
  BY <1>2, <1>3 DEF SomeoneGoesOn
<1>. QED  BY <1>4, InvariantHolds, PTL

(* Whatever other requests do, erasures included, a request under way has  *)
(* at most four statements and never repeats one.                          *)
THEOREM EveryStepIsCloser == Spec => StepsRunOut
<1>1. ASSUME Invariant, NEW r \in Request, Advance(r) PROVE StepsLeft(r)' < StepsLeft(r)
  <2>1. Failed(r) \in Answer
    BY DEF Failed, Answer
  <2>2. ASSUME NEW s, NEW n, Execute(r, s, n) PROVE pc[r] = s /\ pc'[r] = n
    BY <1>1, <2>2 DEF Execute, Goto, Invariant, TypeOK
  <2>3. ASSUME NEW o, NEW a, AtCommit(r, o, a)
        PROVE  pc[r] = "commit" /\ pc'[r] \in {a, "lost"}
    BY <1>1, <2>3 DEF AtCommit, Goto, Invariant, TypeOK
  <2>4. CASE InsertUser(r)
    BY <2>1, <2>2, <2>4 DEF InsertUser, StepsLeft, Answer
  <2>5. CASE InsertProfile(r)
    BY <2>2, <2>5 DEF InsertProfile, StepsLeft
  <2>6. CASE InsertSession(r)
    BY <2>1, <2>2, <2>6 DEF InsertSession, StepsLeft, Answer
  <2>7. CASE UpdateUser(r)
    BY <2>2, <2>7 DEF UpdateUser, StepsLeft
  <2>8. CASE RevokeSessions(r)
    BY <1>1, <2>8 DEF RevokeSessions, Goto, Invariant, TypeOK, StepsLeft
  <2>9. CASE InsertAudit(r)
    BY <2>1, <2>2, <2>9 DEF InsertAudit, StepsLeft, Answer
  <2>10. CASE Commits(r)
    BY <2>3, <2>10 DEF Commits, CommitRegister, CommitLogin, CommitLoginFailed, CommitForgot,
                       CommitVerify, CommitReset, CommitUpdate, StepsLeft
  <2>. QED  BY <1>1, <2>4, <2>5, <2>6, <2>7, <2>8, <2>9, <2>10 DEF Advance, Commits
<1>2. ASSUME Invariant, [Next]_vars, NEW r \in Request, pc[r] # "idle", pc'[r] # pc[r]
      PROVE  StepsLeft(r)' < StepsLeft(r)
  <2>1. Step(r)
    BY <1>2, MovesItself DEF Invariant
  <2>2. ~Start(r)
    BY <1>2, <2>1, StartShape DEF Begin, Delete, Invariant
  <2>3. CASE Abort(r)
    <3>1. pc[r] \in Statement /\ pc'[r] \in Answer
      BY <1>2, <2>3 DEF Abort, Execute, Goto, Failed, Answer, Invariant, TypeOK
    <3>. QED  BY <3>1 DEF StepsLeft, Statement, Answer
  <2>. QED  BY <1>1, <1>2, <2>1, <2>2, <2>3 DEF Step
<1>3. Invariant /\ [Next]_vars
      => [\A r \in Request : Advance(r) \/ (pc[r] # "idle" /\ pc'[r] # pc[r])
                                => StepsLeft(r)' < StepsLeft(r)]_vars
  BY <1>1, <1>2
<1>. QED  BY <1>3, InvariantHolds, PTL DEF Spec, StepsRunOut

-----------------------------------------------------------------------------
(* The account contract.  A step is mapped to the answer it gives, if it   *)
(* gives one; the three lemmas after this say how a step shows in          *)
(* accounts, sessions and replies.                                         *)
LEMMA AccountsAt ==
    ASSUME Invariant, NEW u \in Request
    PROVE  /\ Live(u) => Accounts[u] = Seen(row[u]) /\ Accounts[u] # C!Gone
           /\ ~Live(u) => Accounts[u] = C!Gone
           /\ Accounts[u].email = row[u].email
<1>1. u \in profile <=> Live(u)
  BY DEF Invariant, ReferencesLive
<1>2. Seen(row[u]).email = row[u].email
  BY DEF Seen
<1>3. CASE Live(u)
  <2>1. Accounts[u] = Seen(row[u])
    BY <1>1, <1>3 DEF Accounts
  <2>2. C!Gone.email = None
    BY DEF C!Gone
  <2>. QED  BY <1>2, <1>3, <2>1, <2>2 DEF Live
<1>4. CASE ~Live(u)
  BY <1>1, <1>4 DEF Accounts, C!Gone, Live
<1>. QED  BY <1>3, <1>4

LEMMA AccountsSame ==
    ASSUME row' = row, profile' = profile
    PROVE  Accounts' = Accounts
BY DEF Accounts, Live

LEMMA AccountsChange ==
    ASSUME Invariant, Invariant', NEW u \in Request, row'[u].email # None,
           \A v \in Request : v # u => row'[v] = row[v]
    PROVE  Accounts' = [Accounts EXCEPT ![u] = Seen(row'[u])]
<1>1. \A v \in Request : v \in profile <=> Live(v)
  BY DEF Invariant, ReferencesLive
<1>2. \A v \in Request : v \in profile' <=> row'[v].email # None
  BY DEF Invariant, ReferencesLive, Live
<1>3. Accounts' = [v \in Request |-> IF row'[v].email # None THEN Seen(row'[v]) ELSE [email |-> None]]
  BY <1>2 DEF Accounts, Live
<1>4. Accounts = [v \in Request |-> IF row[v].email # None THEN Seen(row[v]) ELSE [email |-> None]]
  BY <1>1 DEF Accounts, Live
<1>. QED  BY <1>3, <1>4

LEMMA RepliesSame ==
    ASSUME TypeOK, NEW r \in Request, Step(r), pc'[r] \notin Answer
    PROVE  Replies' = Replies
<1>1. pc[r] \notin Answer
  BY Frame DEF Answer, Statement
<1>2. \A q \in Request : ReplyTo(req'[q], pc'[q]) = ReplyTo(req[q], pc[q])
  <2>1. \A q \in Request : q # r => pc'[q] = pc[q] /\ req'[q] = req[q]
    BY Frame
  <2>2. ReplyTo(req'[r], pc'[r]) = ReplyTo(req[r], pc[r])
    BY <1>1 DEF ReplyTo
  <2>. QED  BY <2>1, <2>2
<1>. QED  BY <1>2 DEF Replies

LEMMA RepliesGiven ==
    ASSUME TypeOK, TypeOK', NEW r \in Request, Step(r), pc'[r] \in Answer,
           req'[r].op # "none"
    PROVE  /\ Replies[r] = C!Pending /\ Replies' = [Replies EXCEPT ![r] = Replies'[r]]
           /\ Replies'[r] \in C!Answer
           /\ Replies'[r].op = IF req'[r].op = "loginFailed" THEN "login" ELSE req'[r].op
           /\ Replies'[r].about = IF req'[r].op \in {"refresh", "logout"}
                                  THEN req'[r].token ELSE req'[r].user
           /\ Replies'[r].result = IF pc'[r] = "lost" THEN "error" ELSE pc'[r]
<1>1. pc[r] \notin Answer
  BY Frame DEF Answer, Statement
<1>2. \A q \in Request : q # r => ReplyTo(req'[q], pc'[q]) = ReplyTo(req[q], pc[q])
  BY Frame
<1>3. Replies[r] = C!Pending
  BY <1>1 DEF Replies, ReplyTo, C!Pending
<1>4. Replies' = [Replies EXCEPT ![r] = Replies'[r]]
  BY <1>2 DEF Replies
<1>5. Replies'[r] = ReplyTo(req'[r], pc'[r])
  BY DEF Replies
<1>6. /\ req'[r].op \in Operation /\ req'[r].token \in Request \cup {None}
      /\ req'[r].user \in Request \cup {None}
  BY DEF TypeOK, Local
<1>7. Replies'[r] \in C!Answer
  BY <1>5, <1>6 DEF ReplyTo, Operation, Answer, C!Answer, C!Result
<1>. QED  BY <1>3, <1>4, <1>5, <1>7 DEF ReplyTo

LEMMA UsableHas ==
    \A x : x \in UsableSessions <=>
               \E t \in Request : Usable(t) /\ x = [id |-> t, user |-> session[t].user]
BY DEF UsableSessions

(* A step that answers r is the contract's answer, if what it does to the  *)
(* tables is what the contract asks of the answer.                         *)
LEMMA AnswerStep ==
    ASSUME TypeOK, TypeOK', NEW r \in Request, Step(r), pc'[r] \in Answer, req'[r].op # "none",
           pc'[r] = "ok" => C!Done(r, Replies'[r].op, Replies'[r].about),
           pc'[r] \in {"error", "lost"} => C!Unknown(r, Replies'[r].op, Replies'[r].about),
           pc'[r] \notin {"ok", "error", "lost"} => C!Refused(r, Replies'[r].op, Replies'[r].about)
    PROVE  C!ContractNext
BY RepliesGiven DEF C!ContractNext, C!Answered

(* An answer that took effect, whether its client heard of it or not.      *)
LEMMA DoneStep ==
    ASSUME TypeOK, TypeOK', NEW r \in Request, Step(r), pc'[r] \in {"ok", "lost"},
           req'[r].op # "none", Replies'[r].about \in Request,
           C!Done(r, Replies'[r].op, Replies'[r].about)
    PROVE  C!ContractNext
<1>1. C!Unknown(r, Replies'[r].op, Replies'[r].about)
  BY NoneIsNull DEF C!Unknown
<1>2. pc'[r] \in Answer
  BY DEF Answer
<1>. QED  BY <1>1, <1>2, AnswerStep

(* A 500 that left everything as it was.                                   *)
LEMMA ErrorStep ==
    ASSUME TypeOK, TypeOK', NEW r \in Request, Step(r), pc'[r] = "error", req'[r].op # "none",
           UNCHANGED <<Accounts, UsableSessions, audit>>
    PROVE  C!ContractNext
<1>1. C!Unknown(r, Replies'[r].op, Replies'[r].about)
  BY DEF C!Unknown, C!Nothing
<1>2. pc'[r] \in Answer
  BY DEF Answer
<1>. QED  BY <1>1, <1>2, AnswerStep

LEMMA UncommittedKeeps ==
    ASSUME Invariant, Invariant', NEW r \in Request, Step(r), Uncommitted(r),
           \A u \in Request : ~Delete(r, u)
    PROVE  [C!ContractNext]_C!contractVars
<1>1. UNCHANGED <<row, profile, session, audit>>
  BY DEF Uncommitted
<1>2. UNCHANGED <<Accounts, UsableSessions, audit>>
  BY <1>1, AccountsSame DEF UsableSessions, Usable, Active
<1>3. CASE pc'[r] \notin Answer
  BY <1>2, <1>3, RepliesSame DEF Invariant, C!contractVars
<1>4. CASE pc'[r] \in Answer /\ pc[r] # "idle"
  <2>1. pc[r] \in Statement /\ SameLocals(req[r], req'[r]) /\ pc'[r] # "ok"
    BY <1>4, Frame DEF Invariant, Uncommitted
  <2>2. req'[r].op \in {"register", "login", "loginFailed", "forgot", "verify", "reset", "update"}
    BY <2>1 DEF Invariant, LocalsFit, FitsStatement, SameLocals, Changing
  <2>3. C!Refused(r, Replies'[r].op, Replies'[r].about)
    BY <1>2, <1>4, <2>2, RepliesGiven DEF Invariant, C!Refused, C!Nothing
  <2>4. pc'[r] # "lost"
    BY DEF Uncommitted
  <2>. QED  BY <1>2, <1>4, <2>1, <2>2, <2>3, <2>4, AnswerStep, ErrorStep DEF Invariant
<1>5. CASE pc'[r] \in Answer /\ pc[r] = "idle"
  <2>1. FirstStep(r, req'[r], pc'[r])
    <3>1. Start(r)
      BY <1>5 DEF Step, Advance, Abort, Execute, AtCommit, Statement, InsertUser, InsertProfile,
            InsertSession, UpdateUser, RevokeSessions, InsertAudit, CommitRegister, CommitLogin,
            CommitLoginFailed, CommitForgot, CommitVerify, CommitReset, CommitUpdate
    <3>. QED  BY <3>1, StartShape DEF Invariant
  <2>6. CASE pc'[r] = "error"
    <3>1. req'[r].op # "none"
      BY <2>1, <2>6 DEF FirstStep
    <3>. QED  BY <1>2, <2>6, <3>1, ErrorStep DEF Invariant
  <2>7. pc'[r] # "lost"
    BY DEF Uncommitted
  <2>2. ASSUME pc'[r] # "error"
        PROVE
        /\ req'[r].op \notin {"none", "delete"}
        /\ pc'[r] = "ok" => req'[r].op \in {"refresh", "logout", "forgot", "verify"}
        /\ req'[r].op = "refresh" =>
               req'[r].token \in Request /\ (pc'[r] = "ok" <=> Usable(req'[r].token))
        /\ req'[r].op = "forgot" => req'[r].user = None
        /\ pc'[r] = "ok" /\ req'[r].op = "verify" =>
               req'[r].user \in Request /\ Live(req'[r].user) /\ row[req'[r].user].verified
    BY <1>5, <2>1, <2>2, <2>7 DEF FirstStep, Answer
  <2>4. CASE pc'[r] = "ok"
    <3>1. /\ Replies'[r].op = req'[r].op
          /\ Replies'[r].about = IF req'[r].op \in {"refresh", "logout"}
                                 THEN req'[r].token ELSE req'[r].user
      BY <1>5, <2>2, <2>4, RepliesGiven DEF Invariant
    <3>2. CASE req'[r].op = "refresh"
      <4>. DEFINE t == req'[r].token
                  x == [id |-> t, user |-> session[t].user]
      <4>1. x \in UsableSessions /\ x.id = t
        BY <2>2, <2>4, <3>2, UsableHas
      <4>2. C!Done(r, "refresh", req'[r].token)
        <5>1. \E y \in UsableSessions : y.id = t
          BY <4>1
        <5>. QED  BY <1>2, <5>1 DEF C!Done, C!Nothing
      <4>. QED  BY <1>5, <2>2, <2>4, <3>1, <3>2, <4>2, AnswerStep DEF Invariant
    <3>3. CASE req'[r].op = "logout"
      <4>1. C!Done(r, "logout", req'[r].token)
        BY <1>2 DEF C!Done, C!Nothing
      <4>. QED  BY <1>5, <2>2, <2>4, <3>1, <3>3, <4>1, AnswerStep DEF Invariant
    <3>4. CASE req'[r].op = "forgot"
      <4>1. C!Done(r, "forgot", None)
        BY <1>2 DEF C!Done, C!Nothing
      <4>. QED  BY <1>5, <2>2, <2>4, <3>1, <3>4, <4>1, AnswerStep DEF Invariant
    <3>5. CASE req'[r].op = "verify"
      <4>. DEFINE u == req'[r].user
      <4>1. u \in Request /\ Accounts[u] # C!Gone /\ Accounts[u].verified
        <5>1. u \in Request /\ Live(u) /\ row[u].verified
          BY <2>2, <2>4, <3>5
        <5>2. Seen(row[u]).verified = row[u].verified
          BY DEF Seen
        <5>. QED  BY <5>1, <5>2, AccountsAt
      <4>2. C!Done(r, "verify", u)
        BY <1>2, <4>1 DEF C!Done, C!Nothing
      <4>. QED  BY <1>5, <2>2, <2>4, <3>1, <3>5, <4>2, AnswerStep DEF Invariant
    <3>. QED  BY <2>2, <2>4, <3>2, <3>3, <3>4, <3>5
  <2>5. CASE pc'[r] \notin {"ok", "error"}
    <3>1. req'[r].op = "refresh" => \A x \in UsableSessions : x.id # req'[r].token
      BY <2>2, <2>5, UsableHas
    <3>2. C!Refused(r, Replies'[r].op, Replies'[r].about)
      BY <1>2, <1>5, <2>2, <2>5, <3>1, RepliesGiven DEF Invariant, C!Refused, C!Nothing
    <3>. QED  BY <1>5, <2>2, <2>5, <2>7, <3>2, AnswerStep DEF Invariant
  <2>. QED  BY <2>4, <2>5, <2>6
<1>. QED  BY <1>3, <1>4, <1>5, Frame DEF Invariant

LEMMA DeleteKeeps ==
    ASSUME Invariant, Invariant', NEW r \in Request, NEW u \in Request, Delete(r, u)
    PROVE  C!ContractNext
<1>1. /\ req'[r].op = "delete" /\ req'[r].user = u
      /\ pc'[r] \in {IF Live(u) THEN "ok" ELSE "notFound", "lost"}
  BY DEF Delete, Goto, Invariant, TypeOK, NoLocal
<1>2. /\ pc'[r] \in Answer /\ Step(r) /\ TypeOK /\ TypeOK'
      /\ Replies'[r].op = "delete" /\ Replies'[r].about = u
  <2>1. pc'[r] \in Answer /\ Step(r) /\ TypeOK /\ TypeOK'
    BY <1>1 DEF Answer, Step, Start, Invariant
  <2>. QED  BY <1>1, <2>1, RepliesGiven
<1>3. \A v \in Request : row'[v] = (IF v = u THEN NoRow ELSE row[v])
  BY DEF Delete, Invariant, TypeOK
<1>4. Accounts' = [Accounts EXCEPT ![u] = C!Gone]
  <2>1. \A v \in Request : Accounts'[v] = IF v = u THEN C!Gone ELSE Accounts[v]
    BY <1>3 DEF Accounts, Live, Delete, NoRow, C!Gone
  <2>2. Accounts = [v \in Request |-> Accounts[v]] /\ Accounts' = [v \in Request |-> Accounts'[v]]
    BY DEF Accounts
  <2>. QED  BY <2>1, <2>2
<1>5. UsableSessions' = UsableSessions \ C!SessionsOf(u)
  <2>1. \A t \in Request : session'[t] = IF session[t].user = u THEN NoSession ELSE session[t]
    BY DEF Delete
  <2>2. \A t \in Request : Usable(t)' <=> Usable(t) /\ session[t].user # u
    BY <2>1 DEF Usable, Active, NoSession
  <2>3. ASSUME NEW x
        PROVE  x \in UsableSessions' <=> x \in UsableSessions /\ x.user # u
    <3>1. x \in UsableSessions' <=>
              \E t \in Request : Usable(t)' /\ x = [id |-> t, user |-> session'[t].user]
      BY DEF UsableSessions
    <3>2. \A t \in Request : Usable(t)' => session'[t] = session[t]
      BY <2>1, <2>2
    <3>3. x \in UsableSessions' <=>
              \E t \in Request : Usable(t) /\ session[t].user # u
                                     /\ x = [id |-> t, user |-> session[t].user]
      BY <2>2, <3>1, <3>2
    <3>. QED  BY <3>3, UsableHas
  <2>. QED  BY <2>3 DEF C!SessionsOf
<1>6. audit' = {IF a.user = u THEN [a EXCEPT !.user = None] ELSE a : a \in audit}
  BY DEF Delete
<1>7. CASE Live(u)
  <2>1. C!Erased(r, u)
    BY <1>4, <1>5, <1>6, <1>7, AccountsAt DEF C!Erased
  <2>2. C!Done(r, "delete", u)
    BY <2>1 DEF C!Done
  <2>3. pc'[r] \in {"ok", "lost"}
    BY <1>1, <1>7
  <2>. QED  BY <1>1, <1>2, <2>2, <2>3, DoneStep
<1>8. CASE ~Live(u)
  <2>1. Accounts[u] = C!Gone /\ Accounts' = Accounts
    <3>1. Accounts[u] = C!Gone
      BY <1>8, AccountsAt
    <3>2. Accounts = [v \in Request |-> Accounts[v]]
      BY DEF Accounts
    <3>. QED  BY <1>4, <3>1, <3>2
  <2>2. UsableSessions' = UsableSessions
    <3>1. \A t \in Request : Usable(t) => session[t].user # u
      BY <1>8 DEF Usable, Active, Invariant, ReferencesLive
    <3>2. \A x \in UsableSessions : x.user # u
      BY <3>1, UsableHas
    <3>. QED  BY <1>5, <3>2 DEF C!SessionsOf
  <2>3. audit' = audit
    <3>1. \A a \in audit : a.user # u
      BY <1>8, NoneIsNull DEF Invariant, ReferencesLive
    <3>. QED  BY <1>6, <3>1
  <2>4. C!Refused(r, "delete", u)
    BY <2>1, <2>2, <2>3 DEF C!Refused, C!Nothing
  <2>5. C!Unknown(r, "delete", u)
    BY <2>1, <2>2, <2>3 DEF C!Unknown, C!Nothing
  <2>. QED  BY <1>1, <1>2, <1>8, <2>4, <2>5, AnswerStep
<1>. QED  BY <1>7, <1>8

(* What a commit answers, and about whom.                                  *)
LEMMA CommitAnswer ==
    ASSUME Invariant, Invariant', NEW r \in Request, Commits(r)
    PROVE  /\ Step(r) /\ pc[r] = "commit" /\ pc'[r] \in Answer /\ req' = req
           /\ pc'[r] \in {IF req[r].op = "loginFailed" THEN "unauthorized" ELSE "ok", "lost"}
           /\ Replies'[r].about = req[r].user
           /\ Replies'[r].op = IF req[r].op = "loginFailed" THEN "login" ELSE req[r].op
           /\ req[r].op # "none"
           /\ req[r].op \notin {"register", "loginFailed"} =>
                  req[r].user \in Request /\ Live(req[r].user)
           /\ req[r].op = "register" => req[r].user = r
<1>1. Step(r)
  BY DEF Step, Advance, Commits
<1>2. /\ pc[r] = "commit" /\ pc'[r] \in Answer /\ UNCHANGED req
      /\ pc'[r] \in {IF req[r].op = "loginFailed" THEN "unauthorized" ELSE "ok", "lost"}
  BY RowEffect DEF Answer, Invariant
<1>3. FitsStatement(r, req[r], "commit")
  BY <1>2 DEF Invariant, LocalsFit, Statement
<1>4. /\ req[r].op \in {"register", "login", "loginFailed", "forgot", "verify", "reset", "update"}
      /\ req[r].op \notin {"register", "loginFailed"} => req[r].user \in Request
      /\ req[r].op = "register" => req[r].user = r
  BY <1>3 DEF FitsStatement, Changing
<1>5. req[r].op \notin {"register", "loginFailed"} => Live(req[r].user)
  BY <1>2, <1>4, NoneIsNull DEF Invariant, CommitsLive
<1>6. /\ Replies'[r].about = req[r].user
      /\ Replies'[r].op = IF req[r].op = "loginFailed" THEN "login" ELSE req[r].op
  BY <1>1, <1>2, <1>4, RepliesGiven DEF Invariant
<1>. QED  BY <1>1, <1>2, <1>4, <1>5, <1>6

LEMMA CommitRegisterKeeps ==
    ASSUME Invariant, Invariant', NEW r \in Request, CommitRegister(r)
    PROVE  C!ContractNext
<1>. DEFINE e == req[r].email
            p == req[r].password
<1>1. Commits(r) /\ pc[r] = "commit" /\ req[r].op = "register" /\ pc'[r] \in {"ok", "lost"}
  BY DEF Commits, CommitRegister, AtCommit, Goto, Invariant, TypeOK
<1>2. e \in Email /\ p \in Password
  BY <1>1 DEF Invariant, LocalsFit, FitsStatement, Statement, Changing
<1>3. row'[r] = NewRow(r, e, p) /\ \A v \in Request : v # r => row'[v] = row[v]
  BY DEF CommitRegister, Invariant, TypeOK
<1>4. row'[r].email = e /\ e # None
  BY <1>2, <1>3, NoneIsNull DEF NewRow, NoRow
<1>5. Accounts' = [Accounts EXCEPT ![r] = Seen(row'[r])]
  BY <1>3, <1>4, AccountsChange
<1>6. Seen(row'[r]) = [email |-> e, password |-> p, setBy |-> r, reset |-> None, verified |-> FALSE]
  BY <1>3 DEF Seen, NewRow, NoRow
<1>7. Accounts[r] = C!Gone
  <2>1. ~Live(r)
    BY <1>1 DEF Invariant, RowsOfRegistrations, Committed
  <2>. QED  BY <2>1, AccountsAt
<1>8. \A v \in Request : Accounts[v].email # e
  <2>1. \A v \in Request : row[v].email # e
    BY <1>1 DEF Invariant, IndexExclusive, Holds
  <2>. QED  BY <2>1, AccountsAt
<1>9. /\ audit' = audit \cup {[by |-> r, user |-> r, event |-> "login_success"]}
      /\ UsableSessions' = UsableSessions
  <2>1. req[r].user = r
    BY <1>1, CommitAnswer
  <2>. QED  BY <2>1 DEF CommitRegister, Audited, UsableSessions, Usable, Active
<1>10. C!AccountOpened(r, r)
  BY <1>2, <1>5, <1>6, <1>7, <1>8, <1>9 DEF C!AccountOpened, C!Traced
<1>11. C!Done(r, "register", r)
  BY <1>10 DEF C!Done
<1>. QED  BY <1>1, <1>11, CommitAnswer, DoneStep DEF Invariant

LEMMA CommitLoginKeeps ==
    ASSUME Invariant, Invariant', NEW r \in Request, CommitLogin(r)
    PROVE  C!ContractNext
<1>. DEFINE u == req[r].user
            x == [id |-> r, user |-> u]
<1>1. Commits(r) /\ pc[r] = "commit" /\ req[r].op = "login" /\ pc'[r] \in {"ok", "lost"}
  BY DEF Commits, CommitLogin, AtCommit, Goto, Invariant, TypeOK
<1>2. u \in Request /\ Live(u)
  BY <1>1, CommitAnswer
<1>3. session[r].user = None
  BY <1>1 DEF Invariant, SessionsOfLogins, Committed
<1>4. /\ \A t \in Request : t # r => session'[t] = session[t]
      /\ session'[r] = [NoSession EXCEPT !.user = u, !.proof = req[r].proof]
  BY DEF CommitLogin, Invariant, TypeOK
<1>5. ~Usable(r) /\ Usable(r)' /\ session'[r].user = u
  BY <1>2, <1>3, <1>4, NoneIsNull DEF Usable, Active, NoSession
<1>6. \A t \in Request : t # r => (Usable(t)' <=> Usable(t))
  BY <1>4 DEF Usable, Active
<1>7. UsableSessions' = UsableSessions \cup {x}
  <2>1. ASSUME NEW y PROVE y \in UsableSessions' <=> y \in UsableSessions \/ y = x
    <3>1. y \in UsableSessions' <=>
              \E t \in Request : Usable(t)' /\ y = [id |-> t, user |-> session'[t].user]
      BY DEF UsableSessions
    <3>2. \A t \in Request \ {r} :
              Usable(t)' /\ y = [id |-> t, user |-> session'[t].user]
                <=> Usable(t) /\ y = [id |-> t, user |-> session[t].user]
      BY <1>4, <1>6
    <3>3. Usable(r)' /\ y = [id |-> r, user |-> session'[r].user] <=> y = x
      BY <1>5
    <3>4. y \in UsableSessions <=>
              \E t \in Request \ {r} : Usable(t) /\ y = [id |-> t, user |-> session[t].user]
      BY <1>5, UsableHas
    <3>. QED  BY <3>1, <3>2, <3>3, <3>4
  <2>. QED  BY <2>1
<1>8. \A s \in UsableSessions : s.id # r
  BY <1>5, UsableHas
<1>9. C!LoggedIn(r, u)
  <2>1. Accounts' = Accounts
    BY AccountsSame DEF CommitLogin
  <2>2. audit' = audit \cup {[by |-> r, user |-> u, event |-> "login_success"]}
    BY DEF CommitLogin, Audited
  <2>. QED  BY <1>2, <1>7, <1>8, <2>1, <2>2, AccountsAt DEF C!LoggedIn, C!Traced
<1>10. C!Done(r, "login", u)
  BY <1>9 DEF C!Done
<1>. QED  BY <1>1, <1>10, CommitAnswer, DoneStep DEF Invariant

LEMMA CommitLoginFailedKeeps ==
    ASSUME Invariant, Invariant', NEW r \in Request, CommitLoginFailed(r)
    PROVE  C!ContractNext
<1>1. Commits(r) /\ req[r].op = "loginFailed" /\ pc'[r] \in {"unauthorized", "lost"}
  BY DEF Commits, CommitLoginFailed, AtCommit, Goto, Invariant, TypeOK
<1>2. /\ Accounts' = Accounts /\ UsableSessions' = UsableSessions
      /\ audit' = audit \cup {[by |-> r, user |-> req[r].user, event |-> "login_failed"]}
  BY AccountsSame DEF CommitLoginFailed, Audited, UsableSessions, Usable, Active
<1>3. C!Refused(r, "login", req[r].user)
  BY <1>2 DEF C!Refused, C!Traced
<1>4. C!Unknown(r, "login", req[r].user)
  BY <1>2 DEF C!Unknown, C!Traced
<1>. QED  BY <1>1, <1>3, <1>4, CommitAnswer, AnswerStep DEF Invariant

(* A row as the contract sees it, field by field.                          *)
SeenType == [email : Email \cup {None}, password : Password \cup {None},
             setBy : Request \cup {None}, reset : Request \cup {None}, verified : BOOLEAN]

LEMMA SeenFields ==
    ASSUME NEW x \in Row
    PROVE  /\ Seen(x) \in SeenType
           /\ Seen(x).email = x.email /\ Seen(x).password = x.password
           /\ Seen(x).setBy = x.setBy /\ Seen(x).verified = x.verified
           /\ Seen(x).reset = IF x.resetExpired THEN None ELSE x.reset
BY DEF Seen, SeenType, Row

(* Commits that update the row of an account.                              *)
LEMMA RowCommit ==
    ASSUME Invariant, Invariant', NEW r \in Request, Commits(r),
           req[r].op \in {"forgot", "verify", "reset", "update"},
           row'[req[r].user].email = row[req[r].user].email
    PROVE  /\ Accounts[req[r].user] = Seen(row[req[r].user])
           /\ Accounts[req[r].user] # C!Gone
           /\ Accounts' = [Accounts EXCEPT ![req[r].user] = Seen(row'[req[r].user])]
<1>1. req[r].user \in Request /\ Live(req[r].user)
  BY CommitAnswer
<1>2. \A v \in Request : v # req[r].user => row'[v] = row[v]
  BY RowEffect DEF Invariant
<1>. QED  BY <1>1, <1>2, AccountsAt, AccountsChange DEF Live

LEMMA CommitForgotKeeps ==
    ASSUME Invariant, Invariant', NEW r \in Request, CommitForgot(r)
    PROVE  C!ContractNext
<1>. DEFINE u == req[r].user
<1>1. Commits(r) /\ pc[r] = "commit" /\ req[r].op = "forgot" /\ pc'[r] \in {"ok", "lost"}
  BY DEF Commits, CommitForgot, AtCommit, Goto, Invariant, TypeOK
<1>2. u \in Request /\ row[u] \in Row /\ row'[u] \in Row
  BY <1>1, CommitAnswer DEF Invariant, TypeOK
<1>3. row'[u] = [row[u] EXCEPT !.reset = r, !.resetExpired = FALSE]
  BY <1>2 DEF CommitForgot, Invariant, TypeOK
<1>4. Seen(row'[u]) = [Seen(row[u]) EXCEPT !.reset = r] /\ row'[u].email = row[u].email
  BY <1>2, <1>3 DEF Seen, Row
<1>5. \A v \in Request : Accounts[v] # C!Gone => Accounts[v].reset # r
  <2>1. \A v \in Request : row[v].reset # r
    BY <1>1, NoneIsNull DEF Invariant, TokensGenuine, TokenOf, Committed
  <2>2. \A v \in Request : Seen(row[v]).reset # r
    BY <2>1, NoneIsNull DEF Seen
  <2>. QED  BY <2>2, AccountsAt
<1>6. C!ResetTokenSent(r, u)
  <2>1. audit' = audit \cup {[by |-> r, user |-> u, event |-> "password_reset_request"]}
    BY DEF CommitForgot, Audited
  <2>2. UsableSessions' = UsableSessions
    BY DEF CommitForgot, UsableSessions, Usable, Active
  <2>3. Accounts' = [Accounts EXCEPT ![u] = [Accounts[u] EXCEPT !.reset = r]]
    BY <1>1, <1>4, RowCommit
  <2>. QED  BY <1>1, <1>4, <1>5, <2>1, <2>2, <2>3, RowCommit DEF C!ResetTokenSent, C!Traced
<1>7. C!Done(r, "forgot", u)
  BY <1>2, <1>6, NoneIsNull DEF C!Done
<1>. QED  BY <1>1, <1>7, CommitAnswer, DoneStep DEF Invariant

LEMMA CommitVerifyKeeps ==
    ASSUME Invariant, Invariant', NEW r \in Request, CommitVerify(r)
    PROVE  C!ContractNext
<1>. DEFINE u == req[r].user
<1>1. Commits(r) /\ req[r].op = "verify" /\ pc'[r] \in {"ok", "lost"}
  BY DEF Commits, CommitVerify, AtCommit, Goto, Invariant, TypeOK
<1>2. u \in Request /\ row[u] \in Row /\ row'[u] \in Row
  BY <1>1, CommitAnswer DEF Invariant, TypeOK
<1>3. row'[u] = [row[u] EXCEPT !.verified = TRUE]
  BY <1>2 DEF CommitVerify, Invariant, TypeOK
<1>4. Seen(row'[u]) = [Seen(row[u]) EXCEPT !.verified = TRUE] /\ row'[u].email = row[u].email
  <2>1. /\ row'[u].email = row[u].email /\ row'[u].password = row[u].password
        /\ row'[u].setBy = row[u].setBy /\ row'[u].reset = row[u].reset
        /\ row'[u].resetExpired = row[u].resetExpired /\ row'[u].verified = TRUE
    BY <1>2, <1>3 DEF Row
  <2>2. /\ Seen(row'[u]) \in SeenType /\ Seen(row[u]) \in SeenType
        /\ Seen(row'[u]).email = Seen(row[u]).email /\ Seen(row'[u]).password = Seen(row[u]).password
        /\ Seen(row'[u]).setBy = Seen(row[u]).setBy /\ Seen(row'[u]).reset = Seen(row[u]).reset
        /\ Seen(row'[u]).verified = TRUE
    BY <1>2, <2>1, SeenFields
  <2>. QED  BY <2>1, <2>2 DEF SeenType
<1>5. C!EmailVerified(r, u)
  <2>1. audit' = audit \cup {[by |-> r, user |-> u, event |-> "two_factor_enable"]}
    BY DEF CommitVerify, Audited
  <2>2. UsableSessions' = UsableSessions
    BY DEF CommitVerify, UsableSessions, Usable, Active
  <2>3. Accounts' = [Accounts EXCEPT ![u] = [Accounts[u] EXCEPT !.verified = TRUE]]
    BY <1>1, <1>4, RowCommit
  <2>. QED  BY <1>1, <1>4, <2>1, <2>2, <2>3, RowCommit DEF C!EmailVerified, C!Traced
<1>6. C!Done(r, "verify", u)
  BY <1>5 DEF C!Done
<1>. QED  BY <1>1, <1>6, CommitAnswer, DoneStep DEF Invariant

(* A password change ends sessions of its account only, and opens none.    *)
LEMMA RevokedSeen ==
    ASSUME Invariant, NEW r \in Request, req[r].op \in Changing, pc[r] = "commit",
           session' = Revoked(req[r].marks)
    PROVE  /\ UsableSessions' \subseteq UsableSessions
           /\ UsableSessions \ C!SessionsOf(req[r].user) \subseteq UsableSessions'
<1>1. \A t \in Request : session'[t] = IF t \in req[r].marks
                                       THEN [session[t] EXCEPT !.revoked = TRUE] ELSE session[t]
  BY DEF Revoked
<1>2. \A t \in Request : session'[t].user = session[t].user
                         /\ (Usable(t)' <=> Usable(t) /\ t \notin req[r].marks)
  <2>. SUFFICES ASSUME NEW t \in Request
                PROVE  session'[t].user = session[t].user
                       /\ (Usable(t)' <=> Usable(t) /\ t \notin req[r].marks)
    OBVIOUS
  <2>1. session[t] \in Session
    BY DEF Invariant, TypeOK
  <2>. QED  BY <1>1, <2>1 DEF Session, Usable, Active
<1>3. \A t \in req[r].marks : session[t].user = req[r].user
  BY DEF Invariant, MarkedItsSessions
<1>4. \A x : x \in UsableSessions' <=>
                 \E t \in Request : Usable(t)' /\ x = [id |-> t, user |-> session'[t].user]
  BY DEF UsableSessions
<1>5. UsableSessions' \subseteq UsableSessions
  BY <1>2, <1>4, UsableHas
<1>6. ASSUME NEW x \in UsableSessions, x.user # req[r].user PROVE x \in UsableSessions'
  <2>1. PICK t \in Request : Usable(t) /\ x = [id |-> t, user |-> session[t].user]
    BY UsableHas
  <2>2. t \notin req[r].marks
    BY <1>3, <1>6, <2>1
  <2>. QED  BY <1>2, <1>4, <2>1, <2>2
<1>. QED  BY <1>5, <1>6 DEF C!SessionsOf

LEMMA CommitResetKeeps ==
    ASSUME Invariant, Invariant', NEW r \in Request, CommitReset(r)
    PROVE  C!ContractNext
<1>. DEFINE u == req[r].user
            p == req[r].password
<1>1. Commits(r) /\ pc[r] = "commit" /\ req[r].op = "reset" /\ pc'[r] \in {"ok", "lost"}
  BY DEF Commits, CommitReset, AtCommit, Goto, Invariant, TypeOK
<1>2. u \in Request /\ row[u] \in Row /\ row'[u] \in Row /\ p \in Password
  BY <1>1, CommitAnswer DEF Invariant, TypeOK, LocalsFit, FitsStatement, Statement
<1>3. row'[u] = [row[u] EXCEPT !.password = p, !.setBy = r, !.reset = None, !.resetExpired = FALSE]
  BY <1>2 DEF CommitReset, Invariant, TypeOK
<1>4. /\ Seen(row'[u]) = [Seen(row[u]) EXCEPT !.password = p, !.setBy = r, !.reset = None]
      /\ row'[u].email = row[u].email
  <2>1. /\ row'[u].email = row[u].email /\ row'[u].password = p /\ row'[u].setBy = r
        /\ row'[u].reset = None /\ row'[u].verified = row[u].verified
    BY <1>2, <1>3 DEF Row
  <2>2. /\ Seen(row'[u]) \in SeenType /\ Seen(row[u]) \in SeenType
        /\ Seen(row'[u]).email = Seen(row[u]).email /\ Seen(row'[u]).password = p
        /\ Seen(row'[u]).setBy = r /\ Seen(row'[u]).reset = None
        /\ Seen(row'[u]).verified = Seen(row[u]).verified
    BY <1>2, <2>1, SeenFields
  <2>. QED  BY <2>1, <2>2 DEF SeenType
<1>5. C!PasswordReset(r, u)
  <2>1. audit' = audit \cup {[by |-> r, user |-> u, event |-> "password_reset_success"]}
    BY DEF CommitReset, Audited
  <2>2. /\ UsableSessions' \subseteq UsableSessions
        /\ UsableSessions \ C!SessionsOf(u) \subseteq UsableSessions'
    BY <1>1, RevokedSeen DEF CommitReset, Changing
  <2>3. Accounts' = [Accounts EXCEPT ![u] =
                        [Accounts[u] EXCEPT !.password = p, !.setBy = r, !.reset = None]]
    BY <1>1, <1>4, RowCommit
  <2>. QED  BY <1>1, <1>2, <1>4, <2>1, <2>2, <2>3, RowCommit DEF C!PasswordReset, C!Traced
<1>6. C!Done(r, "reset", u)
  BY <1>5 DEF C!Done
<1>. QED  BY <1>1, <1>6, CommitAnswer, DoneStep DEF Invariant

LEMMA CommitUpdateKeeps ==
    ASSUME Invariant, Invariant', NEW r \in Request, CommitUpdate(r)
    PROVE  C!ContractNext
<1>. DEFINE u == req[r].user
            p == req[r].password
<1>1. Commits(r) /\ pc[r] = "commit" /\ req[r].op = "update" /\ pc'[r] \in {"ok", "lost"}
  BY DEF Commits, CommitUpdate, AtCommit, Goto, Invariant, TypeOK
<1>2. u \in Request /\ row[u] \in Row /\ row'[u] \in Row /\ p \in Password
  BY <1>1, CommitAnswer DEF Invariant, TypeOK, LocalsFit, FitsStatement, Statement
<1>3. row'[u] = [row[u] EXCEPT !.password = p, !.setBy = r]
  BY <1>2 DEF CommitUpdate, Invariant, TypeOK
<1>4. /\ Seen(row'[u]) = [Seen(row[u]) EXCEPT !.password = p, !.setBy = r]
      /\ row'[u].email = row[u].email
  <2>1. /\ row'[u].email = row[u].email /\ row'[u].password = p /\ row'[u].setBy = r
        /\ row'[u].reset = row[u].reset /\ row'[u].resetExpired = row[u].resetExpired
        /\ row'[u].verified = row[u].verified
    BY <1>2, <1>3 DEF Row
  <2>2. /\ Seen(row'[u]) \in SeenType /\ Seen(row[u]) \in SeenType
        /\ Seen(row'[u]).email = Seen(row[u]).email /\ Seen(row'[u]).password = p
        /\ Seen(row'[u]).setBy = r /\ Seen(row'[u]).reset = Seen(row[u]).reset
        /\ Seen(row'[u]).verified = Seen(row[u]).verified
    BY <1>2, <2>1, SeenFields
  <2>. QED  BY <2>1, <2>2 DEF SeenType
<1>5. C!PasswordUpdated(r, u)
  <2>1. audit' = audit \cup {[by |-> r, user |-> u, event |-> "password_change"]}
    BY DEF CommitUpdate, Audited
  <2>2. /\ UsableSessions' \subseteq UsableSessions
        /\ UsableSessions \ C!SessionsOf(u) \subseteq UsableSessions'
    BY <1>1, RevokedSeen DEF CommitUpdate, Changing
  <2>3. Accounts' = [Accounts EXCEPT ![u] = [Accounts[u] EXCEPT !.password = p, !.setBy = r]]
    BY <1>1, <1>4, RowCommit
  <2>. QED  BY <1>1, <1>2, <1>4, <2>1, <2>2, <2>3, RowCommit DEF C!PasswordUpdated, C!Traced
<1>6. C!Done(r, "update", u)
  BY <1>5 DEF C!Done
<1>. QED  BY <1>1, <1>6, CommitAnswer, DoneStep DEF Invariant

LEMMA ExpireSessionKeeps ==
    ASSUME Invariant, NEW t \in Request, ExpireSession(t)
    PROVE  C!ContractNext
<1>. DEFINE x == [id |-> t, user |-> session[t].user]
<1>1. /\ session'[t].user = session[t].user /\ session'[t].expired
      /\ \A q \in Request : q # t => session'[q] = session[q]
  BY DEF ExpireSession, Invariant, TypeOK, Session
<1>2. x \in UsableSessions
  BY UsableHas DEF ExpireSession, Usable
<1>3. UsableSessions' = UsableSessions \ {x}
  <2>1. \A q \in Request : /\ session'[q].user = session[q].user
                           /\ Usable(q)' => q # t /\ Usable(q)
                           /\ Usable(q) /\ q # t => Usable(q)'
    BY <1>1 DEF Usable, Active
  <2>2. ASSUME NEW y PROVE y \in UsableSessions' <=> y \in UsableSessions /\ y # x
    <3>1. y \in UsableSessions' <=>
              \E q \in Request : Usable(q)' /\ y = [id |-> q, user |-> session'[q].user]
      BY DEF UsableSessions
    <3>. QED  BY <2>1, <3>1, UsableHas
  <2>. QED  BY <2>2
<1>4. Accounts' = Accounts /\ Replies' = Replies /\ audit' = audit
  BY AccountsSame DEF ExpireSession, Replies
<1>. QED  BY <1>2, <1>3, <1>4 DEF C!ContractNext, C!SessionExpired

LEMMA ExpireResetKeeps ==
    ASSUME Invariant, Invariant', NEW u \in Request, ExpireReset(u)
    PROVE  [C!ContractNext]_C!contractVars
<1>1. UsableSessions' = UsableSessions /\ Replies' = Replies /\ audit' = audit
  BY DEF ExpireReset, UsableSessions, Usable, Active, Replies
<1>2. /\ row[u] \in Row /\ row'[u] \in Row
      /\ row'[u].email = row[u].email /\ row'[u].password = row[u].password
      /\ row'[u].setBy = row[u].setBy /\ row'[u].verified = row[u].verified
      /\ row'[u].resetExpired /\ \A v \in Request : v # u => row'[v] = row[v]
  BY DEF ExpireReset, Invariant, TypeOK, Row
<1>3. CASE Live(u)
  <2>1. Seen(row'[u]) = [Seen(row[u]) EXCEPT !.reset = None]
    <3>1. /\ Seen(row'[u]) \in SeenType /\ Seen(row[u]) \in SeenType
          /\ Seen(row'[u]).email = Seen(row[u]).email
          /\ Seen(row'[u]).password = Seen(row[u]).password
          /\ Seen(row'[u]).setBy = Seen(row[u]).setBy /\ Seen(row'[u]).reset = None
          /\ Seen(row'[u]).verified = Seen(row[u]).verified
      BY <1>2, SeenFields
    <3>. QED  BY <3>1 DEF SeenType
  <2>2. Accounts[u] = Seen(row[u]) /\ Accounts[u] # C!Gone
    BY <1>3, AccountsAt
  <2>3. Accounts' = [Accounts EXCEPT ![u] = [Accounts[u] EXCEPT !.reset = None]]
    BY <1>2, <1>3, <2>1, <2>2, AccountsChange DEF Live
  <2>4. C!ResetTokenExpired(u)
    BY <1>1, <2>2, <2>3 DEF C!ResetTokenExpired
  <2>. QED  BY <2>4 DEF C!ContractNext
<1>4. CASE ~Live(u)
  <2>1. Accounts' = Accounts
    BY <1>2, <1>4 DEF Accounts, Live, ExpireReset
  <2>. QED  BY <1>1, <2>1 DEF C!contractVars
<1>. QED  BY <1>3, <1>4

LEMMA ContractInitially ==
    ASSUME Init
    PROVE  C!ContractInit
<1>1. Invariant
  BY InitInvariant
<1>2. UsableSessions = {}
  BY InitState DEF UsableSessions, Usable, Active
<1>3. \A u \in Request : /\ u \in Registered => pc[u] = "ok" /\ req[u].op = "register" /\ req[u].user = u
                         /\ u \notin Registered => pc[u] = "idle"
  BY InitState DEF Init
<1>4. \A u \in Request : Live(u) <=> u \in Registered
  BY InitState
<1>5. \A u \in Request :
          IF u \in Registered
          THEN Replies[u] = [op |-> "register", about |-> u, result |-> "ok"]
          ELSE Replies[u] = C!Pending
  BY <1>3 DEF Replies, ReplyTo, Answer, C!Pending
<1>6. C!Pending.op = "none" /\ \A u \in Registered : Replies[u].op = "register"
  <2>1. \A u \in Registered : Replies[u] = [op |-> "register", about |-> u, result |-> "ok"]
    BY <1>5, RegisteredAreRequests
  <2>2. \A u : [op |-> "register", about |-> u, result |-> "ok"].op = "register"
    OBVIOUS
  <2>3. C!Pending.op = "none"
    BY DEF C!Pending
  <2>. QED  BY <2>1, <2>2, <2>3, Zenon
<1>7. \A u \in Request : Replies[u] = C!Pending => Accounts[u] = C!Gone
  <2>1. \A u \in Registered : Replies[u] # C!Pending
    BY <1>6
  <2>. QED  BY <1>1, <1>4, <2>1, AccountsAt
<1>8. ASSUME NEW u \in Request, Accounts[u] # C!Gone
      PROVE  /\ Replies[u] = [op |-> "register", about |-> u, result |-> "ok"]
             /\ Accounts[u].email \in Email
             /\ \A v \in Request : Accounts[v].email = Accounts[u].email => v = u
  <2>1. Live(u) /\ u \in Registered
    BY <1>1, <1>4, <1>8, AccountsAt
  <2>2. row[u] \in Row
    BY <1>1 DEF Invariant, TypeOK
  <2>3. row[u].email \in Email
    BY <2>1, <2>2 DEF Row, Live
  <2>4. \A v \in Request : row[v].email = row[u].email => v = u
    BY <1>1, <2>1 DEF Invariant, UniqueEmail, Live
  <2>. QED  BY <1>1, <1>5, <2>1, <2>3, <2>4, AccountsAt
<1>9. audit = {[by |-> u, user |-> u, event |-> "login_success"] :
                  u \in {v \in Request : Accounts[v] # C!Gone}}
  <2>1. {v \in Request : Accounts[v] # C!Gone} = Registered
    BY <1>1, <1>4, AccountsAt, RegisteredAreRequests
  <2>2. audit = {[by |-> u, user |-> u, event |-> "login_success"] : u \in Registered}
    BY DEF Init
  <2>. QED  BY <2>1, <2>2
<1>. QED  BY <1>2, <1>7, <1>8, <1>9 DEF C!ContractInit

(* The handlers implement the account contract: however the statements of  *)
(* concurrent requests interleave, wait for each other's locks or fail,    *)
(* their acknowledgement included, each request looks as if it happened at *)
(* its answer.                                                             *)
THEOREM ContractKept == Spec => KeepsAccountContract
<1>1. Init => C!ContractInit
  BY ContractInitially
<1>2. Invariant /\ Invariant' /\ [Next]_vars => [C!ContractNext]_C!contractVars
  <2>. SUFFICES ASSUME Invariant, Invariant', [Next]_vars
                PROVE  [C!ContractNext]_C!contractVars
    OBVIOUS
  <2>1. ASSUME NEW r \in Request, NEW u \in Request, Delete(r, u) PROVE C!ContractNext
    BY <2>1, DeleteKeeps
  <2>2. ASSUME NEW r \in Request, Commits(r) PROVE C!ContractNext
    BY <2>2, CommitRegisterKeeps, CommitLoginKeeps, CommitLoginFailedKeeps, CommitForgotKeeps,
       CommitVerifyKeeps, CommitResetKeeps, CommitUpdateKeeps DEF Commits
  <2>3. ASSUME NEW r \in Request, Step(r), Uncommitted(r), \A u \in Request : ~Delete(r, u)
        PROVE  [C!ContractNext]_C!contractVars
    BY <2>3, UncommittedKeeps
  <2>4. ASSUME NEW t \in Request, ExpireSession(t) PROVE C!ContractNext
    BY <2>4, ExpireSessionKeeps
  <2>5. ASSUME NEW u \in Request, ExpireReset(u) PROVE [C!ContractNext]_C!contractVars
    BY <2>5, ExpireResetKeeps
  <2>6. CASE UNCHANGED vars
    <3>1. Accounts' = Accounts
      BY <2>6, AccountsSame DEF vars
    <3>. QED  BY <2>6, <3>1 DEF vars, UsableSessions, Usable, Active, Replies, C!contractVars
  <2>7. \A r \in Request : Step(r) =>
            (\E u \in Request : Delete(r, u)) \/ Commits(r) \/ Uncommitted(r)
    BY StepCases DEF Invariant
  <2>. QED  BY <2>1, <2>2, <2>3, <2>4, <2>5, <2>6, <2>7, NextCases
<1>. QED  BY <1>1, <1>2, InvariantHolds, PTL DEF Spec, KeepsAccountContract, C!Contract
=============================================================================
