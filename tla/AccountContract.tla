--------------------------- MODULE AccountContract ---------------------------
(***************************************************************************)
(* What the clients of the account handlers may rely on, as if a request   *)
(* were one step: it is answered once, and what it does to accounts,       *)
(* sessions and the audit trail happens at its answer or not at all.  An   *)
(* answer "error", a 500 or the silence of a process that ended, leaves    *)
(* open which of the two; every other answer says it.                      *)
(*                                                                         *)
(* A handler checks first and writes later, so it promises less than one   *)
(* would like: a request may be refused although nothing is in its way     *)
(* now, and a password may be changed by one that was compared with an     *)
(* older row.  What it does promise, it promises of the accounts as they   *)
(* are at the answer.                                                      *)
(***************************************************************************)
EXTENDS Naturals

CONSTANTS Request, Email, Password, None

VARIABLES
    account,     \* user -> its row and profile, or Gone
    sessions,    \* the sessions a refresh token is honoured for
    trail,       \* the audit rows
    reply        \* request -> what it was answered, or Pending

contractVars == <<account, sessions, trail, reply>>

Gone == [email |-> None]
Pending == [op |-> "none"]

(* An answer is to an operation, about a user, a session, or no one.       *)
Result == {"ok", "conflict", "unauthorized", "notFound", "badRequest", "error"}
Answer == [op : {"register", "login", "refresh", "logout", "forgot", "reset", "verify",
                 "update", "delete"},
           about : Request \cup {None}, result : Result]

Traced(r, u, e) == trail' = trail \cup {[by |-> r, user |-> u, event |-> e]}

SessionsOf(u) == {s \in sessions : s.user = u}

(* What comes with the answer 200 to request r about u.                    *)
AccountOpened(r, u) ==
    /\ u = r /\ account[r] = Gone
    /\ \E e \in Email, p \in Password :
           /\ \A v \in Request : account[v].email # e
           /\ account' = [account EXCEPT ![r] = [email |-> e, password |-> p, setBy |-> r,
                                                 reset |-> None, verified |-> FALSE]]
    /\ Traced(r, r, "login_success")
    /\ UNCHANGED sessions

LoggedIn(r, u) ==
    /\ account[u] # Gone
    /\ \A s \in sessions : s.id # r
    /\ sessions' = sessions \cup {[id |-> r, user |-> u]}
    /\ Traced(r, u, "login_success")
    /\ UNCHANGED account

(* The token of a reset is used up with it.                                *)
PasswordReset(r, u) ==
    /\ account[u] # Gone
    /\ \E p \in Password :
           account' = [account EXCEPT ![u] = [@ EXCEPT !.password = p, !.setBy = r, !.reset = None]]
    /\ sessions \ SessionsOf(u) \subseteq sessions' /\ sessions' \subseteq sessions
    /\ Traced(r, u, "password_reset_success")

PasswordUpdated(r, u) ==
    /\ account[u] # Gone
    /\ \E p \in Password :
           account' = [account EXCEPT ![u] = [@ EXCEPT !.password = p, !.setBy = r]]
    /\ sessions \ SessionsOf(u) \subseteq sessions' /\ sessions' \subseteq sessions
    /\ Traced(r, u, "password_change")

(* The new reset token replaces the one before; it is used nowhere else.   *)
ResetTokenSent(r, u) ==
    /\ account[u] # Gone /\ \A v \in Request : account[v] # Gone => account[v].reset # r
    /\ account' = [account EXCEPT ![u] = [@ EXCEPT !.reset = r]]
    /\ Traced(r, u, "password_reset_request")
    /\ UNCHANGED sessions

EmailVerified(r, u) ==
    /\ account[u] # Gone
    /\ account' = [account EXCEPT ![u] = [@ EXCEPT !.verified = TRUE]]
    /\ Traced(r, u, "two_factor_enable")
    /\ UNCHANGED sessions

(* The account goes with all that refers to it.                            *)
Erased(r, u) ==
    /\ account[u] # Gone
    /\ account' = [account EXCEPT ![u] = Gone]
    /\ sessions' = sessions \ SessionsOf(u)
    /\ trail' = {IF a.user = u THEN [a EXCEPT !.user = None] ELSE a : a \in trail}

Nothing == UNCHANGED <<account, sessions, trail>>

Done(r, o, u) ==
    \/ o = "register" /\ AccountOpened(r, u)
    \/ o = "login" /\ LoggedIn(r, u)
    \/ o = "reset" /\ PasswordReset(r, u)
    \/ o = "update" /\ PasswordUpdated(r, u)
    \/ o = "delete" /\ Erased(r, u)
    \/ o = "forgot" /\ IF u = None THEN Nothing ELSE ResetTokenSent(r, u)
    \/ o = "verify" /\ \/ EmailVerified(r, u)
                       \/ account[u] # Gone /\ account[u].verified /\ Nothing
    \/ o = "refresh" /\ Nothing /\ \E s \in sessions : s.id = u
    \/ o = "logout" /\ Nothing

(* A refused login may leave an audit row, nothing else leaves anything.   *)
Refused(r, o, u) ==
    /\ o = "refresh" => \A s \in sessions : s.id # u
    /\ o = "delete" => account[u] = Gone
    /\ \/ Nothing
       \/ o = "login" /\ Traced(r, u, "login_failed") /\ UNCHANGED <<account, sessions>>

(* A 500: the request took effect as a whole, or was refused without the   *)
(* reason that a refusal gives.                                            *)
Unknown(r, o, u) ==
    \/ Nothing
    \/ u # None /\ Done(r, o, u)
    \/ o = "login" /\ Traced(r, u, "login_failed") /\ UNCHANGED <<account, sessions>>

Answered(r) ==
    /\ reply[r] = Pending /\ reply'[r] \in Answer
    /\ reply' = [reply EXCEPT ![r] = reply'[r]]
    /\ LET a == reply'[r]
       IN  CASE a.result = "ok" -> Done(r, a.op, a.about)
             [] a.result = "error" -> Unknown(r, a.op, a.about)
             [] OTHER -> Refused(r, a.op, a.about)

SessionExpired ==
    /\ \E s \in sessions : sessions' = sessions \ {s}
    /\ UNCHANGED <<account, trail, reply>>

ResetTokenExpired(u) ==
    /\ account[u] # Gone
    /\ account' = [account EXCEPT ![u] = [@ EXCEPT !.reset = None]]
    /\ UNCHANGED <<sessions, trail, reply>>

ContractInit ==
    /\ sessions = {}
    /\ \A u \in Request : reply[u] = Pending => account[u] = Gone
    /\ \A u \in Request : account[u] # Gone =>
           /\ reply[u] = [op |-> "register", about |-> u, result |-> "ok"]
           /\ account[u].email \in Email
           /\ \A v \in Request : account[v].email = account[u].email => v = u
    /\ trail = {[by |-> u, user |-> u, event |-> "login_success"] :
                    u \in {v \in Request : account[v] # Gone}}

ContractNext ==
    \/ \E r \in Request : Answered(r) \/ ResetTokenExpired(r)
    \/ SessionExpired

Contract == ContractInit /\ [][ContractNext]_contractVars
=============================================================================
