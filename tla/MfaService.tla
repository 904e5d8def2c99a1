------------------------------ MODULE MfaService ------------------------------
(***************************************************************************)
(* Multi-factor authentication of one user:                                *)
(* src/src/auth/services/mfa.service.ts, called by mfa.controller.ts.      *)
(*                                                                         *)
(* verifyAndEnable and disable read the row, check the token, and send an  *)
(* UPDATE after an await: requests interleave between the two.  A TOTP     *)
(* token belongs to the secret it was computed from (external: speakeasy); *)
(* anybody can compute one from the empty secret.                          *)
(***************************************************************************)
EXTENDS FiniteSets

CONSTANTS
    MfaRequest,     \* requests under way at one time
    Secret,         \* secrets generated; each is new
    NoSecret        \* '' and null, both falsy

ASSUME NoSecretIsNone == NoSecret \notin Secret

VARIABLES
    mfaSecret, mfaEnabled,      \* the columns of the user's row
    mfaCall,        \* what each request waits to do
    given,          \* history: the secrets generated
    proved,         \* history: the secrets a token was presented for
    crossed         \* history: requests crossed since the last setup

mfaVars == <<mfaSecret, mfaEnabled, mfaCall, given, proved, crossed>>

MfaState == {"idle", "enabling", "disabling"}
Waiting(what) == {c \in MfaRequest : mfaCall[c] = what}

-----------------------------------------------------------------------------
(* setupMfa: a new secret, in one UPDATE that leaves mfaEnabled alone.  It *)
(* crosses a verification under way, or replaces a secret in use.          *)
setupMfa ==
    /\ \E s \in Secret \ given : mfaSecret' = s /\ given' = given \cup {s}
    /\ crossed' = (mfaEnabled \/ Waiting("enabling") # {})
    /\ UNCHANGED <<mfaEnabled, mfaCall, proved>>

(* verifyAndEnable: the SELECT, and a valid token for the secret s.        *)
verifyAndEnable(c, s) ==
    /\ mfaCall[c] = "idle" /\ mfaSecret # NoSecret
    /\ s = mfaSecret
    /\ mfaCall' = [mfaCall EXCEPT ![c] = "enabling"]
    /\ proved' = proved \cup {s}
    /\ UNCHANGED <<mfaSecret, mfaEnabled, given, crossed>>

(* It answers 400 to a user without a secret.                              *)
rejectSetup(c) ==
    /\ mfaCall[c] = "idle" /\ mfaSecret = NoSecret
    /\ UNCHANGED mfaVars

(* It, and validateToken, answer 401 to a token of another secret.         *)
rejectToken(c, s) ==
    /\ mfaCall[c] = "idle" /\ s # mfaSecret
    /\ UNCHANGED mfaVars

(* Its UPDATE.                                                             *)
enable(c) ==
    /\ mfaCall[c] = "enabling"
    /\ mfaEnabled' = TRUE
    /\ mfaCall' = [mfaCall EXCEPT ![c] = "idle"]
    /\ UNCHANGED <<mfaSecret, given, proved, crossed>>

(* validateToken, called by disable: the SELECT and a valid token.  With   *)
(* no secret stored it verifies against '': a token of the empty secret    *)
(* passes, and proves nothing.                                             *)
validateToken(c, s) ==
    /\ mfaCall[c] = "idle"
    /\ s = mfaSecret
    /\ mfaCall' = [mfaCall EXCEPT ![c] = "disabling"]
    /\ proved' = proved \cup ({s} \ {NoSecret})
    /\ UNCHANGED <<mfaSecret, mfaEnabled, given, crossed>>

(* Variant: only the secret is erased.                                     *)
disableSecretOnly(c) ==
    /\ mfaCall[c] = "disabling"
    /\ mfaSecret' = NoSecret
    /\ mfaCall' = [mfaCall EXCEPT ![c] = "idle"]
    /\ crossed' = (crossed \/ Waiting("enabling") # {})
    /\ UNCHANGED <<mfaEnabled, given, proved>>

(* The UPDATE of disable.                                                  *)
disableMfa(c) ==
    /\ mfaCall[c] = "disabling"
    /\ mfaEnabled' = FALSE /\ mfaSecret' = NoSecret
    /\ mfaCall' = [mfaCall EXCEPT ![c] = "idle"]
    /\ crossed' = (Waiting("enabling") # {})
    /\ UNCHANGED <<given, proved>>

MfaInit ==
    /\ mfaSecret = NoSecret /\ mfaEnabled = FALSE
    /\ mfaCall = [c \in MfaRequest |-> "idle"]
    /\ given = {} /\ proved = {} /\ crossed = FALSE

MfaNext ==
    \/ setupMfa
    \/ \E c \in MfaRequest :
           \/ enable(c) \/ disableMfa(c) \/ rejectSetup(c)
           \/ \E s \in Secret \cup {NoSecret} :
                  verifyAndEnable(c, s) \/ validateToken(c, s) \/ rejectToken(c, s)

MfaSpec == MfaInit /\ [][MfaNext]_mfaVars
-----------------------------------------------------------------------------
MfaTypeOK ==
    /\ mfaSecret \in given \cup {NoSecret} /\ mfaEnabled \in BOOLEAN
    /\ mfaCall \in [MfaRequest -> MfaState]
    /\ given \subseteq Secret /\ proved \subseteq given /\ crossed \in BOOLEAN

(* As long as no setup replaced a secret in use, and no setup or disable   *)
(* came between the check of a verification and its UPDATE, MFA is enabled *)
(* only with a secret the user has shown to hold: one that tokens of other *)
(* secrets, or of none, do not disable.                                    *)
MfaEnabledProved == mfaEnabled /\ ~crossed => mfaSecret \in proved

(* "MFA setup not initiated": MFA is not enabled for a user who has no     *)
(* secret (verifyAndEnable refuses that).                                  *)
EnabledHasSecret == mfaEnabled => mfaSecret # NoSecret
=============================================================================
