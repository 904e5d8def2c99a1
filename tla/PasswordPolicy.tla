----------------------------- MODULE PasswordPolicy -----------------------------
(***************************************************************************)
(* What passwords the API takes: PasswordValidator                         *)
(* (src/src/auth/validators/password.validator.ts) in two forms - rule by  *)
(* rule for check-password-strength, one regular expression for the DTOs - *)
(* and the DTOs of src/src/auth/dtos/ with their own bounds on the length. *)
(*                                                                         *)
(* A password is its length and the kinds of characters in it.             *)
(***************************************************************************)
EXTENDS Naturals, FiniteSets

CONSTANTS
    Length,         \* lengths tried
    NoPassword

ASSUME LengthsAreNumbers == Length \subseteq Nat

VARIABLES
    account,        \* the password of an account, or NoPassword
    reply           \* what was answered last

policyVars == <<account, reply>>

MIN_LENGTH == 8
MAX_LENGTH == 128
Required == {"lower", "upper", "digit", "special"}
Kind == Required \cup {"other"}
Password == {p \in [length : Length, kinds : SUBSET Kind] :
                /\ Cardinality(p.kinds) <= p.length
                /\ p.length > 0 => p.kinds # {}}

-----------------------------------------------------------------------------
(* Variant: <= for <.                                                      *)
errorsOffByOne(p) ==
    IF p.length = 0 THEN {"required"}
    ELSE {e \in {"short"} : p.length <= MIN_LENGTH} \cup {e \in {"long"} : p.length > MAX_LENGTH}
         \cup (Required \ p.kinds) \cup (p.kinds \ Required)

(* The rules validate finds broken, one name for each.                     *)
errors(p) ==
    IF p.length = 0 THEN {"required"}
    ELSE {e \in {"short"} : p.length < MIN_LENGTH} \cup {e \in {"long"} : p.length > MAX_LENGTH}
         \cup (Required \ p.kinds) \cup (p.kinds \ Required)

score(p) ==
    IF p.length = 0 THEN 0
    ELSE Cardinality(p.kinds \cap Required) + (IF p.length < MIN_LENGTH THEN 0 ELSE 1)

calculateStrength(p) ==
    CASE score(p) < 2 -> "weak"
      [] score(p) = 2 -> "fair"
      [] score(p) = 3 -> "good"
      [] score(p) = 4 -> "strong"
      [] OTHER -> IF p.length >= 12 THEN "very_strong" ELSE "strong"

validate(p) == [isValid |-> errors(p) = {}, strength |-> calculateStrength(p), score |-> score(p)]

(* isValid: the regular expression.                                        *)
isValid(p) == Required \subseteq p.kinds /\ "other" \notin p.kinds /\ p.length \in 8..128

(* RegisterDto, ResetPasswordDto, UpdatePasswordDto: @IsStrongPassword and *)
(* the bounds on the length; passwordConfirm matches.                      *)
acceptsNew(p) == isValid(p) /\ p.length \in 8..128

(* LoginDto, and currentPassword of UpdatePasswordDto.                     *)
acceptsLogin(p) == p.length \in 8..128
(* CheckPasswordStrengthDto.                                               *)
acceptsCheck(p) == p.length \in 1..128
-----------------------------------------------------------------------------
NoReply == [op |-> "none"]
Says(op, p, ok, strength) ==
    /\ reply = NoReply
    /\ reply' = [op |-> op, password |-> p, ok |-> ok, strength |-> strength]

(* register, reset-password, update-password.                              *)
setPassword(p) ==
    /\ account' = IF acceptsNew(p) THEN p ELSE account
    /\ Says("set", p, acceptsNew(p), "")

checkStrength(p) ==
    /\ acceptsCheck(p)
    /\ Says("check", p, validate(p).isValid, validate(p).strength)
    /\ UNCHANGED account

(* The user logs in with the password of the account.                      *)
logIn ==
    /\ account # NoPassword
    /\ Says("login", account, acceptsLogin(account), "")
    /\ UNCHANGED account

takeReply == reply # NoReply /\ reply' = NoReply /\ UNCHANGED account

PolicyInit == account = NoPassword /\ reply = NoReply

PolicyNext == logIn \/ takeReply \/ \E p \in Password : setPassword(p) \/ checkStrength(p)

PolicySpec == PolicyInit /\ [][PolicyNext]_policyVars
-----------------------------------------------------------------------------
PolicyTypeOK ==
    /\ account \in Password \cup {NoPassword}
    /\ reply.op # "none" => reply.password \in Password /\ reply.ok \in BOOLEAN

(* One policy, although the rules, the regular expression and the DTOs     *)
(* have bounds of their own: check-password-strength calls a password      *)
(* valid exactly if registering and resetting take it, and then strong at  *)
(* least, and whoever could set a password is not refused as malformed     *)
(* when logging in with it.                                                *)
OnePolicy ==
    /\ reply.op = "check" => /\ reply.ok <=> acceptsNew(reply.password)
                             /\ reply.ok => reply.strength \in {"strong", "very_strong"}
    /\ reply.op = "login" => reply.ok
=============================================================================
