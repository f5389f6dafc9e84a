------------------------------ MODULE TwoFactor ------------------------------
(***************************************************************************)
(* TOTP two-factor authentication of one active developer account          *)
(* (services/auth.rs): setup, confirm, disable, and the two-step login.    *)
(*                                                                         *)
(* The developer_clients row is the only thing the calls share, and none   *)
(* of them locks it: confirm and disable read it, verify the code, and     *)
(* write in a second statement that does not look at what they read; login *)
(* decides from a snapshot taken before the bcrypt await.  Calls of the    *)
(* same account (two tabs, a double click, a client that retries) overlap. *)
(*                                                                         *)
(* A secret is the number of the setup that generated it.  A code is named *)
(* after the secret it was computed from; 0 is a wrong or out-of-date one. *)
(***************************************************************************)
EXTENDS Naturals

CONSTANTS
    Calls,        \* every call of one of the five operations
    MaxSecrets,   \* how many secrets may be generated (bound)
    None

ASSUME TwoFactorAssumption == MaxSecrets \in Nat /\ None \notin Nat

VARIABLES
    totp_secret,  \* the row's TOTP secret, None is NULL
    totp_enabled, \* the row's flag
    minted,       \* how many secrets have been generated
    pc,           \* the await each call is suspended at
    call,         \* the operation and the code of each call
    seen,         \* login: the totp_enabled it read
    answer        \* what each call was answered

\* History: what the properties compare with.  No action reads them.
VARIABLES
    rows_seen,    \* the rows the account had during each call
    confirmed,    \* the secrets of which totp_confirm has verified a code
    overwritten,  \* a setup replaced a secret in use, or one being confirmed
    crossed,      \* a disable was applied while a confirm was about to write
    off           \* a disable was applied and no confirm has been called since

row == <<totp_enabled, totp_secret>>
history == <<rows_seen, confirmed, overwritten, crossed, off>>
vars == <<row, minted, pc, call, seen, answer, history>>

Kinds == {"setup", "confirm", "disable", "login", "verify"}
Secrets == 1..MaxSecrets
Call == [kind : Kinds, code : 0..MaxSecrets]
NoCall == [kind |-> "setup", code |-> 0]
Answers == {"none", "error", "uri", "enabled", "disabled", "challenge", "session"}
Rows == [enabled : BOOLEAN, secret : Secrets \cup {None}]

\* The account is without 2FA, has a secret to confirm, or has 2FA on.
Init ==
    /\ \/ minted = 0 /\ totp_secret = None /\ totp_enabled = FALSE
       \/ /\ MaxSecrets > 0
          /\ minted = 1 /\ totp_secret = 1 /\ totp_enabled \in BOOLEAN
    /\ pc = [c \in Calls |-> "new"]
    /\ call = [c \in Calls |-> NoCall]
    /\ seen = [c \in Calls |-> FALSE]
    /\ answer = [c \in Calls |-> "none"]
    /\ rows_seen = [c \in Calls |-> {}]
    /\ confirmed = IF totp_enabled THEN {totp_secret} ELSE {}
    /\ overwritten = FALSE
    /\ crossed = FALSE
    /\ off = FALSE

Kind(c) == call[c].kind
InProgress == {c \in Calls : pc[c] \in {"read", "write", "bcrypt"}}
Confirming == {c \in Calls : pc[c] = "write" /\ Kind(c) = "confirm"}

Goto(c, stage) == pc' = [pc EXCEPT ![c] = stage]

Finish(c, what) ==
    /\ answer' = [answer EXCEPT ![c] = what]
    /\ Goto(c, "done")

RowOf(enabled, secret) == [enabled |-> enabled, secret |-> secret]

\* The row changes, and every call in progress could have seen it so.
SetRow(enabled, secret) ==
    /\ totp_enabled' = enabled
    /\ totp_secret' = secret
    /\ rows_seen' = [c \in Calls |->
          IF c \in InProgress
          THEN rows_seen[c] \cup {RowOf(enabled, secret)}
          ELSE rows_seen[c]]

KeepRow == UNCHANGED <<row, rows_seen>>

-----------------------------------------------------------------------------
(* A call arrives.  verify needs a challenge token, which only a login gives *)
(* out; the other calls come with a password or with a session of before.    *)

Arrive(c) ==
    /\ pc[c] = "new"
    /\ \E k \in Kinds, code \in 0..minted :
          /\ k = "verify" => \E d \in Calls : answer[d] = "challenge"
          /\ k \in {"setup", "login"} => code = 0
          /\ call' = [call EXCEPT ![c] = [kind |-> k, code |-> code]]
          /\ off' = (off /\ k # "confirm")
    /\ Goto(c, "read")
    /\ rows_seen' = [rows_seen EXCEPT ![c] = {RowOf(totp_enabled, totp_secret)}]
    /\ UNCHANGED <<row, minted, seen, answer, confirmed, overwritten, crossed>>

\* Every awaited statement may fail, whatever the call: the answer is an error.
Fail(c) ==
    /\ c \in InProgress
    /\ Finish(c, "error")
    /\ KeepRow
    /\ UNCHANGED <<minted, call, seen, confirmed, overwritten, crossed, off>>

-----------------------------------------------------------------------------
(* totp_setup: SELECT email, then UPDATE totp_secret, whatever totp_enabled is *)

SetupRead(c) ==
    /\ pc[c] = "read" /\ Kind(c) = "setup"
    /\ Goto(c, "write")
    /\ KeepRow
    /\ UNCHANGED <<minted, call, seen, answer, confirmed, overwritten, crossed,
                   off>>

SetupWrite(c) ==
    /\ minted < MaxSecrets
    /\ minted' = minted + 1
    /\ SetRow(totp_enabled, minted + 1)
    /\ overwritten' = (overwritten \/ totp_enabled \/ Confirming # {})
    /\ UNCHANGED <<confirmed, crossed, off>>

-----------------------------------------------------------------------------
(* totp_confirm: read the row and verify the code, then UPDATE totp_enabled *)

\* A row without a secret is TOTP_NOT_INITIALIZED, a code of another secret
\* INVALID_TOTP_CODE.
ConfirmRead_anyCode(c) ==
    /\ pc[c] = "read" /\ Kind(c) = "confirm"
    /\ IF totp_secret # None
       THEN /\ Goto(c, "write")
            /\ confirmed' = confirmed \cup ({totp_secret} \cap {call[c].code})
            /\ UNCHANGED answer
       ELSE /\ Finish(c, "error")
            /\ UNCHANGED confirmed
    /\ KeepRow
    /\ UNCHANGED <<minted, call, seen, overwritten, crossed, off>>
ConfirmRead(c) ==
    /\ pc[c] = "read" /\ Kind(c) = "confirm"
    /\ IF totp_secret # None /\ call[c].code = totp_secret
       THEN /\ Goto(c, "write")
            /\ confirmed' = confirmed \cup {totp_secret}
            /\ UNCHANGED answer
       ELSE /\ Finish(c, "error")
            /\ UNCHANGED confirmed
    /\ KeepRow
    /\ UNCHANGED <<minted, call, seen, overwritten, crossed, off>>

ConfirmWrite(c) ==
    /\ SetRow(TRUE, totp_secret)
    /\ UNCHANGED <<minted, confirmed, overwritten, crossed, off>>

-----------------------------------------------------------------------------
(* totp_disable: read the row and verify the code, then UPDATE both columns *)

DisableRead(c) ==
    /\ pc[c] = "read" /\ Kind(c) = "disable"
    /\ IF totp_enabled /\ totp_secret # None /\ call[c].code = totp_secret
       THEN Goto(c, "write") /\ UNCHANGED answer
       ELSE Finish(c, "error")
    /\ KeepRow
    /\ UNCHANGED <<minted, call, seen, confirmed, overwritten, crossed, off>>

DisableWrite_emptiesSecret(c) ==
    /\ SetRow(FALSE, 0)
    /\ crossed' = (crossed \/ Confirming # {})
    /\ off' = TRUE
    /\ UNCHANGED <<minted, confirmed, overwritten>>
DisableWrite_keepsFlag(c) ==
    /\ SetRow(totp_enabled, None)
    /\ crossed' = (crossed \/ Confirming # {})
    /\ off' = TRUE
    /\ UNCHANGED <<minted, confirmed, overwritten>>
DisableWrite(c) ==
    /\ SetRow(FALSE, None)
    /\ crossed' = (crossed \/ Confirming # {})
    /\ off' = TRUE
    /\ UNCHANGED <<minted, confirmed, overwritten>>

-----------------------------------------------------------------------------
(* The UPDATE of setup, confirm or disable, and its answer *)

Apply(c) ==
    \/ Kind(c) = "setup" /\ SetupWrite(c)
    \/ Kind(c) = "confirm" /\ ConfirmWrite(c)
    \/ Kind(c) = "disable" /\ DisableWrite(c)

Success(c) == CASE Kind(c) = "setup" -> "uri"
                [] Kind(c) = "confirm" -> "enabled"
                [] Kind(c) = "disable" -> "disabled"
                [] OTHER -> "error"

\* The statement is applied, and its result comes back or is lost; a statement
\* that is not applied is Fail.
Write(c) ==
    /\ pc[c] = "write"
    /\ Apply(c)
    /\ \E what \in {Success(c), "error"} : Finish(c, what)
    /\ UNCHANGED <<call, seen>>

-----------------------------------------------------------------------------
(* login_developer and totp_verify_login *)

\* The row is read once, before bcrypt.
LoginRead(c) ==
    /\ pc[c] = "read" /\ Kind(c) = "login"
    /\ seen' = [seen EXCEPT ![c] = totp_enabled]
    /\ Goto(c, "bcrypt")
    /\ KeepRow
    /\ UNCHANGED <<minted, call, answer, confirmed, overwritten, crossed, off>>

\* The password is right (a wrong one is Fail): a challenge, or the session.
LoginFinish(c) ==
    /\ pc[c] = "bcrypt"
    /\ Finish(c, IF seen[c] THEN "challenge" ELSE "session")
    /\ KeepRow
    /\ UNCHANGED <<minted, call, seen, confirmed, overwritten, crossed, off>>

\* The challenge token is good (an expired one is Fail).
VerifyLogin_anyCode(c) ==
    /\ pc[c] = "read" /\ Kind(c) = "verify"
    /\ Finish(c, IF totp_enabled THEN "session" ELSE "error")
    /\ KeepRow
    /\ UNCHANGED <<minted, call, seen, confirmed, overwritten, crossed, off>>
VerifyLogin(c) ==
    /\ pc[c] = "read" /\ Kind(c) = "verify"
    /\ Finish(c, IF totp_enabled /\ totp_secret # None
                    /\ call[c].code = totp_secret
                 THEN "session" ELSE "error")
    /\ KeepRow
    /\ UNCHANGED <<minted, call, seen, confirmed, overwritten, crossed, off>>

-----------------------------------------------------------------------------
\* The caller hangs up or the process is killed: the task is gone, and an UPDATE
\* already sent is applied or is not.
Drop(c) ==
    /\ c \in InProgress
    /\ Goto(c, "dropped")
    /\ \/ KeepRow /\ UNCHANGED <<minted, confirmed, overwritten, crossed, off>>
       \/ pc[c] = "write" /\ Apply(c)
    /\ UNCHANGED <<call, seen, answer>>

Next ==
    \E c \in Calls :
        \/ Arrive(c) \/ SetupRead(c) \/ ConfirmRead(c) \/ DisableRead(c)
        \/ Write(c) \/ LoginRead(c) \/ LoginFinish(c) \/ VerifyLogin(c)
        \/ Fail(c) \/ Drop(c)

Spec == Init /\ [][Next]_vars

-----------------------------------------------------------------------------
(* Properties *)

\* Every variable holds a value of its type.
TypeOK ==
    /\ totp_secret \in 1..minted \cup {None}
    /\ totp_enabled \in BOOLEAN
    /\ minted \in 0..MaxSecrets
    /\ pc \in [Calls -> {"new", "read", "write", "bcrypt", "done", "dropped"}]
    /\ call \in [Calls -> Call]
    /\ seen \in [Calls -> BOOLEAN]
    /\ answer \in [Calls -> Answers]
    /\ rows_seen \in [Calls -> SUBSET Rows]
    /\ confirmed \subseteq Secrets
    /\ overwritten \in BOOLEAN /\ crossed \in BOOLEAN /\ off \in BOOLEAN

\* The rows that justify a success.
Justifies(r, c) ==
    /\ answer[c] = "session" /\ Kind(c) = "login" => ~ r.enabled
    /\ answer[c] = "session" /\ Kind(c) = "verify"
       => r = RowOf(TRUE, call[c].code)
    /\ answer[c] = "disabled" => r = RowOf(TRUE, call[c].code)
    /\ answer[c] = "enabled" => r.secret = call[c].code

\* Every success answers for a row the account had at some moment of the call,
\* though other calls rewrite it meanwhile: a password alone opens a session only
\* if 2FA was off, a challenge only with the code of a secret 2FA was on with, and
\* 2FA is confirmed or disabled only with the code of a secret the row then held.
AnswersMatchSomeMoment ==
    \A c \in Calls :
        pc[c] = "done" => \E r \in rows_seen[c] : Justifies(r, c)

\* 2FA is on without a secret, so that no code can ever be right, only if a
\* disable was applied between the two statements of a confirm.
SecretLostOnlyByCrossing == totp_enabled /\ totp_secret = None => crossed

\* 2FA is on with a secret of which no code was ever verified only if a setup
\* replaced the secret while 2FA was on, or between the statements of a confirm.
UnconfirmedOnlyByOverwrite ==
    totp_enabled /\ totp_secret # None /\ totp_secret \notin confirmed
    => overwritten

\* auth.rs:263, "generate a new secret and persist it (not yet enabled)": the
\* secret 2FA is on with is one whose code totp_confirm has verified.
NewSecretNotYetEnabled ==
    totp_enabled /\ totp_secret # None => totp_secret \in confirmed

\* auth.rs:326, "Verify a TOTP code and disable 2FA": once a disable has been
\* applied, 2FA is off until a confirm that is called later.
DisableTakesEffect == off => ~ totp_enabled
=============================================================================
