-------------------------- MODULE ClientCredentials --------------------------
(***************************************************************************)
(* One account's client secret, api_salt and access tokens                 *)
(* (services/auth.rs, middleware/auth.rs): authenticate, the two steps of  *)
(* a portal login, and the portal calls a token opens: rotate_secret,      *)
(* regenerate_salt and get_me.  Nothing revokes a token: it is a signed    *)
(* pair of times, good for its hour wherever it is shown.                  *)
(*                                                                         *)
(* A secret, a salt and a token are named after the call that generated    *)
(* them; SHA-256 is taken to be injective.  One clock for the service and  *)
(* its callers; a step between two ticks takes no time.                    *)
(***************************************************************************)
EXTENDS Naturals

CONSTANTS
    Calls,                  \* every call of one of the six operations
    Registered,             \* the secret and the salt of the registration
    TOKEN_EXPIRY,           \* TOKEN_EXPIRY_SECS, in ticks
    CHALLENGE_EXPIRY,       \* CHALLENGE_EXPIRY_SECS, in ticks
    Leeway,                 \* what jsonwebtoken adds to every expiry
    MaxTime,                \* how far the clock goes (bound)
    None

ASSUME CredentialsAssumption ==
    /\ {TOKEN_EXPIRY, CHALLENGE_EXPIRY, Leeway, MaxTime} \subseteq Nat
    /\ Registered \notin Calls
    /\ None \notin Calls \cup {Registered}

VARIABLES
    client_secret,  \* what client_secret_hash is the hash of
    api_salt,       \* the row's salt
    is_active,      \* the row's flag
    clock,          \* Utc::now()
    pc,             \* the await each call is suspended at
    call,           \* the operation of each call and what it shows
    admits,         \* token, login, verify: the row read lets the call in
    iat,            \* when the token or challenge of a call was issued
    answer          \* what each call was answered

\* History: what the properties compare with.  No action reads them.
VARIABLES
    earlier,        \* the calls that had succeeded before this one arrived
    retired,        \* the secrets that were in force and were replaced
    shown,          \* the salt get_me answered
    late            \* the calls that arrived when the account was inactive

row == <<client_secret, api_salt, is_active>>
history == <<earlier, retired, shown, late>>
vars == <<row, clock, pc, call, admits, iat, answer, history>>

Secrets == Calls \cup {Registered}
Shown == Secrets \cup {None}
Kinds == {"token", "login", "verify", "rotate", "regenerate", "me"}
Portal == {"rotate", "regenerate", "me"}
Call == [kind : Kinds, shows : Shown]
NoCall == [kind |-> "me", shows |-> None]
Answers == {"none", "error", "token", "challenge", "rotated", "regenerated", "me"}
Stages == {"new", "read", "issue", "write", "done"}

\* The account as register_developer left it.
Init ==
    /\ client_secret = Registered
    /\ api_salt = Registered
    /\ is_active = TRUE
    /\ clock = 0
    /\ pc = [c \in Calls |-> "new"]
    /\ call = [c \in Calls |-> NoCall]
    /\ admits = [c \in Calls |-> FALSE]
    /\ iat = [c \in Calls |-> 0]
    /\ answer = [c \in Calls |-> "none"]
    /\ earlier = [c \in Calls |-> {}]
    /\ retired = {}
    /\ shown = [c \in Calls |-> None]
    /\ late = {}

Kind(c) == call[c].kind
Shows(c) == call[c].shows
Succeeded(c) == answer[c] \notin {"none", "error"}
Answered(what) == {c \in Calls : answer[c] = what}

Goto(c, stage) == pc' = [pc EXCEPT ![c] = stage]

Finish(c, what) ==
    /\ answer' = [answer EXCEPT ![c] = what]
    /\ Goto(c, "done")

-----------------------------------------------------------------------------
(* Tokens *)

\* jsonwebtoken: exp >= now - leeway.
Unexpired(t, lifetime) == clock <= iat[t] + lifetime + Leeway

\* require_auth: the token is one of Claims (a challenge does not decode as one)
\* and has not expired.  The row is not asked.
Bearer_challengeToo(t) ==
    /\ t \in Answered("token") \cup Answered("challenge")
    /\ Unexpired(t, TOKEN_EXPIRY)
Bearer(t) == t \in Answered("token") /\ Unexpired(t, TOKEN_EXPIRY)

Challenge(t) == t \in Answered("challenge") /\ Unexpired(t, CHALLENGE_EXPIRY)

\* What a call of a kind may show; a login shows a password, which is right.
Presentable(k) ==
    CASE k = "token" -> {Registered} \cup Answered("rotated")
      [] k = "login" -> {None}
      [] OTHER -> Answered("token") \cup Answered("challenge")

Opens(k, s) ==
    CASE k \in {"token", "login"} -> TRUE
      [] k = "verify" -> Challenge(s)
      [] OTHER -> Bearer(s)

\* A token that is refused leaves nothing behind and is not a step.
Arrive(c) ==
    /\ pc[c] = "new"
    /\ \E k \in Kinds : \E s \in Presentable(k) :
          /\ Opens(k, s)
          /\ call' = [call EXCEPT ![c] = [kind |-> k, shows |-> s]]
          /\ Goto(c, IF k \in {"rotate", "regenerate"} THEN "write" ELSE "read")
    /\ earlier' = [earlier EXCEPT ![c] = {d \in Calls : Succeeded(d)}]
    /\ late' = IF is_active THEN late ELSE late \cup {c}
    /\ UNCHANGED <<row, clock, admits, iat, answer, retired, shown>>

\* An awaited statement fails, the caller hangs up or the process is killed; a
\* wrong password or TOTP code ends here too.
Fail(c) ==
    /\ pc[c] \in {"read", "issue", "write"}
    /\ Finish(c, "error")
    /\ UNCHANGED <<row, clock, call, admits, iat, history>>

-----------------------------------------------------------------------------
(* authenticate, login_developer, totp_verify_login: read, then issue *)

Read(c, ok) ==
    /\ pc[c] = "read"
    /\ admits' = [admits EXCEPT ![c] = ok]
    /\ IF ok THEN Goto(c, "issue") /\ UNCHANGED answer ELSE Finish(c, "error")
    /\ UNCHANGED <<row, clock, call, iat, history>>

TokenRead_hashUnchecked(c) ==
    Kind(c) = "token" /\ Read(c, is_active)
TokenRead(c) ==
    Kind(c) = "token" /\ Read(c, is_active /\ Shows(c) = client_secret)

LoginRead_inactiveToo(c) ==
    Kind(c) \in {"login", "verify"} /\ Read(c, TRUE)
LoginRead(c) == Kind(c) \in {"login", "verify"} /\ Read(c, is_active)

\* A login with 2FA on gets a challenge.  iat is the time of this step, not of
\* the row it rests on, which for a login is a bcrypt older.
Issue(c) ==
    /\ pc[c] = "issue"
    /\ \/ Finish(c, "token")
       \/ Kind(c) = "login" /\ Finish(c, "challenge")
    /\ iat' = [iat EXCEPT ![c] = clock]
    /\ UNCHANGED <<row, clock, call, admits, history>>

-----------------------------------------------------------------------------
(* The portal calls.  None of them asks whether the account is active. *)

\* One UPDATE to a secret the statement does not compare with anything.
RotateWrite(c) ==
    /\ Kind(c) = "rotate"
    /\ client_secret' = c
    /\ retired' = retired \cup {client_secret}
    /\ UNCHANGED <<api_salt, is_active>>

RegenerateWrite_clears(c) ==
    /\ Kind(c) = "regenerate"
    /\ api_salt' = None
    /\ UNCHANGED <<client_secret, is_active, retired>>
RegenerateWrite(c) ==
    /\ Kind(c) = "regenerate"
    /\ api_salt' = c
    /\ UNCHANGED <<client_secret, is_active, retired>>

Apply(c) == RotateWrite(c) \/ RegenerateWrite(c)

\* The statement is applied and its result comes back, or is lost on the way, as
\* when the caller has hung up: nobody sees the secret.  A statement that is not
\* applied is Fail.
Write_ignoresFailure(c) ==
    /\ pc[c] = "write"
    /\ Apply(c) \/ UNCHANGED <<row, retired>>
    /\ Finish(c, IF Kind(c) = "rotate" THEN "rotated" ELSE "regenerated")
    /\ UNCHANGED <<clock, call, admits, iat, earlier, shown, late>>
Write(c) ==
    /\ pc[c] = "write"
    /\ Apply(c)
    /\ \/ Finish(c, IF Kind(c) = "rotate" THEN "rotated" ELSE "regenerated")
       \/ Finish(c, "error")
    /\ UNCHANGED <<clock, call, admits, iat, earlier, shown, late>>

GetMe(c) ==
    /\ pc[c] = "read" /\ Kind(c) = "me"
    /\ shown' = [shown EXCEPT ![c] = api_salt]
    /\ Finish(c, "me")
    /\ UNCHANGED <<row, clock, call, admits, iat, earlier, retired, late>>

-----------------------------------------------------------------------------
(* Around the calls *)

\* An operator turns the account off in the database; the service never does.
Deactivate ==
    /\ is_active
    /\ is_active' = FALSE
    /\ UNCHANGED <<client_secret, api_salt, clock, pc, call, admits, iat,
                   answer, history>>

Tick ==
    /\ clock < MaxTime
    /\ clock' = clock + 1
    /\ UNCHANGED <<row, pc, call, admits, iat, answer, history>>

Next ==
    \/ \E c \in Calls :
          \/ Arrive(c) \/ Fail(c) \/ TokenRead(c) \/ LoginRead(c) \/ Issue(c)
          \/ Write(c) \/ GetMe(c)
    \/ Deactivate
    \/ Tick

Spec == Init /\ [][Next]_vars

-----------------------------------------------------------------------------
(* Properties *)

\* Every variable holds a value of its type.
TypeOK ==
    /\ client_secret \in Secrets /\ api_salt \in Secrets
    /\ is_active \in BOOLEAN
    /\ clock \in 0..MaxTime
    /\ pc \in [Calls -> Stages]
    /\ call \in [Calls -> Call]
    /\ admits \in [Calls -> BOOLEAN]
    /\ iat \in [Calls -> 0..MaxTime]
    /\ answer \in [Calls -> Answers]
    /\ earlier \in [Calls -> SUBSET Calls]
    /\ retired \subseteq Secrets
    /\ shown \in [Calls -> Shown]
    /\ late \subseteq Calls

\* The client secret is a Credential: authenticate lets in only who shows the
\* secret the row has when it is read, and a rotated one never returns.
Secret == INSTANCE Credential WITH
    current <- client_secret,
    admitted <- [c \in Calls |->
                    IF admits[c] /\ Kind(c) = "token" THEN Shows(c) ELSE None]

SecretSpec == Secret!Spec

\* What a call that had succeeded before d arrived has set, or the registration.
Before(d) == earlier[d] \cup {Registered}

\* Once a rotation has been answered, neither the secret of the registration nor
\* one rotated in before buys a token for a call that arrives later, whatever
\* other rotations were doing (auth.rs:422-445).
RotatedSecretStaysOut ==
    \A c, d \in Calls :
        (/\ answer[c] = "token" /\ Kind(c) = "token"
         /\ d \in earlier[c] /\ answer[d] = "rotated")
        => Shows(c) \notin Before(d)

\* "Store it now": a secret or a salt that was answered is in force unless a call
\* that overlapped this one, or came later, has replaced it.  Of two overlapping
\* rotations either answer may be the one that is worth storing.
AnnouncedSecretsHold ==
    \A c \in Calls :
        /\ answer[c] = "rotated" => client_secret \notin Before(c)
        /\ answer[c] = "regenerated" => api_salt \notin Before(c)

\* The portal never shows a salt that had been replaced, by an answered
\* regeneration, before get_me was called.
PortalShowsCurrentSalt ==
    \A c, d \in Calls :
        (answer[c] = "me" /\ d \in earlier[c] /\ answer[d] = "regenerated")
        => shown[c] \notin Before(d)

\* The step in which require_auth lets a portal call in.
Accepted(c) == pc[c] = "new" /\ pc'[c] # "new" /\ Kind(c)' \in Portal

\* Though no portal call reads is_active, an account that was turned off is out
\* once the tokens of calls under way at that moment have run out: a token that
\* opens anything was issued to a call that arrived while the account was active,
\* itself and the login it continues, no longer ago than its lifetime.
DeactivationEndsAccess ==
    [][\A c \in Calls : Accepted(c) =>
          LET t == Shows(c)' IN
          /\ t \notin late
          /\ Kind(t) \in {"token", "login", "verify"}
          /\ answer[t] = "token"
          /\ clock - iat[t] <= TOKEN_EXPIRY + Leeway
          /\ Kind(t) = "verify" =>
                /\ Shows(t) \notin late
                /\ iat[t] >= iat[Shows(t)]]_vars
=============================================================================
