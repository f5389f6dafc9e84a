--------------------------- MODULE PasswordAccount ---------------------------
(***************************************************************************)
(* One e-mail address and its account (services/auth.rs): register,        *)
(* verify_email, login, forgot_password and change_password, overlapping   *)
(* in any way, and the mails two of them send after they have written.     *)
(*                                                                         *)
(* Registration and change choose a password, any one, also the current or *)
(* an earlier one.  A reset generates one that only its mail tells, named  *)
(* after its call; the verification token is named after the registration. *)
(* bcrypt is taken to be injective.  The account is active; whether 2FA    *)
(* then asks for a code is TwoFactor's subject, so "admitted" is a session *)
(* or a challenge.                                                         *)
(***************************************************************************)
EXTENDS Naturals

CONSTANTS
    Calls,      \* every call of one of the five operations
    Passwords,  \* the passwords people choose
    None

VARIABLES
    account,    \* the developer_clients row of the address, None before it
    inbox,      \* the calls whose mail was delivered
    lost,       \* the calls that wrote the row and whose mail will not come
    pc,         \* the await each call is suspended at
    call,       \* each call's operation, the secret it presents, the password it chooses
    admits,     \* login, change: the row it read lets it in
    answer      \* what each call was answered

\* History: what the properties compare with.  No action reads them.
VARIABLES
    earlier,    \* the calls that had succeeded before this one arrived
    setters,    \* the calls whose statement has set the password
    before,     \* the calls that had set it when this one did
    proved,     \* something only a mail tells has been used
    overtaken   \* a change overwrote a reset applied since it read the row

history == <<earlier, setters, before, proved, overtaken>>
vars == <<account, inbox, lost, pc, call, admits, answer, history>>

Kinds == {"register", "verify", "login", "forgot", "change"}
Secrets == Passwords \cup Calls
Call == [kind : Kinds, secret : Secrets \cup {None}, new : Secrets \cup {None}]
NoCall == [kind |-> "verify", secret |-> None, new |-> None]
Answers == {"none", "error", "conflict", "created", "verified", "admitted",
            "ok", "changed"}
Stages == {"new", "read", "bcrypt", "write", "mail", "done", "dropped"}

\* owner: the registration whose client_id and client_secret the row holds.
\* expired: the 24 h of the verification token are over.
Row == [owner : Calls \cup {None}, password : Secrets \cup {None},
        verified : BOOLEAN, token : Calls \cup {None}, expired : BOOLEAN]

\* Nobody thinks of the random password of a reset that no mail has told.
ASSUME PasswordAssumption ==
    None \notin Secrets \cup Row /\ Passwords \cap Calls = {}

\* A row older than passwords: its hash is '', which no password matches, and
\* the migration that added verification took it as verified.
Legacy == [owner |-> None, password |-> None, verified |-> TRUE, token |-> None,
           expired |-> FALSE]

Init ==
    /\ account \in {None, Legacy}
    /\ inbox = {} /\ lost = {}
    /\ pc = [c \in Calls |-> "new"]
    /\ call = [c \in Calls |-> NoCall]
    /\ admits = [c \in Calls |-> FALSE]
    /\ answer = [c \in Calls |-> "none"]
    /\ earlier = [c \in Calls |-> {}]
    /\ setters = {}
    /\ before = [c \in Calls |-> {}]
    /\ proved = (account # None)
    /\ overtaken = FALSE

Kind(c) == call[c].kind
Secret(c) == call[c].secret
New(c) == IF Kind(c) = "forgot" THEN c ELSE call[c].new
Of(k) == {c \in Calls : pc[c] # "new" /\ Kind(c) = k}
Succeeded(c) == answer[c] \notin {"none", "error", "conflict"}

Goto(c, stage) == pc' = [pc EXCEPT ![c] = stage]

Finish(c, what) ==
    /\ answer' = [answer EXCEPT ![c] = what]
    /\ Goto(c, "done")

\* The passwords somebody can type.
Known == Passwords \cup (Of("forgot") \cap inbox)

\* A session, or a token bought with the credentials, which also works while
\* the address is unverified; the owner of a legacy row has such credentials.
HasToken ==
    \/ account # None /\ account.owner = None
    \/ \E c \in Calls : answer[c] \in {"created", "admitted"}

-----------------------------------------------------------------------------
(* A call arrives with what somebody knows; None is a token that is wrong   *)

Presentable(k) ==
    CASE k = "verify" -> (Of("register") \cap inbox) \cup {None}
      [] k \in {"login", "change"} -> Known
      [] OTHER -> {None}

\* validate_password_strength takes a temporary password too.
Choosable(k) == IF k \in {"register", "change"} THEN Known ELSE {None}

Arrive(c) ==
    /\ pc[c] = "new"
    /\ \E k \in Kinds : \E s \in Presentable(k), new \in Choosable(k) :
          /\ k = "change" => HasToken
          /\ call' = [call EXCEPT ![c] = [kind |-> k, secret |-> s, new |-> new]]
          /\ Goto(c, IF k \in {"register", "verify"} THEN "write" ELSE "read")
    /\ earlier' = [earlier EXCEPT ![c] = {d \in Calls : Succeeded(d)}]
    /\ UNCHANGED <<account, inbox, lost, admits, answer, setters, before, proved,
                   overtaken>>

\* Validation refuses the body, or an awaited statement or a bcrypt task fails.
Fail(c) ==
    /\ pc[c] \in {"read", "bcrypt", "write"}
    /\ Finish(c, "error")
    /\ UNCHANGED <<account, inbox, lost, call, admits, history>>

-----------------------------------------------------------------------------
(* login_developer: one SELECT, then bcrypt, then an answer from that row *)

Matches(c) == account # None /\ account.password # None
              /\ account.password = Secret(c)

Decide(c, ok) ==
    /\ admits' = [admits EXCEPT ![c] = ok]
    /\ proved' = (proved \/ (ok /\ Secret(c) \in Calls))

LoginRead_unverified(c) ==
    /\ pc[c] = "read" /\ Kind(c) = "login"
    /\ Decide(c, Matches(c))
    /\ Goto(c, "bcrypt")
    /\ UNCHANGED <<account, inbox, lost, call, answer, earlier, setters, before,
                   overtaken>>
LoginRead(c) ==
    /\ pc[c] = "read" /\ Kind(c) = "login"
    /\ Decide(c, Matches(c) /\ account.verified)
    /\ Goto(c, "bcrypt")
    /\ UNCHANGED <<account, inbox, lost, call, answer, earlier, setters, before,
                   overtaken>>

LoginFinish(c) ==
    /\ pc[c] = "bcrypt"
    /\ Finish(c, IF admits[c] THEN "admitted" ELSE "error")
    /\ UNCHANGED <<account, inbox, lost, call, admits, history>>

-----------------------------------------------------------------------------
(* The reads of forgot_password and change_password *)

\* An address without an account gets the answer a reset gets.
ForgotRead_mailsFirst(c) ==
    /\ pc[c] = "read" /\ Kind(c) = "forgot"
    /\ IF account = None
       THEN Finish(c, "ok") /\ UNCHANGED inbox
       ELSE Goto(c, "write") /\ inbox' = inbox \cup {c} /\ UNCHANGED answer
    /\ UNCHANGED <<account, lost, call, admits, history>>
ForgotRead(c) ==
    /\ pc[c] = "read" /\ Kind(c) = "forgot"
    /\ IF account = None
       THEN Finish(c, "ok")
       ELSE Goto(c, "write") /\ UNCHANGED answer
    /\ UNCHANGED <<account, inbox, lost, call, admits, history>>

\* The current password is verified against the row read; hashing the new one
\* then takes as long again.  No row, or a hash that is none, is an error.
ChangeRead(c) ==
    /\ pc[c] = "read" /\ Kind(c) = "change"
    /\ Decide(c, Matches(c))
    /\ IF Matches(c)
       THEN Goto(c, "write") /\ UNCHANGED answer
       ELSE Finish(c, "error")
    /\ UNCHANGED <<account, inbox, lost, call, earlier, setters, before, overtaken>>

-----------------------------------------------------------------------------
(* The four statements that write.  None looks at what its call has read.  *)

\* What the properties remember of a statement that sets the password.
NoteSetter(c) ==
    /\ setters' = setters \cup {c}
    /\ before' = [before EXCEPT ![c] = setters]

NewRow(c) == [owner |-> c, password |-> New(c), verified |-> FALSE, token |-> c,
              expired |-> FALSE]

\* INSERT: the unique index on email refuses a second row.
RegisterWrite_upsert(c) ==
    /\ account' = NewRow(c)
    /\ NoteSetter(c)
    /\ UNCHANGED <<proved, overtaken>>
RegisterWrite(c) ==
    /\ account = None
    /\ account' = NewRow(c)
    /\ NoteSetter(c)
    /\ UNCHANGED <<proved, overtaken>>

\* UPDATE ... WHERE the token is right and unexpired and the address not verified.
VerifyWrite_emptiesToken(c) ==
    /\ account # None
    /\ account.token = Secret(c) /\ account.token # None
    /\ ~ account.expired /\ ~ account.verified
    /\ account' = [account EXCEPT !.verified = TRUE, !.token = ""]
    /\ proved' = TRUE
    /\ UNCHANGED <<setters, before, overtaken>>
VerifyWrite(c) ==
    /\ account # None
    /\ account.token = Secret(c) /\ account.token # None
    /\ ~ account.expired /\ ~ account.verified
    /\ account' = [account EXCEPT !.verified = TRUE, !.token = None]
    /\ proved' = TRUE
    /\ UNCHANGED <<setters, before, overtaken>>

\* The new password is compared with nothing: it may be the one it replaces.
SetPassword(c, verified) ==
    /\ account' = [account EXCEPT !.password = New(c), !.verified = verified]
    /\ NoteSetter(c)

ForgotWrite_stillUnverified(c) ==
    /\ SetPassword(c, account.verified)
    /\ UNCHANGED <<proved, overtaken>>
ForgotWrite(c) ==
    /\ SetPassword(c, TRUE)
    /\ UNCHANGED <<proved, overtaken>>

\* The password in force may be that of a reset applied since ChangeRead.
Overtakes(c) ==
    account.password # Secret(c) /\ account.password \in Calls

ChangeWrite_lost(c) ==
    /\ UNCHANGED <<account, setters, before, proved>>
    /\ overtaken' = (overtaken \/ Overtakes(c))
ChangeWrite(c) ==
    /\ SetPassword(c, account.verified)
    /\ overtaken' = (overtaken \/ Overtakes(c))
    /\ UNCHANGED proved

Apply(c) ==
    \/ Kind(c) = "register" /\ RegisterWrite(c)
    \/ Kind(c) = "verify" /\ VerifyWrite(c)
    \/ Kind(c) = "forgot" /\ ForgotWrite(c)
    \/ Kind(c) = "change" /\ ChangeWrite(c)

Mails(c) == Kind(c) \in {"register", "forgot"}

\* The statement is applied and its result comes back, or is lost, and then no
\* mail is sent either.  A statement that is not applied is Fail.
Write(c) ==
    /\ pc[c] = "write"
    /\ Apply(c)
    /\ \/ /\ Mails(c)
          /\ Goto(c, "mail")
          /\ UNCHANGED <<answer, lost>>
       \/ /\ ~ Mails(c)
          /\ Finish(c, IF Kind(c) = "verify" THEN "verified" ELSE "changed")
          /\ UNCHANGED lost
       \/ /\ Finish(c, "error")
          /\ lost' = IF Mails(c) THEN lost \cup {c} ELSE lost
    /\ UNCHANGED <<inbox, call, admits, earlier>>

\* 23505 from the unique index: EMAIL_CONFLICT.
Conflict(c) ==
    /\ pc[c] = "write" /\ Kind(c) = "register"
    /\ account # None
    /\ Finish(c, "conflict")
    /\ UNCHANGED <<account, inbox, lost, call, admits, history>>

-----------------------------------------------------------------------------
(* email::send: a failure is logged, and without SMTP settings nothing is   *)
(* sent at all; the caller is told the same.                                *)

Delivery(c) ==
    \/ inbox' = inbox \cup {c} /\ UNCHANGED lost
    \/ lost' = lost \cup {c} /\ UNCHANGED inbox

Mail(c) ==
    /\ pc[c] = "mail"
    /\ Delivery(c)
    /\ Finish(c, IF Kind(c) = "register" THEN "created" ELSE "ok")
    /\ UNCHANGED <<account, call, admits, history>>

\* The caller hangs up or the process is killed: a statement or a mail that was
\* under way takes effect or does not.
Drop(c) ==
    /\ \/ /\ pc[c] \in {"read", "bcrypt", "write"}
          /\ UNCHANGED <<account, lost, inbox, setters, before, proved, overtaken>>
       \/ /\ pc[c] = "write"
          /\ Apply(c)
          /\ lost' = IF Mails(c) THEN lost \cup {c} ELSE lost
          /\ UNCHANGED inbox
       \/ /\ pc[c] = "mail"
          /\ Delivery(c)
          /\ UNCHANGED <<account, setters, before, proved, overtaken>>
    /\ Goto(c, "dropped")
    /\ UNCHANGED <<call, admits, answer, earlier>>

\* email_verification_expires_at passes.
TokenExpires ==
    /\ account # None
    /\ account.token # None /\ ~ account.expired
    /\ account' = [account EXCEPT !.expired = TRUE]
    /\ UNCHANGED <<inbox, lost, pc, call, admits, answer, history>>

Next ==
    \/ \E c \in Calls :
          \/ Arrive(c) \/ Fail(c) \/ LoginRead(c) \/ LoginFinish(c)
          \/ ForgotRead(c) \/ ChangeRead(c) \/ Write(c) \/ Conflict(c)
          \/ Mail(c) \/ Drop(c)
    \/ TokenExpires

Spec == Init /\ [][Next]_vars
-----------------------------------------------------------------------------
(* Properties *)

\* Every variable holds a value of its type.
TypeOK ==
    /\ account \in Row \cup {None}
    /\ inbox \subseteq Calls /\ lost \subseteq Calls
    /\ pc \in [Calls -> Stages]
    /\ call \in [Calls -> Call]
    /\ admits \in [Calls -> BOOLEAN]
    /\ answer \in [Calls -> Answers]
    /\ earlier \in [Calls -> SUBSET Calls]
    /\ setters \subseteq Calls
    /\ before \in [Calls -> SUBSET Calls]
    /\ proved \in BOOLEAN /\ overtaken \in BOOLEAN

\* A change was answered, or a reset's mail came.
Announced(d) == answer[d] = "changed" \/ (Kind(d) = "forgot" /\ d \in inbox)

\* The calls that have set the password with d or after it, and that had not been
\* answered when d arrived.
SetSince(d) == setters \ (before[d] \cup earlier[d])

\* Once a change has been answered, or a reset's mail has come, a login or change
\* that arrives later is let in only with a password that was set with it or
\* after it.  Neither the old password nor an earlier one is, unless somebody
\* chose it again (auth.rs:565 compares the new one with nothing); what other
\* calls were writing meanwhile makes no difference.
ReplacedPasswordStaysOut ==
    \A c, d \in Calls :
        admits[c] /\ d \in earlier[c] /\ Announced(d)
        => \E w \in SetSince(d) : Secret(c) = New(w)

\* auth.rs:205: a password alone opens no session of an address nobody has shown
\* to read.  Somebody used the mailed token or a mailed password before, unless
\* a change that had verified an older password overwrote a reset, which is
\* what marked the address as verified (auth.rs:535, 595).
SessionNeedsMailbox ==
    \A c \in Calls : answer[c] = "admitted" => proved \/ overtaken

\* Two registrations of one address may overlap, and each runs bcrypt before it
\* knows: the one answered with credentials is the one whose credentials the
\* row holds, then and ever after (auth.rs:142-168).
CreatedOwnsAccount ==
    \A c \in Calls : answer[c] = "created" =>
        account # None /\ account.owner = c

\* A password that was announced, by the answer of a change or by the mail of a
\* reset, is in force unless a call that overlapped that one, or came later,
\* has replaced it: never one set only by calls that had succeeded before.
AnnouncedPasswordHolds ==
    \A c \in Calls :
        Announced(c) => \E w \in SetSince(c) : account.password = New(w)

\* The calls whose mail tells its reader something, now or when it comes.
Told == inbox \cup {c \in Calls : pc[c] = "mail"}

\* The owner can get in, at once or with a mail on its way: somebody can type the
\* password in force, and the address is verified or its token can still be used.
\* Only three things take that away: the mail of a reset was lost; or nobody has
\* reset the password, and the token's mail was lost or its 24 h passed.  A reset
\* whose mail comes gives it back (auth.rs:143-164, 496, 534-556).
LockoutHasACause ==
    account # None =>
        /\ \/ account.password \in Passwords \cup Told \cup lost
           \/ account.password = None /\ account.owner = None
        /\ \/ account.verified
           \/ /\ setters \cap Of("forgot") = {}
              /\ \/ account.expired
                 \/ account.token \in Told \cup lost
=============================================================================
