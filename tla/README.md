# Verification of the CaaS API

TLA+ modules, TLC runs and TLAPS proofs about the service in this repository: an
HTTP API (Axum) that authenticates integrators, checks their signatures, answers
retries from a cache and queues token operations on RabbitMQ; and the developer
portal's calls on accounts. Paths below are relative to the repository's root,
line numbers are of the code the modules were written from.

## The system

One process serves every request as a Tokio task. What tasks share is outside the
process: two Postgres tables (`developer_clients`, `api_requests`), Redis (cached
responses, 24 h), one RabbitMQ connection, SMTP. There is no lock and no
transaction anywhere: whatever happens between two awaits of one request can
interleave with every other request. Three more facts decide what can happen:

- when a caller hangs up, hyper drops the request's future at the await it is
  suspended at; tasks started with `tokio::spawn` go on;
- a deployment stops the old container and starts a new one
  (`.github/workflows/deploy.yml:55-83`): requests under way and spawned tasks end;
- `RabbitMqService` opens one connection at start-up and never another
  (`src/services/rabbitmq.rs:6-24`), and publishes without publisher confirms
  (`:36-47`).

| Component | State | Operations | Hard part | What makes it correct |
|---|---|---|---|---|
| Middleware stack (`routes/mod.rs`, `middleware/*`) | cache, `api_requests`, spawned inserts | the five layers around a business request | overlapping requests with one key; a drop, restart or Redis failure between publish and cache; a salt replaced meanwhile | retries replay, replays stay in their scope, only fresh signatures queue work, billing agrees with the work |
| RabbitMQ publishing (`services/rabbitmq.rs`) | the connection | `channel`, `publish` | lost publishes, a lost connection | every request still comes to an end |
| Operation handlers (`routes/tokens.rs`, `routes/users.rs`) | none | validate, publish, answer | boundaries of the validation, fields nobody looks at, messages of one event | nothing is queued for what is no address, messages tell operations apart, and retries by the body's key |
| TOTP and login (`services/auth.rs:174-408`) | `totp_secret`, `totp_enabled` | setup, confirm, disable, login, verify-login | read, verify, then a blind UPDATE; a login decided from a row read before bcrypt | no success without a row that justified it; 2FA never on with a secret nobody confirmed |
| Accounts and passwords (`services/auth.rs:107-172,487-609`) | `password_hash`, verification token, mails | register, verify, forgot, change | mail after the UPDATE, changes across a reset, passwords chosen again, a token of 24 h | a session needs the mailbox, a replaced password stays out, a lockout has a cause |
| Client credentials and tokens (`services/auth.rs:58-105,422-466`) | `client_secret_hash`, `api_salt`, `is_active`, tokens in circulation | token, rotate, regenerate | tokens outlive what they were issued for; answers out of order | a rotated secret buys no new token |
| Redis pool (`main.rs:64-69`) | connections in use | taken for the GET, taken again for the SET EX | a full pool without a wait timeout | a connection is given back before its request waits for anything else |
| Request statistics (`services/auth.rs:468-485`) | `api_requests` | count and list | two statements, no snapshot; rows that commit in another order than their `created_at` | the total and the list fit one set of the client's rows |
| Validation (`validation.rs`) | none | pure functions | boundaries, bytes against characters, letters without case | the address and password checks, the comparison and the signature meet their reference definitions |
| Errors, models, configuration, start-up, mail templates, health, migrations, CI | constants | | | (set-up and I/O, modelled only as far as the above needs them) |

Interactions: the layers call each other in the order `require_auth ->
track_request -> validate_signature -> idempotency -> handler -> publish` and
return in the opposite one; `validate_signature` reads the `api_salt` that
`regenerate_salt` writes from the portal; `track_request` spawns the insert whose
rows `get_request_stats` reads; TOTP, login, password and credential calls meet
only in the account's row, and in the tokens they issue and are let in with.

## Modules

| Module | What it is |
|---|---|
| `OperationLedger` | abstract specification: what integrators are promised, without cache, signature or broker |
| `RequestPipeline` | the middleware stack, the handlers' common shape, publishing, and what happens around them |
| `MCRequestPipeline` | instances of it: symmetry, and which requests may arrive |
| `RequestPipelineProofs` | inductive invariant and safety theorems |
| `RequestPipelineRefinement` | proof that `RequestPipeline` implements `OperationLedger` |
| `TwoFactor` | TOTP operations and the two-step login on one account's row |
| `MCTwoFactor` | instance of it: symmetry |
| `TwoFactorProofs` | inductive invariant and safety theorems |
| `Credential` | abstract specification of a generated secret kept as a hash: a replaced one never returns, a call is let in only with the current one |
| `PasswordAccount` | registration, verification, login, reset and change on one address, and their mails |
| `ClientCredentials` | client secret, salt, tokens and challenges of one account against the clock; its client secret implements `Credential` |
| `PooledPipeline` | `RequestPipeline` with the connections of the Redis pool |
| `BusinessService` | `PooledPipeline` beside the portal's `get_request_stats`; every step is one of `RequestPipeline` or a stutter |
| `Validation` | the functions of `validation.rs` and their reference definitions |
| `OperationHandlers` | `RequestPipeline` with the nine handlers in the place of its `Handle` |
| `PasswordAccountProofs` | inductive invariant and safety theorems |
| `ClientCredentialsProofs` | inductive invariant, safety theorems and the refinement of `Credential` |
| `BusinessServiceProofs` | the refinement of `RequestPipeline`; safety theorems of the pool and the statistics |
| `ValidationProofs` | the address and password checks, the comparison and the signature against their reference definitions, on texts of any length |
| `OperationHandlersProofs` | the refinement of `RequestPipeline`; safety theorems of the handlers |
| `MCPasswordAccount`, `MCClientCredentials`, `MCBusinessService`, `MCOperationHandlers` | instances of them: symmetry, and which requests may arrive |

Operators named after another one with a suffix (`IdempotencyStore_skipped`,
`ReadSalt_headerOptional`, ...) stand just before the definition they are a faulty
variant of. No specification uses
them; substituted for the original, each makes a property fail, which shows that
the property depends on that part of the code.

### RequestPipeline

`pc[r]` is the await request `r` is suspended at; an action is the code from one
await to the next.

| Action | Code |
|---|---|
| `RequireAuth` | `middleware/auth.rs:13-45`; then `track_request` and `validate_signature` up to the salt query, which need no await |
| `ReadSalt` | `signature.rs:25-62`: the query's result, the empty salt, the missing header |
| `CheckSignature` | `signature.rs:64-86`: the buffered body, the comparison with the salt read before |
| `IdempotencyLookup` | `idempotency.rs:14-53`: no key, hit, miss, Redis failure as a miss |
| `Handle` | a handler of `tokens.rs`/`users.rs` up to the channel: 400, 500, or on |
| `Publish` | `rabbitmq.rs:36-49`: answered when the frames are written; accepted by the broker or not |
| `IdempotencyStore` | `idempotency.rs:53-69`: SET EX on success only, its failure ignored |
| `Respond`, `RecordRequest` | `request_tracker.rs:20-51`: the spawn, and the spawned INSERT |
| `RegenerateSalt` | `services/auth.rs:448-466` |
| `Disconnect`, `Restart`, `LoseConnection`, `Expire` | hang-up, deployment, lost connection, TTL |

Abstractions: a request carries a client (or a token that does not decode), a key
or none, the salt version it was signed with, and whether validation accepts it;
payloads, endpoints and headers beyond these change nothing in the stack. An
operation is named after the request whose `publish` minted its UUID, a response
is its status, operation id and replay flag. Client errors other than 401 (a body
that is not JSON, a failed validation) are all status 400. `api_salt` is a version
number, 0 for the empty salt of legacy accounts; a signature is the version it was
computed with, so hashing is taken as injective. The cached bodies are small: the
10 MB limit of `to_bytes` cannot be reached behind the 1 MB limit of `main.rs:83`.
The variables `earlier`, `salt_on_arrival` and `faulted` are history: properties
read them, actions do not.

### TwoFactor

Each call is a sequence read, (bcrypt), write; the row is all they share. A secret
is the number of the setup that generated it, a code is named after the secret it
was computed from. `SetupWrite`, `ConfirmWrite` and `DisableWrite` are the three
UPDATE statements, applied by `Write` (answered, or the result is lost) or by
`Drop` (the caller is gone, the statement may still run). `LoginRead`/`LoginFinish`
are `login_developer` before and after bcrypt, `VerifyLogin` is
`totp_verify_login`. A wrong password, an expired challenge, an unverified e-mail
and a failing statement are the action `Fail`. Codes are valid or not for a secret;
their 30 s window is not modelled (an expired code is code 0).

### PasswordAccount

Registration and change choose a password, any that somebody can type: also the
current one, a former one or a temporary one out of a mail, for `change_password`
compares the new password with nothing. A reset generates one, named after its call;
a verification token is named after its registration. An account is missing, legacy (empty hash, taken as verified by
migration 0005) or written by one of the four statements `RegisterWrite`,
`VerifyWrite`, `ForgotWrite`, `ChangeWrite`; none of them looks at what its call has
read, which is what makes overlapping calls interesting.

| Action | Code |
|---|---|
| `Arrive`, `Fail` | a call with a secret somebody can know, or a wrong one; validation, a statement or a bcrypt task that fails |
| `LoginRead`, `LoginFinish` | `auth.rs:181-193`, and after bcrypt `:195-228` |
| `ForgotRead`, `ChangeRead` | the SELECTs of `:517-522` and `:571-576`, with what follows up to the UPDATE |
| `Write`, `Conflict` | the INSERT or UPDATE (`:127-142`, `:488-501`, `:534-540`, `:595-601`), its result known or lost; the unique index (`:167`) |
| `Mail` | `email::send` (`email.rs:8-42`): delivered, or lost and only logged |
| `Drop` | a hang-up or a kill at any await; the statement or mail under way takes effect or does not |

What can be presented is what somebody knows: a chosen password, or a token or a
temporary password whose mail was delivered. `expired` says that the 24 h of the row's
verification token are over, after which `VerifyWrite` matches no row; `TokenExpires`
lets them pass. A password that comes back makes "the old password stays out" a
statement about statements, not values: `setters` and `before` remember in which order
the calls set it, and who is let in must show a password set with or after the one
announced. `setters`, `before`, `proved` and `overtaken` are history, the last two for
`SessionNeedsMailbox`: a
change whose old password was verified before a reset may overwrite the reset, and
then the reset's `is_email_verified = TRUE` stays although its mail may never have
been read. TLC finds that case as soon as the exemption is removed.

### ClientCredentials

Secrets, salts and tokens are named after the call that generated them. `Arrive` is
`require_auth` (or the challenge's check) with the call's own routing; `TokenRead`,
`LoginRead` and `Issue` are `authenticate`, `login_developer` and
`totp_verify_login` before and after their last await, so that a token's `iat` is
later than the row it rests on; `Write` is the UPDATE of `rotate_secret` or
`regenerate_salt`; `GetMe` reads the row. Nothing but expiry ends a token. A token
or a challenge is accepted as `jsonwebtoken` accepts it, up to and including its
expiry plus `Leeway`, which is an external default. `Deactivate` is an operator's
UPDATE: the service itself never clears `is_active`. `Tick` advances one clock.

### PooledPipeline and BusinessService

`held` is the set of connections in use. `GetConnection` is `pool.get`, which waits
as long as the pool is empty; `Lookup`, `Store`, `Leave` and `PoolDisconnect` are
the actions of `RequestPipeline` that give connections back. `BusinessService` adds
`query`, the calls of `get_request_stats` (`AskStats`, `CountRows`, `ListRows`,
`StatsFail`), and `recorded`, the spawned INSERTs in the order of their `created_at`,
which Postgres takes at the start of the statement's transaction (`StampRow`). The row
is seen only when it is committed: that is `InsertRow`, `RecordRequest` of the pipeline,
in any order, and it may not come at all. Two rows are taken to differ in `created_at`;
the code orders by nothing else, so rows of one microsecond may be listed either way. A
list is the set of the places its rows have in `recorded`. `StatsAgree` gives a list and
a total one set of rows to be of, and that set may miss rows that committed late, but
none that its client had when it asked. `PipelineSpec` states that the composition
refines `RequestPipeline`, with the identity as the mapping: its safety theorems
hold here too.

### Validation and OperationHandlers

A text is a sequence over nine characters, with a member of every class the checks
tell apart, two of them of two bytes, one of these a letter without case, and "@" for
all that are neither letters nor digits; the length of an address is a parameter. The
regular expression of `is_safe_text` is data: `Injections` is the set of texts it
finds something in. A byte is the set of its bits, SHA-256 a tag, so it is injective.
`is_safe_text` has no reference definition beside that set. `is_amount_string` is left
out, for nothing calls it: the amounts of mint, burn, transfer and token balances are
queued as they come, which the instance shows with a negative one.

Each of the nine handlers is an action (`Deploy`, `Mint`, ... `AddTokenBalance`):
its checks (`DeployAccepts`, `MoveAccepts`, ...) decide between the answer 400 and the
message, whose exchange, event, idempotencyKey and payload `sent` keeps.
`HasItsFields` says which fields the body and path of each endpoint have, as the
request types do; what is not decoded is a client error of the pipeline. The handlers read
nothing but the request, so `Arrive` ties `wellFormed` of `RequestPipeline` to the
checks. The `X-Idempotency-Key` header and the body's `idempotency_key` are two
different keys, as in the code: the first is the cache's, the second the message's,
and where the body has none it is a fresh UUID, which no body has.
`metadata_uri` is part of what `deploy` is asked and of no message, and neither is the
client: `MessagesIdentifyOperations` says what a consumer cannot tell as well as what it
can. Left out on both sides: network, token standard, supply and e-mail address, which
the message repeats, and the time.

A key of the header is its client's for every endpoint and body (`idempotency.rs:33`): a
client that uses one key for two operations is told of the first. The code defines the
cache so and nothing promises more, so no property is about it.

## Runs

| Run | Instance | Shows |
|---|---|---|
| `pipeline_replay` | 3 requests, 1 client, 1 key, no salt | `TypeOK`, `SequentialRetryIsReplayed`, `BillingMatchesWork`, `OverwriteOnlyByOverlap` |
| `pipeline_signature` | 2 requests of any kind, 1 client, 1 key, 3 salt versions | `FreshSignature` |
| `pipeline_ledger` | 2 requests, 2 clients with the same key, valid and invalid bodies, fairness | `ReplayNamesOwnScope`, `LedgerSpec`, `RequestsSettle` |
| `pipeline_billing` | 2 requests | violated: `EveryAuthenticatedRequestIsRecorded` |
| `pipeline_queued` | 2 requests | violated: `QueuedIsOnTheExchange` |
| `two_factor` | 4 calls, 2 setups | `TypeOK`, `AnswersMatchSomeMoment`, `SecretLostOnlyByCrossing`, `UnconfirmedOnlyByOverwrite` |
| `two_factor_new_secret` | 3 calls | violated: `NewSecretNotYetEnabled` |
| `two_factor_disable` | 3 calls | violated: `DisableTakesEffect` |
| `password_account` | 4 calls of any kind on one address, 2 passwords to choose | `TypeOK`, `ReplacedPasswordStaysOut`, `SessionNeedsMailbox`, `CreatedOwnsAccount`, `AnnouncedPasswordHolds`, `LockoutHasACause` |
| `client_credentials` | 4 calls of any kind, tokens of 1 tick, challenges of 0, 3 instants | `TypeOK`, `RotatedSecretStaysOut`, `AnnouncedSecretsHold`, `PortalShowsCurrentSalt`, `SecretSpec`, `DeactivationEndsAccess` |
| `business_service` | 2 requests of one client with one key, 1 connection, 1 query by this client or another, a list of 1 row, fairness | `ServiceTypeOK`, `ConnectionsAreReturned`, `StatsAgree`, `TotalCountsAnswered`, `PipelineSpec`, `ServiceSettles` |
| `operation_handlers` | 2 requests of either of 2 clients under a key, one asking any of 53 things of the nine endpoints, addresses of 4 characters | `HandlersTypeOK`, `ValidatorsMeetReference`, `AddressesAreChecked`, `MessagesIdentifyOperations` |

Why the bounds are enough. The replay properties relate two requests of one scope,
and a third can be in flight between them; scopes do not influence each other
except through a shared cache key, which the two clients of `pipeline_ledger` show.
`FreshSignature` is about one request and the salt's history, of which three
versions give an older, a current and a newer one; the second request brings in the
cache. Two clients and invalid bodies appear in the ledger run, rejected tokens and
`RegenerateSalt` in the signature run. In `TwoFactor` a race needs two calls in
progress; four leave room for a setup and a confirm before it. In
`PasswordAccount` four calls are a registration, two that race and one that meets
what they left, or a password, another, the first again and a login; two passwords are
the fewest for that. In `ClientCredentials` a login that buys the tokens, two rotations and
a call with the first one's secret. Three instants see a token valid, at its end and
expired. One Redis connection is the smallest pool, and two requests are enough to
wait for each other; the rows of two requests can begin and commit in either order, a
list of one row is shorter than the two there can be, and a client without requests
shows that nobody is told of another's rows. In
`operation_handlers` one request varies everything, one field at a time at, over
and under its bound; the other asks what may be confused with it. The theorems below
have no bounds. Runs do not check deadlock: callers may stop sending, and an
instance ends when its requests are used up. Safety runs use symmetry, the liveness
run does not.

Fairness. `FairSpec` asks for weak fairness of each request's own step and of its
spawned insert: Tokio polls every task that is ready, and a pending call to
Postgres, Redis or RabbitMQ is taken to return a result or an error. The code sets
no timeouts, so a peer that holds a connection open and never answers is outside
`RequestsSettle`. Nothing is assumed of callers, restarts, losses, expiry.
`ServiceFairness` adds that a free Redis connection goes to a request that waits for
one (deadpool's semaphore is first come, first served), which makes `ServiceSettles`
a property of who keeps connections for how long. Of `PasswordAccount` and
`ClientCredentials` no liveness is stated: their calls have no loops and wait for
nothing but Postgres, bcrypt and SMTP.

### Where code and documentation differ

- `request_tracker.rs:5` promises a billing row for every authenticated request.
  The row is inserted by a detached task whose failure is only logged, and not at
  all for a request dropped or cut short by a restart, even after its publish.
- `README.md:87` answers write endpoints with status "queued". Without confirms the
  message can be lost between the socket and the broker.
- `services/auth.rs:263` calls the secret of a setup "not yet enabled", and the
  answer says `totp_enabled: false`. On an account with 2FA on the new secret is in
  force at once.
- `services/auth.rs:326`, "disable 2FA": a confirm that read the row before the
  disable writes after it, and 2FA is on again with a NULL secret; no code is right
  any more and disable itself refuses.

Each of these is a run's counterexample. A fifth is read from the source and needs no
run: `models/user.rs:38` calls the amount of a token balance a "wei string" and
`CONTRIBUTING.md:25` has all inputs validated, but nothing looks at it, nor at the
amounts of mint, burn and transfer, although `validation.rs:37` has the check.

## Proofs

Every invariant, action property and refinement that a passing run checks is a
theorem, for every finite or infinite set of requests, clients, keys, calls and
queries, any number of salts and secrets, any pool, list and text lengths and any
lifetimes. The assumptions are those of the constants:

| Assumption | Says |
|---|---|
| `PipelineAssumption`, `TwoFactorAssumption`, `PasswordAssumption`, `CredentialsAssumption` | `None` is no value of another kind, bounds and lifetimes are naturals, the inputs are calls and requests; nobody chooses the generated password of a reset before its mail tells it |
| `PoolAssumption`, `StatsAssumption` | the pool has a connection at least; the list limit is a natural |
| `ValidationAssumption` | an address has room for its "0x"; texts are sequences of characters, bytes sets of bits |
| `HandlersAssumption` | each request asks for works with the fields of their endpoint; a generated key (a fresh UUID) is in no body |

| Theorem | States |
|---|---|
| `RequestPipelineProofs!TypeCorrect` | `Spec => []TypeOK` |
| `ReplayCorrect` | `Spec => []ReplayNamesOwnScope` |
| `RetryCorrect` | `Spec => []SequentialRetryIsReplayed` |
| `OverwriteCorrect` | `Spec => OverwriteOnlyByOverlap` |
| `SignatureCorrect` | `Spec => []FreshSignature` |
| `BillingCorrect` | `Spec => []BillingMatchesWork` |
| `RequestPipelineRefinement!Refinement` | `Spec => LedgerSpec` |
| `TwoFactorProofs!TypeCorrect`, `AnswersCorrect`, `SecretCorrect`, `ConfirmedCorrect` | `TypeOK` and the three safety properties of `TwoFactor` |
| `PasswordAccountProofs!TypeCorrect`, `ReplacedCorrect`, `MailboxCorrect`, `OwnerCorrect`, `AnnouncedCorrect`, `LockoutCorrect` | `TypeOK`, `ReplacedPasswordStaysOut`, `SessionNeedsMailbox`, `CreatedOwnsAccount`, `AnnouncedPasswordHolds`, `LockoutHasACause` |
| `ClientCredentialsProofs!TypeCorrect`, `RotatedCorrect`, `AnnouncedCorrect`, `PortalCorrect` | `TypeOK`, `RotatedSecretStaysOut`, `AnnouncedSecretsHold`, `PortalShowsCurrentSalt` |
| `DeactivationCorrect`, `SecretRefinement` | `Spec => DeactivationEndsAccess`; `Spec => SecretSpec`: the client secret implements `Credential` |
| `PoolRefinement`, `HandlersRefinement` | `ServiceSpec => PipelineSpec`, `HandlersSpec => Spec`: both compositions implement `RequestPipeline` |
| `ServiceTypeCorrect`, `ConnectionsCorrect`, `StatsCorrect`, `TotalCorrect` | `ServiceTypeOK`, `ConnectionsAreReturned`, `StatsAgree`, `TotalCountsAnswered` |
| `ComparisonCorrect`, `SignatureInjective`, `TextChecksCorrect` | `ComparisonIsEquality`, `SignatureIsInjective`, `TextChecksAreRight` of every text |
| `HandlersTypeCorrect`, `ValidatorsCorrect`, `AddressesCorrect`, `MessagesCorrect` | `HandlersTypeOK`, `ValidatorsMeetReference`, `AddressesAreChecked`, `MessagesIdentifyOperations` |

None of the properties is inductive. The proofs all go the same way: an inductive
invariant says what each stage of a call knows, a lemma derives from the actions the
few *effects* the other proofs need (what a step may do to the row, to a call, to
the cache), and the invariant's conjuncts are proved from the effects, not from the
actions.

The pipeline. That a retry is replayed depends on the entry being in Redis, which
depends on the order of publish, SET EX and answer. `Outcome` says what a response
can be at each stage and that only a request past its publish is on the exchange;
`CacheSound` that an entry of a scope is an operation a request of that scope ran;
`StoredBeforeAnswer` that a keyed success leaves the idempotency layer with its entry
in place, or its scope `faulted`; `RetryStops` that a later request of that scope
therefore never reaches the handler; `SaltSeen` that the salt a request is checked
against was current at or after its arrival; `RowsSound` that a billing row says what
became of its request. The effects are `ResponseEffect`, `StageEffect`, `CacheEffect`,
`AnswerEffect` and `TrackEffect`.

The refinement maps `executed` to the requests on the exchange or with an own
operation in their answer (an answered publish may be lost: the ledger's word is
what the service took on, not what the broker has), and `told` to the operation ids
of finished requests. Each step is `Arrive`, `Execute`, `TellOwn`, `TellShared` or
a stutter; `TellShared` is enabled because of `ReplaySound`.

2FA. `Watching` says that a call in progress has seen the row as it is; `Checked`
that a call about to write was right when it read; `Pending` that while a confirm is
about to write, the row holds the secret it verified, or was overwritten by a setup,
or emptied by a disable. The last is what makes the two exceptions of the properties
the only ones.

Passwords. The order in which the statements set the password carries everything:
`Ordered` says that `before` is a linear order of `setters` in which a call comes after
those it had seen succeed, and `LastInForce` that the password in force is the last
one's. So a login or change that read the row was let in with the password of the last
setter then, which is not before any call that had succeeded when it arrived and had
set one (`ShownSince`); what is announced has been set (`HasSet`), once (`SetOnce`), and
only later statements replace it. `SessionNeedsMailbox` needs `Mailbox`, which follows
the mark `is_email_verified` back to a mail: a verified address has had its mail read, or
its password is one only a mail tells, or a change overtook a reset. `Owner` needs that
a registration that goes on to its mail is the one whose INSERT the index let through.
`LockoutHasACause` is inductive once `Chosen` says that who chooses a password can type
it: a reset replaces both password and mark, and only expiry and lost mails close a way.

Client secrets. A secret is named after the call that generated it, and `SetOnce` says
that this call is then past its statement: so what is set is fresh, and what is retired
(`Spent` without the current one) never returns. That is `Replace` of `Credential`;
`Admit` is the read in which an authenticate found the row's hash to be of the secret it
shows. `DeactivationEndsAccess` needs `ActiveOnArrival`, that `is_active` is read after a
call arrives and never set again, and `ContinuesLogin`, that the verify of a challenge
was let in later than its login.

Pool and statistics. Each action of the composition is one of `RequestPipeline` or
leaves its variables alone, so `IInv` of the pipeline is at hand. Of the pool, every
step that moves a request on gives its connection back, and only a request about to
call Redis takes one, when there is one. Of the table, `RecordedOnce` says that a
request has one INSERT at most and a row only after its tracker ran, and `RowsGrow`
that rows keep their places and their client, while others may appear between them; a
total that was true once is then a lower bound ever after (`StillCounted`), and the set
that `StatsAgree` asks for is that of the rows committed when the list was read.
Requests may be infinitely many: `FinitelyMany` says that those that have started are
not, which is what counting needs.

Validation and handlers. A well-formed address by `is_evm_address` has as many bytes as
characters, since its digits are of one byte; a text has a character of a class exactly
if it cannot be written without the class; a digest that is injective makes the
signature so, and equality of byte strings is what the fold of differences computes.
`HandlersInv` says that a request was judged by its checks when it came (`Judged`),
that nothing else is a 400 (`Refused`), and that what is on its way to the exchange
says what its request asks (`SaysTheAsk`): exchange, event, type and payload are then
shown to hold every field of an endpoint's operation (`SaysIdentifies`), so no two
operations make one message.

Only model-checked: `RequestsSettle` and `ServiceSettles`, which are liveness under
fairness, out of the prover's reach. The four counterexamples above are TLC's. The bounds that remain in the modules (`MaxSalt`, `MaxSecrets`,
`MaxTime`) are constants the theorems hold for every value of.

## Plan

Written: every operation of the service that changes state. Proved: every safety
property of the passing runs. What is left, in this order:

1. The abstract specifications themselves: that `Credential` never lets in with a
   retired secret, that `OperationLedger` tells nobody of another scope's operation;
   with the refinements these hold of the service.
2. What follows across components from the refinements: `RequestPipeline`'s theorems
   stated of `ServiceSpec` and `HandlersSpec`, where integrators meet them.
3. Shorter proofs where a lemma of one component serves another.

## Not modelled

- Templates and SMTP beyond delivered or lost; CORS, the body limit, tracing,
  Sentry: no state of the service depends on them.
- The environment's parsing, the Postgres pool and the migrations: they run once,
  before the first request; the modules start from what they leave.
- The health check: a constant answer.
- The regular expression of `is_safe_text`, SHA-256, bcrypt, HMAC and TOTP's
  arithmetic: data and libraries, taken as injective or as right or wrong.
- `TwoFactor` and `PasswordAccount` over one row as one module: they write disjoint
  columns, and the only call of both is the login, whose read each models with the
  columns it is about.
- Liveness when a peer keeps a connection open and never answers: the code sets no
  timeouts, so there is none.
