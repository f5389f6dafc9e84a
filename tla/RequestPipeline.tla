--------------------------- MODULE RequestPipeline ---------------------------
(***************************************************************************)
(* A business request (/v1/tokens, /v1/users) on its way through the       *)
(* middleware stack of routes/mod.rs, outermost layer first:               *)
(*                                                                         *)
(*   require_auth -> track_request -> validate_signature -> idempotency    *)
(*     -> handler -> RabbitMqService::publish                              *)
(*                                                                         *)
(* Every request is a task of its own; it gives up the processor at each   *)
(* await, and each stage of pc is one such await, but for "respond": the   *)
(* answer on its way out through track_request.  Around the requests:      *)
(* the developer_clients row (api_salt), the Redis response cache, the one *)
(* RabbitMQ connection, the exchange behind it, the api_requests table and *)
(* the tasks track_request spawns to fill it.                              *)
(*                                                                         *)
(* A request's operation_id is a fresh UUID minted by its own call of      *)
(* publish, so the model names the operation after the request.  Payloads  *)
(* are not modelled: validation either accepts a request or does not.      *)
(***************************************************************************)
EXTENDS Naturals, FiniteSets

CONSTANTS
    Requests,   \* every HTTP request that reaches the business routes
    Clients,    \* developer accounts: what Claims.sub ranges over
    Keys,       \* values of the X-Idempotency-Key header
    MaxSalt,    \* how many times a client may get a new api_salt (bound)
    Inputs,     \* what a request may carry: some of Request
    None

VARIABLES
    pc,              \* the await each request is suspended at
    req,             \* what each request carries, None until it arrives
    expected,        \* the api_salt a request read, while its body is buffered
    response,        \* the response as the handler and the layers built it
    api_salt,        \* developer_clients.api_salt, as a version; 0 is ''
    cache,           \* Redis: the operation_id in the cached body, per scope
    connected,       \* the lapin Connection is usable
    exchange,        \* message_ids of the messages RabbitMQ accepted
    trackers,        \* requests whose track_request task has not run yet
    api_requests     \* rows of the billing table

\* History: what the properties compare with.  No action reads them.
VARIABLES
    earlier,         \* the requests answered before this one arrived
    salt_on_arrival, \* the client's api_salt when the request arrived
    faulted          \* scopes whose entry expired or whose Redis call failed

server == <<pc, req, expected, response, trackers>>
stores == <<api_salt, cache, connected, exchange, api_requests>>
history == <<earlier, salt_on_arrival, faulted>>
vars == <<server, stores, history>>

-----------------------------------------------------------------------------
(* Requests, responses, scopes *)

\* client: the sub of the Bearer token, None when require_auth cannot decode it.
\* key: the X-Idempotency-Key header.  signedWith: the salt version X-Signature
\* was computed with (0: no header; not the client's: a wrong signature).
Request == [client : Clients \cup {None}, key : Keys \cup {None},
            signedWith : 0..MaxSalt, wellFormed : BOOLEAN]

\* What an X-Idempotency-Key is unique in.
Scopes == (Clients \cup {None}) \X (Keys \cup {None})

ASSUME PipelineAssumption ==
    /\ MaxSalt \in Nat
    /\ Inputs \subseteq Request
    /\ None \notin Requests \cup Clients \cup Keys \cup Request \cup Scopes

Status == {0, 200, 400, 401, 500}
Response == [status : Status, op : Requests \cup {None}, replayed : BOOLEAN]

NoResponse == [status |-> 0, op |-> None, replayed |-> FALSE]
Failure(s) == [status |-> s, op |-> None, replayed |-> FALSE]

Queued_accepted(r) == [status |-> 202, op |-> r, replayed |-> FALSE]
Queued(r) == [status |-> 200, op |-> r, replayed |-> FALSE]

Replay(o) == [status |-> 200, op |-> o, replayed |-> TRUE]

Redis_key_without_client(q) == <<None, q.key>>
Redis_key(q) == <<q.client, q.key>>

Scope(r) == IF req[r] = None THEN None ELSE <<req[r].client, req[r].key>>
Keyed(r) == req[r] # None /\ req[r].key # None

Stages == {"new", "salt", "body", "lookup", "handler", "send", "store",
           "respond", "done", "dropped"}
InFlight == Stages \ {"new", "done", "dropped"}
Awaiting == InFlight \ {"respond"}

Init ==
    /\ pc = [r \in Requests |-> "new"]
    /\ req = [r \in Requests |-> None]
    /\ expected = [r \in Requests |-> 0]
    /\ response = [r \in Requests |-> NoResponse]
    /\ api_salt \in [Clients -> {0, 1} \cap 0..MaxSalt]
    /\ cache = [s \in Scopes |-> None]
    /\ connected = TRUE
    /\ exchange = {}
    /\ trackers = {}
    /\ api_requests = {}
    /\ earlier = [r \in Requests |-> {}]
    /\ salt_on_arrival = [r \in Requests |-> 0]
    /\ faulted = {}

Goto(r, stage) == pc' = [pc EXCEPT ![r] = stage]

Build(r, resp, stage) ==
    /\ response' = [response EXCEPT ![r] = resp]
    /\ Goto(r, stage)

-----------------------------------------------------------------------------
(* The layers, one action per await *)

\* require_auth decodes the JWT and, on success, runs into track_request and
\* the salt query of validate_signature without an await in between.
RequireAuth(r) ==
    /\ pc[r] = "new"
    /\ \E q \in Inputs :
          /\ req' = [req EXCEPT ![r] = q]
          /\ IF q.client = None
             THEN /\ Build(r, Failure(401), "done")
                  /\ UNCHANGED salt_on_arrival
             ELSE /\ Goto(r, "salt")
                  /\ salt_on_arrival' =
                        [salt_on_arrival EXCEPT ![r] = api_salt[q.client]]
                  /\ UNCHANGED response
    /\ earlier' = [earlier EXCEPT ![r] = {a \in Requests : pc[a] = "done"}]
    /\ UNCHANGED <<expected, trackers, stores, faulted>>

\* The SELECT of validate_signature, and what follows it up to the next await:
\* a failed query and a missing header are 401, an empty salt skips the check.
ReadSalt_headerOptional(r) ==
    /\ pc[r] = "salt"
    /\ LET salt == api_salt[req[r].client] IN
       \/ /\ Build(r, Failure(401), "respond")
          /\ UNCHANGED expected
       \/ /\ req[r].signedWith = 0
          /\ Goto(r, "lookup")
          /\ UNCHANGED <<response, expected>>
       \/ /\ salt # 0 /\ req[r].signedWith # 0
          /\ expected' = [expected EXCEPT ![r] = salt]
          /\ Goto(r, "body")
          /\ UNCHANGED response
    /\ UNCHANGED <<req, trackers, stores, history>>
ReadSalt(r) ==
    /\ pc[r] = "salt"
    /\ LET salt == api_salt[req[r].client] IN
       \/ /\ Build(r, Failure(401), "respond")
          /\ UNCHANGED expected
       \/ /\ salt = 0
          /\ Goto(r, "lookup")
          /\ UNCHANGED <<response, expected>>
       \/ /\ salt # 0 /\ req[r].signedWith # 0
          /\ expected' = [expected EXCEPT ![r] = salt]
          /\ Goto(r, "body")
          /\ UNCHANGED response
    /\ UNCHANGED <<req, trackers, stores, history>>

\* The body is buffered (500 when that fails), then the signature computed from
\* the salt read before the await is compared with the header.
CheckSignature(r) ==
    /\ pc[r] = "body"
    /\ expected' = [expected EXCEPT ![r] = 0]
    /\ \/ Build(r, Failure(500), "respond")
       \/ /\ req[r].signedWith # expected[r]
          /\ Build(r, Failure(401), "respond")
       \/ /\ req[r].signedWith = expected[r]
          /\ Goto(r, "lookup")
          /\ UNCHANGED response
    /\ UNCHANGED <<req, trackers, stores, history>>

\* idempotency before next.run: no key, or no cached body, or a Redis failure
\* (which counts as a miss) leads to the handler; a hit is answered at once.
IdempotencyLookup_neverHits(r) ==
    /\ pc[r] = "lookup"
    /\ Goto(r, "handler")
    /\ UNCHANGED <<req, expected, response, trackers, stores, history>>
IdempotencyLookup(r) ==
    /\ pc[r] = "lookup"
    /\ LET s == Redis_key(req[r]) IN
       \/ /\ req[r].key = None
          /\ Goto(r, "handler")
          /\ UNCHANGED <<response, faulted>>
       \/ /\ req[r].key # None /\ cache[s] = None
          /\ Goto(r, "handler")
          /\ UNCHANGED <<response, faulted>>
       \/ /\ req[r].key # None
          /\ Goto(r, "handler")
          /\ faulted' = faulted \cup {Scope(r)}
          /\ UNCHANGED response
       \/ /\ req[r].key # None /\ cache[s] # None
          /\ Build(r, Replay(cache[s]), "respond")
          /\ UNCHANGED faulted
    /\ UNCHANGED <<req, expected, trackers, stores, earlier, salt_on_arrival>>

\* A handler of routes/tokens.rs or routes/users.rs up to the channel: invalid
\* input is 400, no channel (always so on a lost connection) is 500.
Handle_waitsForBroker(r) ==
    /\ pc[r] = "handler"
    /\ \/ /\ ~ req[r].wellFormed
          /\ Build(r, Failure(400), "respond")
       \/ /\ req[r].wellFormed /\ connected
          /\ Goto(r, "send")
          /\ UNCHANGED response
    /\ UNCHANGED <<req, expected, trackers, stores, history>>
Handle(r) ==
    /\ pc[r] = "handler"
    /\ \/ /\ ~ req[r].wellFormed
          /\ Build(r, Failure(400), "respond")
       \/ /\ req[r].wellFormed
          /\ Build(r, Failure(500), "respond")
       \/ /\ req[r].wellFormed /\ connected
          /\ Goto(r, "send")
          /\ UNCHANGED response
    /\ UNCHANGED <<req, expected, trackers, stores, history>>

\* What a basic_publish may have done when its caller stops waiting for it.
Sent(r) == {exchange} \cup (IF connected THEN {exchange \cup {r}} ELSE {})

\* basic_publish on a channel without publisher confirms: Ok once the frames are
\* written, whether or not the broker accepts the message; an error may come
\* before or after the broker has it.  A keyed success goes on to the cache.
Publish(r) ==
    /\ pc[r] = "send"
    /\ exchange' \in Sent(r)
    /\ \/ /\ connected
          /\ Build(r, Queued(r), IF Keyed(r) THEN "store" ELSE "respond")
       \/ Build(r, Failure(500), "respond")
    /\ UNCHANGED <<req, expected, trackers, api_salt, cache, connected,
                   api_requests, history>>

Stored(r) == [cache EXCEPT ![Redis_key(req[r])] = response[r].op]

\* idempotency after next.run, on a 2xx answer: SET EX; its failure is ignored.
IdempotencyStore_skipped(r) ==
    /\ pc[r] = "store"
    /\ Goto(r, "respond")
    /\ UNCHANGED <<req, expected, response, trackers, stores, history>>
IdempotencyStore(r) ==
    /\ pc[r] = "store"
    /\ Goto(r, "respond")
    /\ \/ /\ cache' = Stored(r)
          /\ UNCHANGED faulted
       \/ /\ faulted' = faulted \cup {Scope(r)}
          /\ UNCHANGED cache
    /\ UNCHANGED <<req, expected, response, trackers, api_salt, connected,
                   exchange, api_requests, earlier, salt_on_arrival>>

\* track_request after next.run: spawn the insert and let the response go.
Respond(r) ==
    /\ pc[r] = "respond"
    /\ trackers' = trackers \cup {r}
    /\ Goto(r, "done")
    /\ UNCHANGED <<req, expected, response, stores, history>>

Row_neverHit(r) == [request |-> r, status |-> response[r].status, hit |-> FALSE]
Row(r) == [request |-> r, status |-> response[r].status,
           hit |-> response[r].replayed]

\* The spawned task: the INSERT works, or fails and is only logged.
RecordRequest(r) ==
    /\ r \in trackers
    /\ trackers' = trackers \ {r}
    /\ api_requests' \in {api_requests, api_requests \cup {Row(r)}}
    /\ UNCHANGED <<pc, req, expected, response, api_salt, cache, connected,
                   exchange, history>>

-----------------------------------------------------------------------------
(* What happens around the requests *)

\* The caller hangs up: the server drops the request's future at its await, and
\* a publish or a SET EX that was under way takes effect or does not.  Between
\* the last await and the spawn of the tracker there is nothing to drop.
Disconnect(r) ==
    /\ pc[r] \in Awaiting
    /\ Goto(r, "dropped")
    /\ exchange' \in IF pc[r] = "send" THEN Sent(r) ELSE {exchange}
    /\ cache' \in IF pc[r] = "store" THEN {cache, Stored(r)} ELSE {cache}
    /\ UNCHANGED <<req, expected, response, trackers, api_salt, connected,
                   api_requests, history>>

\* The process is killed (a deploy stops the container) and starts again: its
\* tasks are gone, and start-up does not finish without a RabbitMQ connection.
\* Calls under way that do take effect are Disconnect steps just before.
Restart ==
    /\ pc' = [r \in Requests |-> IF pc[r] \in InFlight THEN "dropped" ELSE pc[r]]
    /\ trackers' = {}
    /\ connected' = TRUE
    /\ UNCHANGED <<req, expected, response, api_salt, cache, exchange,
                   api_requests, history>>

\* The single connection is lost; nothing but a restart opens another.
LoseConnection ==
    /\ connected
    /\ connected' = FALSE
    /\ UNCHANGED <<server, api_salt, cache, exchange, api_requests, history>>

\* regenerate_salt, called from the portal: one UPDATE to a fresh random salt.
RegenerateSalt(c) ==
    /\ api_salt[c] < MaxSalt
    /\ api_salt' = [api_salt EXCEPT ![c] = @ + 1]
    /\ UNCHANGED <<server, cache, connected, exchange, api_requests, history>>

\* The 24 h TTL of a cached response runs out.
Expire(s) ==
    /\ cache[s] # None
    /\ cache' = [cache EXCEPT ![s] = None]
    /\ faulted' = faulted \cup {s}
    /\ UNCHANGED <<server, api_salt, connected, exchange, api_requests,
                   earlier, salt_on_arrival>>

Step(r) ==
    \/ ReadSalt(r) \/ CheckSignature(r) \/ IdempotencyLookup(r) \/ Handle(r)
    \/ Publish(r) \/ IdempotencyStore(r) \/ Respond(r)

Next ==
    \/ \E r \in Requests :
          RequireAuth(r) \/ Step(r) \/ RecordRequest(r) \/ Disconnect(r)
    \/ \E c \in Clients : RegenerateSalt(c)
    \/ \E s \in Scopes : Expire(s)
    \/ Restart
    \/ LoseConnection

Spec == Init /\ [][Next]_vars

\* Fairness: the Tokio scheduler polls every ready task, and every awaited call
\* returns a result or an error.  Callers, restarts and losses owe nothing.
Fairness ==
    \A r \in Requests : WF_vars(Step(r)) /\ WF_vars(RecordRequest(r))

FairSpec == Spec /\ Fairness

-----------------------------------------------------------------------------
(* Properties *)

\* Every variable holds a value of its type.
TypeOK ==
    /\ pc \in [Requests -> Stages]
    /\ req \in [Requests -> Request \cup {None}]
    /\ expected \in [Requests -> 0..MaxSalt]
    /\ response \in [Requests -> Response]
    /\ api_salt \in [Clients -> 0..MaxSalt]
    /\ cache \in [Scopes -> Requests \cup {None}]
    /\ connected \in BOOLEAN
    /\ exchange \subseteq Requests
    /\ trackers \subseteq Requests
    /\ api_requests \subseteq [request : Requests, status : Status, hit : BOOLEAN]
    /\ earlier \in [Requests -> SUBSET Requests]
    /\ salt_on_arrival \in [Requests -> 0..MaxSalt]
    /\ faulted \subseteq Scopes

Succeeded(r) == response[r].status = 200
Answered(r) == pc[r] = "done"

\* A replayed answer names an operation that another request of the same client,
\* sent with the same X-Idempotency-Key, ran itself; and the replaying request
\* has put nothing on the exchange (middleware/idempotency.rs, cache hit).
ReplayNamesOwnScope ==
    \A r \in Requests : response[r].replayed =>
        LET o == response[r].op IN
        /\ r \notin exchange
        /\ o \in Requests \ {r}
        /\ Scope(o) = Scope(r)
        /\ response[o] = Queued(o)

\* Once a keyed request has been answered with success, no request with the same
\* client and key that arrives afterwards runs its operation again, unless in
\* the meantime the entry expired or a Redis call failed.  Requests in flight
\* together are not covered: both may miss the cache (idempotency.rs:36-53).
SequentialRetryIsReplayed ==
    \A a, b \in Requests :
        (/\ a \in earlier[b]
         /\ Succeeded(a)
         /\ Keyed(a)
         /\ Scope(a) = Scope(b)
         /\ Scope(a) \notin faulted)
        => /\ b \notin exchange
           /\ response[b] # Queued(b)

\* Redis is overwritten last-writer-wins: the operation a key replays changes
\* only when the overwriting request overlapped the one it overwrites (or Redis
\* had failed for the key), never because of a retry sent after the answer.
OverwriteOnlyByOverlap ==
    [][\A s \in Scopes :
          (/\ cache[s] # None
           /\ cache'[s] \notin {None, cache[s]}
           /\ s \notin faulted)
          => cache[s] \notin earlier[cache'[s]]]_vars

\* Work reaches the exchange of an account that had a salt when the request came
\* in only if the request was signed with a salt that was the account's current
\* one at some moment since: neither an unsigned request nor one signed with a
\* salt replaced before it was sent (signature.rs:26-82, regenerate_salt).
FreshSignature ==
    \A r \in exchange :
        salt_on_arrival[r] # 0 =>
            req[r].signedWith \in salt_on_arrival[r]..api_salt[req[r].client]

\* Billing agrees with the work.  A row flagged as a cache hit stands for a
\* request that queued nothing; a successful row that is not a hit stands for a
\* request that ran its own operation; rejected requests (400, 401) queued
\* nothing; and a key's sequential retries are never billed as work twice.
BillingMatchesWork ==
    /\ \A x \in api_requests :
          /\ x.hit \/ x.status \in {400, 401} => x.request \notin exchange
          /\ x.status = 200 /\ ~ x.hit => response[x.request] = Queued(x.request)
    /\ \A x, y \in api_requests :
          (/\ x.status = 200 /\ ~ x.hit
           /\ y.status = 200 /\ ~ y.hit
           /\ Keyed(x.request)
           /\ Scope(x.request) = Scope(y.request)
           /\ Scope(x.request) \notin faulted)
          => x.request \notin earlier[y.request]

\* Whatever Redis, Postgres or RabbitMQ answer, and also with the connection
\* lost for good, an accepted request is answered unless its caller hangs up or
\* the process restarts; and the spawned insert does not linger.
RequestsSettle ==
    \A r \in Requests :
        /\ (pc[r] \in InFlight) ~> (pc[r] \in {"done", "dropped"})
        /\ (r \in trackers) ~> (r \notin trackers)

\* The pipeline implements the ledger: an operation runs at most once per
\* request, and a caller is told its own operation or one its scope ran.
Ledger == INSTANCE OperationLedger WITH
    Scopes <- Scopes,
    SharedScopes <- (Clients \X Keys),
    scope <- [r \in Requests |-> Scope(r)],
    executed <- exchange \cup {r \in Requests : response[r] = Queued(r)},
    told <- [r \in Requests |-> IF pc[r] = "done" THEN response[r].op ELSE None]

LedgerSpec == Ledger!Spec

\* request_tracker.rs:5, "Record every authenticated request in the
\* `api_requests` table for billing".  Here only of the requests that had work
\* queued for them: when one is over and its task has run, its row is there.
EveryAuthenticatedRequestIsRecorded ==
    \A r \in exchange :
        pc[r] \in {"done", "dropped"} /\ r \notin trackers
        => \E x \in api_requests : x.request = r

\* README.md:87, every write endpoint returns an operation_id with status
\* "queued": an operation reported as queued is with the broker.
QueuedIsOnTheExchange ==
    \A r \in Requests : Answered(r) /\ Succeeded(r) => response[r].op \in exchange
=============================================================================
