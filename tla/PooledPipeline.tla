--------------------------- MODULE PooledPipeline ---------------------------
(***************************************************************************)
(* RequestPipeline with the connections of the Redis pool (main.rs:64-69). *)
(* idempotency takes one before the GET and gives it back before it calls  *)
(* the handler, and takes another for the SET EX; the pool has no wait     *)
(* timeout, so a request that finds it empty waits for as long as it takes.*)
(***************************************************************************)
EXTENDS RequestPipeline

CONSTANT PoolSize    \* deadpool's max_size

ASSUME PoolAssumption == PoolSize \in Nat \ {0}

VARIABLE held        \* the connections in use: by which request, for which call

PoolInit == Init /\ held = {}

RedisStages == {"lookup", "store"}

GiveBack(r) == held' = {h \in held : h[1] # r}

\* state.redis.get().await: a connection, as soon as one is free.  The connection
\* may turn out to be broken: then the call on it is one that fails.
GetConnection_orFails(r) ==
    /\ pc[r] \in RedisStages /\ Keyed(r) /\ <<r, pc[r]>> \notin held
    /\ IF Cardinality(held) < PoolSize
       THEN held' = held \cup {<<r, pc[r]>>} /\ UNCHANGED vars
       ELSE /\ Build(r, Failure(500), "respond")
            /\ UNCHANGED <<held, req, expected, trackers, stores, history>>
GetConnection_onArrival(r) ==
    /\ pc[r] \in InFlight /\ Keyed(r) /\ <<r, pc[r]>> \notin held
    /\ Cardinality(held) < PoolSize
    /\ held' = held \cup {<<r, pc[r]>>}
    /\ UNCHANGED vars
GetConnection(r) ==
    /\ pc[r] \in RedisStages /\ Keyed(r) /\ <<r, pc[r]>> \notin held
    /\ Cardinality(held) < PoolSize
    /\ held' = held \cup {<<r, pc[r]>>}
    /\ UNCHANGED vars

\* The GET, on a connection that the if-let block returns before next.run.
Lookup_keepsConnection(r) ==
    /\ Keyed(r) => <<r, "lookup">> \in held
    /\ IdempotencyLookup(r)
    /\ UNCHANGED held
Lookup(r) ==
    /\ Keyed(r) => <<r, "lookup">> \in held
    /\ IdempotencyLookup(r)
    /\ GiveBack(r)

Store(r) ==
    /\ <<r, "store">> \in held
    /\ IdempotencyStore(r)
    /\ GiveBack(r)

\* What is left is dropped when idempotency returns.
Leave(r) == Respond(r) /\ GiveBack(r)

PoolStep(r) ==
    \/ Lookup(r) \/ Store(r) \/ Leave(r)
    \/ /\ ReadSalt(r) \/ CheckSignature(r) \/ Handle(r) \/ Publish(r)
       /\ UNCHANGED held

\* A dropped future drops the connection it holds, and the pool takes it back.
PoolDisconnect_leaks(r) == Disconnect(r) /\ UNCHANGED held
PoolDisconnect(r) == Disconnect(r) /\ GiveBack(r)

PoolRestart == Restart /\ held' = {}

PoolSurroundings ==
    /\ \/ \E r \in Requests : RequireAuth(r)
       \/ \E c \in Clients : RegenerateSalt(c)
       \/ \E s \in Scopes : Expire(s)
       \/ LoseConnection
    /\ UNCHANGED held

\* All but the spawned insert, which BusinessService ties to its table.
PoolNext ==
    \/ \E r \in Requests :
          GetConnection(r) \/ PoolStep(r) \/ PoolDisconnect(r)
    \/ PoolRestart
    \/ PoolSurroundings
=============================================================================
