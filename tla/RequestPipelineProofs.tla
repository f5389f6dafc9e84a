------------------------ MODULE RequestPipelineProofs ------------------------
(***************************************************************************)
(* What TLAPS proves of RequestPipeline, for any number of requests,       *)
(* clients, keys and salts.                                                *)
(***************************************************************************)
EXTENDS RequestPipeline, TLAPS

-----------------------------------------------------------------------------
(* The types, and the one fact they rest on: require_auth lets no request   *)
(* pass whose client it does not know.                                      *)

Arrival ==
    \A r \in Requests :
        /\ req[r] = None <=> pc[r] = "new"
        /\ pc[r] \in InFlight => req[r].client # None

\* Every response the layers build is a response.
LEMMA ResponseTypes ==
    /\ NoResponse \in Response
    /\ \A s \in {400, 401, 500} : Failure(s) \in Response
    /\ \A r \in Requests : Queued(r) \in Response /\ Replay(r) \in Response
BY DEF Response, Status, NoResponse, Failure, Queued, Replay

\* The fields of a request, and the Redis key made of two of them.
LEMMA RequestTypes ==
    ASSUME NEW q \in Request
    PROVE  /\ q # None
           /\ q.client \in Clients \cup {None}
           /\ q.key \in Keys \cup {None}
           /\ q.signedWith \in 0..MaxSalt
           /\ Redis_key(q) = <<q.client, q.key>>
           /\ <<q.client, q.key>> \in Scopes
BY PipelineAssumption DEF Request, Redis_key, Scopes

\* The scope of a request that has arrived is the key Redis knows it by.
LEMMA ScopeOfArrived ==
    ASSUME NEW r \in Requests, req[r] \in Request
    PROVE  /\ Scope(r) = Redis_key(req[r])
           /\ Scope(r) = <<req[r].client, req[r].key>>
           /\ Scope(r) \in Scopes
BY RequestTypes DEF Scope

\* The initial states are well typed.
LEMMA InitTyped == Init => TypeOK /\ Arrival
<1> SUFFICES ASSUME Init PROVE TypeOK /\ Arrival
    OBVIOUS
<1>1. TypeOK
    BY ResponseTypes, PipelineAssumption DEF Init, TypeOK, Stages
<1>2. Arrival
    BY DEF Init, Arrival, InFlight, Awaiting
<1> QED
    BY <1>1, <1>2

\* Every step keeps the types and the fact about authenticated requests.
LEMMA StepTyped == TypeOK /\ Arrival /\ [Next]_vars => TypeOK' /\ Arrival'
<1> SUFFICES ASSUME TypeOK, Arrival, [Next]_vars PROVE TypeOK' /\ Arrival'
    OBVIOUS
<1> USE PipelineAssumption DEF TypeOK, Arrival, server, stores, history, Goto,
        Build, Stages, InFlight
<1>1. ASSUME NEW r \in Requests, RequireAuth(r) PROVE TypeOK' /\ Arrival'
  <2> PICK q \in Inputs :
          /\ req' = [req EXCEPT ![r] = q]
          /\ IF q.client = None
             THEN /\ Build(r, Failure(401), "done")
                  /\ UNCHANGED salt_on_arrival
             ELSE /\ Goto(r, "salt")
                  /\ salt_on_arrival' =
                        [salt_on_arrival EXCEPT ![r] = api_salt[q.client]]
                  /\ UNCHANGED response
    BY <1>1 DEF RequireAuth
  <2>1. q \in Request /\ q # None /\ q.client \in Clients \cup {None}
    BY RequestTypes
  <2> QED
    BY <1>1, <2>1, ResponseTypes DEF RequireAuth
<1>2. ASSUME NEW r \in Requests, ReadSalt(r) PROVE TypeOK' /\ Arrival'
  <2>1. req[r].client \in Clients
    BY <1>2, RequestTypes DEF ReadSalt
  <2> QED
    BY <1>2, <2>1, ResponseTypes DEF ReadSalt
<1>3. ASSUME NEW r \in Requests, CheckSignature(r) PROVE TypeOK' /\ Arrival'
    BY <1>3, ResponseTypes DEF CheckSignature
<1>4. ASSUME NEW r \in Requests, IdempotencyLookup(r) PROVE TypeOK' /\ Arrival'
  <2>1. req[r] \in Request /\ Scope(r) \in Scopes /\ Redis_key(req[r]) \in Scopes
    BY <1>4, ScopeOfArrived, RequestTypes DEF IdempotencyLookup
  <2> QED
    BY <1>4, <2>1, ResponseTypes DEF IdempotencyLookup
<1>5. ASSUME NEW r \in Requests, Handle(r) PROVE TypeOK' /\ Arrival'
    BY <1>5, ResponseTypes DEF Handle
<1>6. ASSUME NEW r \in Requests, Publish(r) PROVE TypeOK' /\ Arrival'
    BY <1>6, ResponseTypes DEF Publish, Sent
<1>7. ASSUME NEW r \in Requests, IdempotencyStore(r) PROVE TypeOK' /\ Arrival'
  <2>1. req[r] \in Request /\ Scope(r) \in Scopes /\ Redis_key(req[r]) \in Scopes
    BY <1>7, ScopeOfArrived, RequestTypes DEF IdempotencyStore
  <2>2. response[r].op \in Requests \cup {None}
    BY DEF Response
  <2> QED
    BY <1>7, <2>1, <2>2 DEF IdempotencyStore, Stored
<1>8. ASSUME NEW r \in Requests, Respond(r) PROVE TypeOK' /\ Arrival'
    BY <1>8 DEF Respond
<1>9. ASSUME NEW r \in Requests, RecordRequest(r) PROVE TypeOK' /\ Arrival'
  <2>1. Row(r) \in [request : Requests, status : Status, hit : BOOLEAN]
    BY DEF Row, Response
  <2> QED
    BY <1>9, <2>1 DEF RecordRequest
<1>10. ASSUME NEW r \in Requests, Disconnect(r) PROVE TypeOK' /\ Arrival'
  <2>1. req[r] \in Request /\ Scope(r) \in Scopes /\ Redis_key(req[r]) \in Scopes
    BY <1>10, ScopeOfArrived, RequestTypes DEF Disconnect, Awaiting
  <2>2. response[r].op \in Requests \cup {None}
    BY DEF Response
  <2> QED
    BY <1>10, <2>1, <2>2 DEF Disconnect, Sent, Stored
<1>11. ASSUME Restart PROVE TypeOK' /\ Arrival'
    BY <1>11 DEF Restart
<1>12. ASSUME LoseConnection PROVE TypeOK' /\ Arrival'
    BY <1>12 DEF LoseConnection
<1>13. ASSUME NEW c \in Clients, RegenerateSalt(c) PROVE TypeOK' /\ Arrival'
    BY <1>13 DEF RegenerateSalt
<1>14. ASSUME NEW s \in Scopes, Expire(s) PROVE TypeOK' /\ Arrival'
    BY <1>14 DEF Expire
<1>15. ASSUME UNCHANGED vars PROVE TypeOK' /\ Arrival'
    BY <1>15 DEF vars
<1> QED
    BY <1>1, <1>2, <1>3, <1>4, <1>5, <1>6, <1>7, <1>8, <1>9, <1>10, <1>11,
       <1>12, <1>13, <1>14, <1>15 DEF Next, Step

\* Every variable keeps its type in every reachable state.
THEOREM TypeCorrect == Spec => []TypeOK
<1>1. Spec => [](TypeOK /\ Arrival)
    BY InitTyped, StepTyped, PTL DEF Spec
<1> QED
    BY <1>1, PTL

-----------------------------------------------------------------------------
(* The inductive invariant *)

OutcomesOf(r) == {NoResponse, Queued(r)} \cup {Failure(s) : s \in {400, 401, 500}}

\* What a request's response can be at each stage, and when it is on the exchange.
Outcome ==
    \A r \in Requests :
        /\ pc[r] \in {"new", "salt", "body", "lookup", "handler", "send"}
              => response[r] = NoResponse
        /\ pc[r] = "store" => response[r] = Queued(r) /\ Keyed(r)
        /\ response[r] \in OutcomesOf(r) \/ response[r].replayed
        /\ r \in exchange =>
              /\ pc[r] \in {"store", "respond", "done", "dropped"}
              /\ response[r] \in {NoResponse, Queued(r), Failure(500)}

\* Redis holds, under each key, an operation that ran under that key.
CacheSound ==
    \A s \in Scopes : cache[s] # None =>
        /\ Keyed(cache[s])
        /\ Scope(cache[s]) = s
        /\ response[cache[s]] = Queued(cache[s])

\* A replay names an operation that ran under the replaying request's key.
ReplaySound ==
    \A r \in Requests : response[r].replayed =>
        /\ response[r].status = 200
        /\ Keyed(r)
        /\ response[r].op \in Requests \ {r}
        /\ Scope(response[r].op) = Scope(r)
        /\ response[response[r].op] = Queued(response[r].op)

EarlierDone ==
    \A a, b \in Requests : a \in earlier[b] => pc[a] = "done" /\ pc[b] # "new"

\* A keyed success that is through the idempotency layer is in Redis.
StoredBeforeAnswer ==
    \A a \in Requests :
        (/\ Succeeded(a) /\ Keyed(a)
         /\ pc[a] \in {"respond", "done"}
         /\ Scope(a) \notin faulted)
        => cache[Scope(a)] # None

\* ... so that a later request of the same key never gets past the lookup.
RetryStops ==
    \A a, b \in Requests :
        (/\ a \in earlier[b]
         /\ Succeeded(a)
         /\ Keyed(a)
         /\ Scope(a) = Scope(b)
         /\ Scope(a) \notin faulted)
        => /\ pc[b] \notin {"handler", "send", "store"}
           /\ b \notin exchange
           /\ response[b] # Queued(b)

\* The salt a request is checked against is one the account had since it came.
SaltSeen ==
    \A r \in Requests :
        /\ pc[r] \in InFlight =>
              salt_on_arrival[r] <= api_salt[req[r].client]
        /\ pc[r] = "body" =>
              expected[r] \in salt_on_arrival[r]..api_salt[req[r].client]
        /\ (pc[r] \in {"lookup", "handler", "send", "store"} \/ r \in exchange)
           /\ salt_on_arrival[r] # 0
              => req[r].signedWith \in salt_on_arrival[r]..api_salt[req[r].client]

\* A row says what became of its request, and is written once it is over.
RowsSound ==
    /\ \A r \in trackers : pc[r] = "done"
    /\ \A x \in api_requests : pc[x.request] = "done" /\ x = Row(x.request)

IInv ==
    /\ TypeOK /\ Arrival /\ Outcome /\ CacheSound /\ ReplaySound
    /\ EarlierDone /\ StoredBeforeAnswer /\ RetryStops
    /\ SaltSeen /\ RowsSound

-----------------------------------------------------------------------------
(* The effect of a step *)

\* A response is set once, and only in these ways.
ResponseEffect ==
    \A r \in Requests :
        /\ response[r] # NoResponse => response'[r] = response[r]
        /\ response'[r] # response[r] =>
              \/ response'[r] \in {Failure(s) : s \in {400, 401, 500}}
              \/ pc[r] = "send" /\ response'[r] = Queued(r)
              \/ /\ pc[r] = "lookup" /\ Keyed(r)
                 /\ cache[Scope(r)] # None
                 /\ response'[r] = Replay(cache[Scope(r)])

\* Who moves where, and what a move may bring with it.
StageEffect ==
    \A r \in Requests :
        /\ pc[r] = "new" => pc'[r] \in {"new", "salt", "done"}
        /\ pc[r] # "new" =>
              /\ pc'[r] # "new"
              /\ req'[r] = req[r]
              /\ earlier'[r] = earlier[r]
        /\ pc[r] = "done" => pc'[r] = "done" /\ response'[r] = response[r]
        /\ r \in exchange' => r \in exchange \/ pc[r] = "send"
        /\ pc'[r] \in {"handler", "send", "store"} =>
              \/ pc[r] \in {"handler", "send", "store"}
              \/ /\ pc[r] = "lookup"
                 /\ Keyed(r) => cache[Scope(r)] = None \/ Scope(r) \in faulted'

\* An entry is written by a request at its SET EX, or goes away as a fault.
CacheEffect ==
    /\ faulted \subseteq faulted'
    /\ \A s \in Scopes :
          \/ cache'[s] = cache[s]
          \/ cache'[s] = None /\ s \in faulted'
          \/ \E r \in Requests :
                pc[r] = "store" /\ Scope(r) = s /\ cache'[s] = r

\* A keyed success leaves the idempotency layer with its entry in Redis.
AnswerEffect ==
    \A r \in Requests :
        pc'[r] \in {"respond", "done"} /\ response'[r].status = 200 /\ Keyed(r) =>
              \/ pc[r] \in {"respond", "done"}
              \/ pc[r] = "lookup" /\ cache'[Scope(r)] # None
              \/ /\ pc[r] = "store"
                 /\ cache'[Scope(r)] # None \/ Scope(r) \in faulted'

\* Rows come from finished requests only.
TrackEffect ==
    /\ \A r \in trackers' : r \in trackers \/ pc'[r] = "done"
    /\ \A x \in api_requests' :
          x \in api_requests \/ \E r \in trackers : x = Row(r)

Effect ==
    ResponseEffect /\ StageEffect /\ CacheEffect /\ AnswerEffect /\ TrackEffect

\* The responses the layers build are told apart by status and replay mark.
LEMMA ResponseKinds ==
    /\ \A r, o : Replay(o) # Queued(r)
    /\ \A r, st : st \in {400, 401, 500} => Failure(st) # Queued(r)
    /\ \A o, st : ~ Failure(st).replayed /\ Replay(o).replayed
    /\ \A st : Failure(st).status = st
    /\ \A o : Replay(o).status = 200 /\ Replay(o).op = o
    /\ \A r : Queued(r).status = 200 /\ ~ Queued(r).replayed
    /\ \A r : Queued(r) # NoResponse
<1>1. \A r, o : Replay(o) # Queued(r)
  <2> TAKE r, o
  <2>1. Replay(o).replayed /\ ~ Queued(r).replayed
    BY DEF Replay, Queued
  <2> QED
    BY <2>1
<1>2. \A r, st : st \in {400, 401, 500} => Failure(st) # Queued(r)
  <2> TAKE r, st
  <2>1. Failure(st).status = st /\ Queued(r).status = 200
    BY DEF Failure, Queued
  <2> QED
    BY <2>1
<1>3. \A r : Queued(r) # NoResponse
    BY DEF NoResponse, Queued
<1> QED
    BY <1>1, <1>2, <1>3 DEF Failure, Replay, Queued, NoResponse

\* What any step may do, said without naming the action that does it.
LEMMA StepEffect == TypeOK /\ Arrival /\ Outcome /\ [Next]_vars => Effect
<1> SUFFICES ASSUME TypeOK, Arrival, Outcome, [Next]_vars PROVE Effect
    OBVIOUS
<1>0. TypeOK' /\ Arrival'
    BY StepTyped
<1> USE <1>0, RequestTypes, ScopeOfArrived, PipelineAssumption
    DEF TypeOK, Arrival, Outcome, Keyed, Effect, ResponseEffect, StageEffect,
        CacheEffect, AnswerEffect, TrackEffect, server, stores, history, Goto,
        Build, Stages, InFlight, NoResponse, Failure, Queued, Replay
<1>1. ASSUME NEW r \in Requests, RequireAuth(r) PROVE Effect
    BY <1>1 DEF RequireAuth
<1>2. ASSUME NEW r \in Requests, ReadSalt(r) PROVE Effect
    BY <1>2 DEF ReadSalt
<1>3. ASSUME NEW r \in Requests, CheckSignature(r) PROVE Effect
    BY <1>3 DEF CheckSignature
<1>4. ASSUME NEW r \in Requests, IdempotencyLookup(r) PROVE Effect
    BY <1>4 DEF IdempotencyLookup
<1>5. ASSUME NEW r \in Requests, Handle(r) PROVE Effect
    BY <1>5 DEF Handle
<1>6. ASSUME NEW r \in Requests, Publish(r) PROVE Effect
    BY <1>6 DEF Publish, Sent
<1>7. ASSUME NEW r \in Requests, IdempotencyStore(r) PROVE Effect
    BY <1>7 DEF IdempotencyStore, Stored
<1>8. ASSUME NEW r \in Requests, Respond(r) PROVE Effect
    BY <1>8 DEF Respond
<1>9. ASSUME NEW r \in Requests, RecordRequest(r) PROVE Effect
    BY <1>9 DEF RecordRequest
<1>10. ASSUME NEW r \in Requests, Disconnect(r) PROVE Effect
    BY <1>10 DEF Disconnect, Awaiting, Sent, Stored
<1>11. ASSUME Restart PROVE Effect
    BY <1>11 DEF Restart
<1>12. ASSUME LoseConnection PROVE Effect
    BY <1>12 DEF LoseConnection
<1>13. ASSUME NEW c \in Clients, RegenerateSalt(c) PROVE Effect
    BY <1>13 DEF RegenerateSalt
<1>14. ASSUME NEW s \in Scopes, Expire(s) PROVE Effect
    BY <1>14 DEF Expire
<1>15. ASSUME UNCHANGED vars PROVE Effect
    BY <1>15 DEF vars
<1> HIDE <1>0, RequestTypes, ScopeOfArrived, PipelineAssumption
    DEF TypeOK, Arrival, Outcome, Keyed, Effect, ResponseEffect, StageEffect,
        CacheEffect, AnswerEffect, TrackEffect
<1> QED
    BY <1>1, <1>2, <1>3, <1>4, <1>5, <1>6, <1>7, <1>8,
       <1>9, <1>10, <1>11, <1>12, <1>13, <1>14, <1>15 DEF Next, Step

\* Responses agree with stages after every step.
LEMMA StepOutcome == TypeOK /\ Arrival /\ Outcome /\ [Next]_vars => Outcome'
<1> SUFFICES ASSUME TypeOK, Arrival, Outcome, [Next]_vars PROVE Outcome'
    OBVIOUS
<1>0. TypeOK' /\ Arrival'
    BY StepTyped
<1> USE <1>0, RequestTypes, ResponseTypes, PipelineAssumption
    DEF TypeOK, Arrival, Outcome, OutcomesOf, Keyed, server, stores, history,
        Goto, Build, Stages, InFlight, NoResponse, Failure, Queued, Replay
<1>1. ASSUME NEW r \in Requests, RequireAuth(r) PROVE Outcome'
    BY <1>1 DEF RequireAuth
<1>2. ASSUME NEW r \in Requests, ReadSalt(r) PROVE Outcome'
  <2>1. /\ \A x \in Requests : x # r =>
              pc'[x] = pc[x] /\ response'[x] = response[x]
        /\ exchange' = exchange /\ req' = req /\ pc[r] = "salt"
    BY <1>2 DEF ReadSalt
  <2>2. \/ pc'[r] = "respond" /\ response'[r] = Failure(401)
        \/ pc'[r] \in {"lookup", "body"} /\ response'[r] = response[r]
    BY <1>2 DEF ReadSalt
  <2> QED
    BY <2>1, <2>2
<1>3. ASSUME NEW r \in Requests, CheckSignature(r) PROVE Outcome'
    BY <1>3 DEF CheckSignature
<1>4. ASSUME NEW r \in Requests, IdempotencyLookup(r) PROVE Outcome'
    BY <1>4 DEF IdempotencyLookup
<1>5. ASSUME NEW r \in Requests, Handle(r) PROVE Outcome'
    BY <1>5 DEF Handle
<1>6. ASSUME NEW r \in Requests, Publish(r) PROVE Outcome'
    BY <1>6 DEF Publish, Sent
<1>7. ASSUME NEW r \in Requests, IdempotencyStore(r) PROVE Outcome'
    BY <1>7 DEF IdempotencyStore, Stored
<1>8. ASSUME NEW r \in Requests, Respond(r) PROVE Outcome'
    BY <1>8 DEF Respond
<1>9. ASSUME NEW r \in Requests, RecordRequest(r) PROVE Outcome'
    BY <1>9 DEF RecordRequest
<1>10. ASSUME NEW r \in Requests, Disconnect(r) PROVE Outcome'
    BY <1>10 DEF Disconnect, Sent, Stored
<1>11. ASSUME Restart PROVE Outcome'
    BY <1>11 DEF Restart
<1>12. ASSUME LoseConnection PROVE Outcome'
    BY <1>12 DEF LoseConnection
<1>13. ASSUME NEW c \in Clients, RegenerateSalt(c) PROVE Outcome'
    BY <1>13 DEF RegenerateSalt
<1>14. ASSUME NEW s \in Scopes, Expire(s) PROVE Outcome'
    BY <1>14 DEF Expire
<1>15. ASSUME UNCHANGED vars PROVE Outcome'
    BY <1>15 DEF vars
<1> HIDE <1>0, RequestTypes, ResponseTypes, PipelineAssumption
    DEF TypeOK, Arrival, Outcome, OutcomesOf, Keyed
<1> QED
    BY <1>1, <1>2, <1>3, <1>4, <1>5, <1>6, <1>7, <1>8,
       <1>9, <1>10, <1>11, <1>12, <1>13, <1>14, <1>15 DEF Next, Step

\* The salts a request may be signed with are kept by every step.
LEMMA StepSaltSeen ==
    TypeOK /\ Arrival /\ Outcome /\ SaltSeen /\ [Next]_vars => SaltSeen'
<1> SUFFICES ASSUME TypeOK, Arrival, Outcome, SaltSeen, [Next]_vars PROVE SaltSeen'
    OBVIOUS
<1>0. TypeOK' /\ Arrival'
    BY StepTyped
<1> USE <1>0, RequestTypes, PipelineAssumption
    DEF TypeOK, Arrival, Outcome, SaltSeen, server, stores, history, Goto,
        Build, InFlight
<1>1. ASSUME NEW r \in Requests, RequireAuth(r) PROVE SaltSeen'
    BY <1>1 DEF RequireAuth
<1>2. ASSUME NEW r \in Requests, ReadSalt(r) PROVE SaltSeen'
    BY <1>2 DEF ReadSalt
<1>3. ASSUME NEW r \in Requests, CheckSignature(r) PROVE SaltSeen'
    BY <1>3 DEF CheckSignature
<1>4. ASSUME NEW r \in Requests, IdempotencyLookup(r) PROVE SaltSeen'
    BY <1>4 DEF IdempotencyLookup
<1>5. ASSUME NEW r \in Requests, Handle(r) PROVE SaltSeen'
    BY <1>5 DEF Handle
<1>6. ASSUME NEW r \in Requests, Publish(r) PROVE SaltSeen'
    BY <1>6 DEF Publish, Sent
<1>7. ASSUME NEW r \in Requests, IdempotencyStore(r) PROVE SaltSeen'
    BY <1>7 DEF IdempotencyStore, Stored
<1>8. ASSUME NEW r \in Requests, Respond(r) PROVE SaltSeen'
    BY <1>8 DEF Respond
<1>9. ASSUME NEW r \in Requests, RecordRequest(r) PROVE SaltSeen'
    BY <1>9 DEF RecordRequest
<1>10. ASSUME NEW r \in Requests, Disconnect(r) PROVE SaltSeen'
    BY <1>10 DEF Disconnect, Sent, Stored
<1>11. ASSUME Restart PROVE SaltSeen'
    BY <1>11 DEF Restart
<1>12. ASSUME LoseConnection PROVE SaltSeen'
    BY <1>12 DEF LoseConnection
<1>13. ASSUME NEW c \in Clients, RegenerateSalt(c) PROVE SaltSeen'
    BY <1>13 DEF RegenerateSalt
<1>14. ASSUME NEW s \in Scopes, Expire(s) PROVE SaltSeen'
    BY <1>14 DEF Expire
<1>15. ASSUME UNCHANGED vars PROVE SaltSeen'
    BY <1>15 DEF vars
<1> HIDE <1>0, RequestTypes, PipelineAssumption
    DEF TypeOK, Arrival, Outcome, SaltSeen
<1> QED
    BY <1>1, <1>2, <1>3, <1>4, <1>5, <1>6, <1>7, <1>8,
       <1>9, <1>10, <1>11, <1>12, <1>13, <1>14, <1>15 DEF Next, Step

-----------------------------------------------------------------------------
(* Each conjunct of the invariant, from the effect *)

\* A request's scope never changes once it has arrived.
LEMMA Stable ==
    ASSUME Effect, NEW r \in Requests, pc[r] # "new"
    PROVE  Scope(r)' = Scope(r) /\ Keyed(r)' = Keyed(r)
BY DEF Effect, StageEffect, Scope, Keyed

\* A request that ran its operation keeps the response saying so.
LEMMA RanStays ==
    ASSUME Outcome, Effect, NEW r \in Requests, response[r] = Queued(r)
    PROVE  /\ pc[r] # "new"
           /\ response'[r] = Queued(r)
<1>1. response[r] # NoResponse
    BY DEF NoResponse, Queued
<1> QED
    BY <1>1 DEF Outcome, Effect, ResponseEffect

\* Whatever is cached ran under the key it is cached under.
LEMMA StepCacheSound ==
    ASSUME TypeOK, Outcome, CacheSound, Effect, TypeOK'
    PROVE  CacheSound'
<1> SUFFICES ASSUME NEW s \in Scopes, cache'[s] # None
             PROVE  /\ Keyed(cache[s])'
                    /\ Scope(cache[s])' = s
                    /\ response'[cache'[s]] = Queued(cache'[s])
    BY DEF CacheSound, Queued
<1> PICK o \in Requests : cache'[s] = o
    BY DEF TypeOK
<1> SUFFICES Keyed(o)' /\ Scope(o)' = s /\ response'[o] = Queued(o)
    BY DEF Keyed, Scope
<1>1. CASE cache'[s] = cache[s]
  <2>1. Keyed(o) /\ Scope(o) = s /\ response[o] = Queued(o)
    BY <1>1, PipelineAssumption DEF CacheSound
  <2> QED
    BY <2>1, RanStays, Stable
<1>2. CASE pc[o] = "store" /\ Scope(o) = s
  <2>1. Keyed(o) /\ response[o] = Queued(o)
    BY <1>2 DEF Outcome
  <2> QED
    BY <1>2, <2>1, RanStays, Stable
<1> QED
    BY <1>1, <1>2, PipelineAssumption DEF Effect, CacheEffect

\* Whatever is replayed ran under the key it is replayed for.
LEMMA StepReplaySound ==
    ASSUME TypeOK, Arrival, Outcome, CacheSound, ReplaySound, Effect,
           TypeOK', Outcome'
    PROVE  ReplaySound'
<1> SUFFICES ASSUME NEW r \in Requests, response'[r].replayed
             PROVE  /\ response'[r].status = 200
                    /\ Keyed(r)'
                    /\ response'[r].op \in Requests \ {r}
                    /\ Scope(response[r].op)' = Scope(r)'
                    /\ response'[response'[r].op] = Queued(response'[r].op)
    BY DEF ReplaySound, Queued
<1> SUFFICES /\ response'[r].status = 200
             /\ Keyed(r)'
             /\ \E o \in Requests \ {r} :
                   /\ response'[r].op = o
                   /\ Scope(o)' = Scope(r)'
                   /\ response'[o] = Queued(o)
    BY DEF Scope
<1>1. CASE response'[r] = response[r]
  <2>1. PICK o \in Requests \ {r} :
            /\ response[r].op = o
            /\ Scope(o) = Scope(r)
            /\ response[o] = Queued(o)
    BY <1>1 DEF ReplaySound
  <2>2. response[r].status = 200 /\ Keyed(r)
    BY <1>1 DEF ReplaySound
  <2>3. pc[r] # "new"
    BY <1>1 DEF Outcome, NoResponse
  <2>4. Scope(o)' = Scope(r)' /\ Keyed(r)' /\ response'[o] = Queued(o)
    BY <2>1, <2>2, <2>3, RanStays, Stable
  <2> QED
    BY <1>1, <2>1, <2>2, <2>4
<1>2. CASE response'[r] # response[r]
  <2>1. pc[r] = "lookup" /\ Keyed(r) /\ cache[Scope(r)] # None
        /\ response'[r] = Replay(cache[Scope(r)])
    BY <1>2, ResponseKinds DEF Effect, ResponseEffect
  <2>2. Scope(r) \in Scopes
    BY <2>1, ScopeOfArrived DEF TypeOK, Arrival
  <2>3. PICK o \in Requests : o = cache[Scope(r)]
    BY <2>1, <2>2 DEF TypeOK
  <2>4. Scope(o) = Scope(r) /\ response[o] = Queued(o)
    BY <2>1, <2>2, <2>3 DEF CacheSound
  <2>5. o # r
    BY <2>1, <2>4 DEF Outcome, NoResponse, Queued
  <2>6. Scope(o)' = Scope(r)' /\ Keyed(r)' /\ response'[o] = Queued(o)
    BY <2>1, <2>4, RanStays, Stable
  <2>7. response'[r].status = 200 /\ response'[r].op = o
    BY <2>1, <2>3 DEF Replay
  <2> QED
    BY <2>5, <2>6, <2>7
<1> QED
    BY <1>1, <1>2

\* A success is cached before it is answered.
LEMMA StepStoredBeforeAnswer ==
    ASSUME TypeOK, Arrival, Outcome, StoredBeforeAnswer, Effect, TypeOK', Outcome'
    PROVE  StoredBeforeAnswer'
<1> SUFFICES ASSUME NEW a \in Requests, Succeeded(a)', Keyed(a)',
                    pc'[a] \in {"respond", "done"}, Scope(a)' \notin faulted'
             PROVE cache'[Scope(a)'] # None
    BY DEF StoredBeforeAnswer
<1>1. pc[a] # "new"
    BY
       DEF Effect, StageEffect, ResponseEffect, Outcome, Failure, NoResponse,
           Succeeded
<1>2. Scope(a)' = Scope(a) /\ Keyed(a) /\ Scope(a) \in Scopes
    BY <1>1, Stable, ScopeOfArrived DEF TypeOK, Arrival
<1>3. Scope(a) \notin faulted
    BY <1>2 DEF Effect, CacheEffect
<1>4. CASE pc[a] \in {"respond", "done"}
  <2>1. response'[a] = response[a]
    BY <1>4 DEF Effect, ResponseEffect, Failure, Succeeded
  <2>2. cache[Scope(a)] # None
    BY <1>2, <1>3, <1>4, <2>1 DEF StoredBeforeAnswer, Succeeded
  <2> QED
    BY <1>2, <2>2, PipelineAssumption DEF Effect, CacheEffect
<1> QED
    BY <1>2, <1>4 DEF Effect, AnswerEffect, Succeeded

\* A sequential retry never passes the lookup.
LEMMA StepRetryStops ==
    ASSUME TypeOK, Arrival, Outcome, EarlierDone, StoredBeforeAnswer,
           RetryStops, Effect, TypeOK', Outcome', EarlierDone'
    PROVE  RetryStops'
<1> SUFFICES ASSUME NEW a \in Requests, NEW b \in Requests,
                    a \in earlier'[b], Succeeded(a)', Keyed(a)',
                    Scope(a)' = Scope(b)', Scope(a)' \notin faulted'
             PROVE /\ pc'[b] \notin {"handler", "send", "store"}
           /\ b \notin exchange'
           /\ response'[b] # Queued(b)
    BY DEF RetryStops, Queued
<1>1. CASE pc[b] = "new"
    BY <1>1
       DEF Effect, StageEffect, ResponseEffect, Outcome, Failure, NoResponse,
           Queued
<1>2. CASE pc[b] # "new"
  <2>1. a \in earlier[b] /\ pc[a] = "done"
    BY <1>2 DEF Effect, StageEffect, EarlierDone
  <2>2. response'[a] = response[a]
    BY <2>1 DEF Effect, ResponseEffect, Failure, Succeeded
  <2>3. Scope(a)' = Scope(a) /\ Scope(b)' = Scope(b) /\ Keyed(a) /\ Succeeded(a)
    BY <1>2, <2>1, <2>2, Stable DEF Succeeded
  <2>4. Scope(a) \notin faulted /\ Scope(b) \notin faulted'
    BY <2>3 DEF Effect, CacheEffect
  <2>5. cache[Scope(b)] # None
    BY <2>1, <2>3, <2>4 DEF StoredBeforeAnswer
  <2>6. /\ pc[b] \notin {"handler", "send", "store"}
        /\ b \notin exchange
        /\ response[b] # Queued(b)
    BY <2>1, <2>3, <2>4 DEF RetryStops
  <2>7. Keyed(b)
    BY <1>2, <2>1, <2>3 DEF Keyed, Scope, Arrival
  <2>8. pc'[b] \notin {"handler", "send", "store"}
    BY <2>4, <2>5, <2>6, <2>7 DEF Effect, StageEffect
  <2>9. b \notin exchange'
    BY <2>6 DEF Effect, StageEffect
  <2>10. response'[b] # Queued(b)
    BY <2>6, ResponseKinds DEF Effect, ResponseEffect
  <2> QED
    BY <2>8, <2>9, <2>10
<1> QED
    BY <1>1, <1>2

\* The history variable names only answered requests.
LEMMA StepEarlierDone ==
    ASSUME TypeOK, EarlierDone, [Next]_vars
    PROVE  EarlierDone'
<1> USE DEF TypeOK, EarlierDone, server, stores, history, Goto, Build,
        InFlight, Awaiting
<1>1. ASSUME NEW r \in Requests, RequireAuth(r) PROVE EarlierDone'
    BY <1>1 DEF RequireAuth
<1>2. ASSUME NEW r \in Requests, ReadSalt(r) PROVE EarlierDone'
    BY <1>2 DEF ReadSalt
<1>3. ASSUME NEW r \in Requests, CheckSignature(r) PROVE EarlierDone'
    BY <1>3 DEF CheckSignature
<1>4. ASSUME NEW r \in Requests, IdempotencyLookup(r) PROVE EarlierDone'
    BY <1>4 DEF IdempotencyLookup
<1>5. ASSUME NEW r \in Requests, Handle(r) PROVE EarlierDone'
    BY <1>5 DEF Handle
<1>6. ASSUME NEW r \in Requests, Publish(r) PROVE EarlierDone'
    BY <1>6 DEF Publish, Sent
<1>7. ASSUME NEW r \in Requests, IdempotencyStore(r) PROVE EarlierDone'
    BY <1>7 DEF IdempotencyStore, Stored
<1>8. ASSUME NEW r \in Requests, Respond(r) PROVE EarlierDone'
    BY <1>8 DEF Respond
<1>9. ASSUME NEW r \in Requests, RecordRequest(r) PROVE EarlierDone'
    BY <1>9 DEF RecordRequest
<1>10. ASSUME NEW r \in Requests, Disconnect(r) PROVE EarlierDone'
    BY <1>10 DEF Disconnect, Sent, Stored
<1>11. ASSUME Restart PROVE EarlierDone'
    BY <1>11 DEF Restart
<1>12. ASSUME LoseConnection PROVE EarlierDone'
    BY <1>12 DEF LoseConnection
<1>13. ASSUME NEW c \in Clients, RegenerateSalt(c) PROVE EarlierDone'
    BY <1>13 DEF RegenerateSalt
<1>14. ASSUME NEW s \in Scopes, Expire(s) PROVE EarlierDone'
    BY <1>14 DEF Expire
<1>15. ASSUME UNCHANGED vars PROVE EarlierDone'
    BY <1>15 DEF vars
<1> QED
    BY <1>1, <1>2, <1>3, <1>4, <1>5, <1>6, <1>7, <1>8,
       <1>9, <1>10, <1>11, <1>12, <1>13, <1>14, <1>15 DEF Next, Step

\* Billing rows describe finished requests.
LEMMA StepRowsSound ==
    ASSUME RowsSound, Effect, TypeOK
    PROVE  RowsSound'
<1>1. ASSUME NEW r \in trackers' PROVE pc'[r] = "done"
    BY DEF RowsSound, Effect, TrackEffect, StageEffect, TypeOK
<1>2. ASSUME NEW r \in Requests, pc[r] = "done"
      PROVE  pc'[r] = "done" /\ Row(r)' = Row(r)
    BY <1>2 DEF Effect, StageEffect, Row
<1>3. ASSUME NEW x \in api_requests'
      PROVE  pc'[x.request] = "done" /\ x = Row(x.request)'
  <2>1. PICK r \in Requests : x = Row(r) /\ pc[r] = "done"
    BY DEF RowsSound, Effect, TrackEffect, TypeOK
  <2>2. x.request = r
    BY <2>1 DEF Row
  <2> QED
    BY <1>2, <2>1, <2>2
<1> QED
    BY <1>1, <1>3 DEF RowsSound


\* The inductive invariant holds initially.
LEMMA InitIInv == Init => IInv
<1> SUFFICES ASSUME Init PROVE IInv
    OBVIOUS
<1>1. TypeOK /\ Arrival
    BY InitTyped
<1>2. Outcome /\ ReplaySound /\ EarlierDone
    BY DEF Init, Outcome, ReplaySound, EarlierDone, OutcomesOf, NoResponse
<1>3. CacheSound /\ RowsSound
    BY DEF Init, CacheSound, RowsSound
<1>4. StoredBeforeAnswer /\ RetryStops /\ SaltSeen
    BY DEF Init, StoredBeforeAnswer, RetryStops, SaltSeen, InFlight, Awaiting
<1> QED
    BY <1>1, <1>2, <1>3, <1>4 DEF IInv

\* Every step preserves the inductive invariant.
LEMMA StepIInv == IInv /\ [Next]_vars => IInv'
<1> SUFFICES ASSUME IInv, [Next]_vars PROVE IInv'
    OBVIOUS
<1> USE DEF IInv
<1>1. TypeOK' /\ Arrival' /\ Outcome' /\ Effect
    BY StepTyped, StepOutcome, StepEffect
<1>2. CacheSound'
    BY <1>1, StepCacheSound
<1>3. ReplaySound'
    BY <1>1, StepReplaySound
<1>4. EarlierDone'
    BY StepEarlierDone
<1>5. StoredBeforeAnswer'
    BY <1>1, StepStoredBeforeAnswer
<1>6. RetryStops'
    BY <1>1, <1>4, StepRetryStops
<1>7. SaltSeen'
    BY StepSaltSeen
<1>8. RowsSound'
    BY <1>1, StepRowsSound
<1> QED
    BY <1>1, <1>2, <1>3, <1>4, <1>5, <1>6, <1>7, <1>8

\* IInv holds in every reachable state.
THEOREM Invariance == Spec => []IInv
BY InitIInv, StepIInv, PTL DEF Spec

-----------------------------------------------------------------------------
(* What follows from it *)

\* A replayed answer names an operation that a different request of the same
\* client and key ran, and the replaying request queued nothing
\* (middleware/idempotency.rs, cache hit), for any number of requests.
THEOREM ReplayCorrect == Spec => []ReplayNamesOwnScope
<1>1. IInv => ReplayNamesOwnScope
  <2> SUFFICES ASSUME IInv, NEW r \in Requests, response[r].replayed
               PROVE  /\ r \notin exchange
                      /\ response[r].op \in Requests \ {r}
                      /\ Scope(response[r].op) = Scope(r)
                      /\ response[response[r].op] = Queued(response[r].op)
      BY DEF ReplayNamesOwnScope
  <2>1. r \notin exchange
      BY ResponseKinds DEF IInv, Outcome, NoResponse
  <2> QED
      BY <2>1 DEF IInv, ReplaySound
<1> QED
    BY Invariance, <1>1, PTL

\* A retry sent after the answer never runs the operation again while no Redis
\* call fails for its key and the entry has not expired.
THEOREM RetryCorrect == Spec => []SequentialRetryIsReplayed
<1>1. IInv => SequentialRetryIsReplayed
    BY DEF IInv, RetryStops, SequentialRetryIsReplayed
<1> QED
    BY Invariance, <1>1, PTL

\* An entry of Redis is overwritten only by a request that overlapped its owner.
THEOREM OverwriteCorrect == Spec => OverwriteOnlyByOverlap
<1>1. ASSUME IInv, [Next]_vars, NEW s \in Scopes, cache[s] # None,
             cache'[s] \notin {None, cache[s]}, s \notin faulted
      PROVE  cache[s] \notin earlier[cache'[s]]
  <2>1. PICK r \in Requests : pc[r] = "store" /\ Scope(r) = s /\ cache'[s] = r
      BY <1>1, StepEffect DEF IInv, Effect, CacheEffect
  <2>2. PICK a \in Requests : a = cache[s]
      BY <1>1 DEF IInv, TypeOK
  <2>3. Keyed(a) /\ Scope(a) = s /\ response[a] = Queued(a)
      BY <1>1, <2>2 DEF IInv, CacheSound
  <2>4. Succeeded(a)
      BY <2>3, ResponseKinds DEF Succeeded
  <2> QED
      BY <1>1, <2>1, <2>2, <2>3, <2>4 DEF IInv, RetryStops
<1>2. IInv /\ [Next]_vars =>
        [\A s \in Scopes :
            (/\ cache[s] # None
             /\ cache'[s] \notin {None, cache[s]}
             /\ s \notin faulted)
            => cache[s] \notin earlier[cache'[s]]]_vars
    BY <1>1
<1> QED
    BY Invariance, <1>2, PTL DEF Spec, OverwriteOnlyByOverlap

\* No work for an account with a salt unless it is signed with one that was
\* current at some moment since the request came in (middleware/signature.rs).
THEOREM SignatureCorrect == Spec => []FreshSignature
<1>1. IInv => FreshSignature
    BY DEF IInv, TypeOK, SaltSeen, FreshSignature
<1> QED
    BY Invariance, <1>1, PTL

\* Billing rows agree with the work that was queued (request_tracker.rs).
THEOREM BillingCorrect == Spec => []BillingMatchesWork
<1> SUFFICES ASSUME IInv PROVE BillingMatchesWork
    BY Invariance, PTL
<1>1. ASSUME NEW x \in api_requests
      PROVE  /\ x.request \in Requests
             /\ x.status = response[x.request].status
             /\ x.hit = response[x.request].replayed
    BY DEF IInv, TypeOK, RowsSound, Row
<1>2. ASSUME NEW x \in api_requests, x.hit \/ x.status \in {400, 401}
      PROVE  x.request \notin exchange
    BY <1>1, <1>2, ResponseKinds DEF IInv, Outcome, NoResponse
<1>3. ASSUME NEW x \in api_requests, x.status = 200, ~ x.hit
      PROVE  response[x.request] = Queued(x.request) /\ Succeeded(x.request)
    BY <1>1, <1>3, ResponseKinds
       DEF IInv, Outcome, OutcomesOf, NoResponse, Succeeded
<1>4. ASSUME NEW x \in api_requests, x.status = 200, ~ x.hit,
             NEW y \in api_requests, y.status = 200, ~ y.hit,
             Keyed(x.request), Scope(x.request) = Scope(y.request),
             Scope(x.request) \notin faulted
      PROVE  x.request \notin earlier[y.request]
  <2>1. x.request \in Requests /\ y.request \in Requests
      BY <1>1
  <2>2. Succeeded(x.request) /\ response[y.request] = Queued(y.request)
      BY <1>3, <1>4
  <2> QED
      BY <1>4, <2>1, <2>2 DEF IInv, RetryStops
<1> QED
    BY <1>2, <1>3, <1>4 DEF BillingMatchesWork
=============================================================================
