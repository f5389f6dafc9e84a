------------------------ MODULE BusinessServiceProofs ------------------------
(***************************************************************************)
(* What TLAPS proves of BusinessService, for any number of requests,       *)
(* clients, keys, connections and calls of get_request_stats.  What it     *)
(* needs of the requests themselves it takes from RequestPipelineProofs.   *)
(***************************************************************************)
EXTENDS BusinessService, RequestPipelineProofs,
        FiniteSetTheorems, SequenceTheorems

-----------------------------------------------------------------------------
(* The pool and the statistics change nothing about the requests *)

\* A step of the service is a step of RequestPipeline or leaves it alone.
LEMMA ServiceStepMaps == [ServiceNext]_serviceVars => [Next]_vars
<1> SUFFICES ASSUME [ServiceNext]_serviceVars PROVE [Next]_vars
    OBVIOUS
<1>1. ASSUME NEW r \in Requests, PoolStep(r) PROVE Next
    BY <1>1 DEF PoolStep, Lookup, Store, Leave, Next, Step
<1>2. ASSUME NEW r \in Requests, GetConnection(r) PROVE UNCHANGED vars
    BY <1>2 DEF GetConnection
<1>3. ASSUME NEW r \in Requests, PoolDisconnect(r) PROVE Next
    BY <1>3 DEF PoolDisconnect, Next
<1>4. CASE PoolRestart
    BY <1>4 DEF PoolRestart, Next
<1>5. CASE PoolSurroundings
    BY <1>5 DEF PoolSurroundings, Next
<1>6. ASSUME NEW r \in Requests, InsertRow(r) PROVE Next
    BY <1>6 DEF InsertRow, Next
<1> QED
    BY <1>1, <1>2, <1>3, <1>4, <1>5, <1>6 DEF ServiceNext, PoolNext, serviceVars

\* Whatever happens with pool, inserts and statistics is a behaviour of
\* RequestPipeline, so every theorem about it holds of the service.
THEOREM PoolRefinement == ServiceSpec => PipelineSpec
<1>1. ServiceInit => Init
    BY DEF ServiceInit, PoolInit
<1> QED
    BY <1>1, ServiceStepMaps, PTL DEF ServiceSpec, PipelineSpec, Spec

-----------------------------------------------------------------------------
(* The inductive invariant *)

Started == {r \in Requests : pc[r] # "new"}

\* Finitely many requests have come so far, and as many connections are out.
FinitelyMany == IsFiniteSet(Started) /\ IsFiniteSet(held)

\* A request begins at most one INSERT, and not before it is over.
RecordedOnce ==
    /\ \A i \in DOMAIN recorded : pc[recorded[i]] = "done"
    /\ \A i, j \in DOMAIN recorded : recorded[i] = recorded[j] => i = j

\* What was there is there, and a total that was true once is a lower bound from
\* then on.
StillCounted ==
    \A q \in Queries :
        LET now == RowsOf(query[q].client) IN
        /\ query[q].stage \in {"new", "count"} => query[q].total = 0
        /\ query[q].stage = "new" => query[q].there = {}
        /\ query[q].there \subseteq now
        /\ query[q].total <= Cardinality(now)
        /\ query[q].stage \in {"list", "done"} =>
              query[q].total >= Cardinality(query[q].there)

ServiceInv ==
    /\ ServiceTypeOK /\ FinitelyMany /\ ConnectionsAreReturned
    /\ RecordedOnce /\ StillCounted /\ StatsAgree

-----------------------------------------------------------------------------
(* The effect of a step *)

\* At most one request starts; a tracker is new when its request ends; INSERTs
\* begin one at a time, each for a tracker, and are committed for good.
TableEffect ==
    /\ \E r : Started' \subseteq Started \cup {r}
    /\ \A r \in trackers' : r \in trackers \/ pc[r] = "respond"
    /\ Committed \subseteq Committed'
    /\ \/ recorded' = recorded
       \/ \E r \in trackers :
             /\ recorded' = Append(recorded, r)
             /\ \A i \in DOMAIN recorded : recorded[i] # r

\* A step of the service, seen from the table.
LEMMA StepTable == TypeOK /\ [ServiceNext]_serviceVars => TableEffect
<1> SUFFICES ASSUME TypeOK, [ServiceNext]_serviceVars PROVE TableEffect
    OBVIOUS
<1> DEFINE Starts == \E r : Started' \subseteq Started \cup {r}
           Tracks == /\ \A r \in trackers' : r \in trackers \/ pc[r] = "respond"
                     /\ api_requests \subseteq api_requests'
<1> USE DEF TypeOK, Started, server, stores, history, Goto, Build
<1>1. ASSUME NEW r \in Requests, RequireAuth(r) PROVE Starts /\ Tracks
  <2>1. Started' \subseteq Started \cup {r}
    BY <1>1 DEF RequireAuth
  <2> QED
    BY <1>1, <2>1 DEF RequireAuth
<1>2. ASSUME NEW r \in Requests, Step(r) PROVE Starts /\ Tracks
  <2>1. Started' \subseteq Started \cup {r}
    BY <1>2 DEF Step, ReadSalt, CheckSignature, IdempotencyLookup, Handle,
                Publish, IdempotencyStore, Respond
  <2>2. Tracks
    BY <1>2 DEF Step, ReadSalt, CheckSignature, IdempotencyLookup, Handle,
                Publish, IdempotencyStore, Respond
  <2> QED
    BY <2>1, <2>2
<1>3. ASSUME NEW r \in Requests, RecordRequest(r) PROVE Starts /\ Tracks
    BY <1>3 DEF RecordRequest
<1>4. ASSUME NEW r \in Requests, Disconnect(r) PROVE Starts /\ Tracks
  <2>1. Started' \subseteq Started \cup {r}
    BY <1>4 DEF Disconnect
  <2> QED
    BY <1>4, <2>1 DEF Disconnect
<1>5. ASSUME Restart PROVE Starts /\ Tracks
  <2>1. Started' \subseteq Started
    BY <1>5 DEF Restart, InFlight, Stages
  <2>2. Starts
    BY <2>1
  <2>3. Tracks
    BY <1>5 DEF Restart
  <2> QED
    BY <2>2, <2>3
<1>6. ASSUME UNCHANGED <<server, api_requests>> PROVE Starts /\ Tracks
    BY <1>6
<1>7. Starts /\ Tracks
  <2>1. [Next]_vars
    BY ServiceStepMaps
  <2>2. ASSUME NEW c \in Clients, RegenerateSalt(c) PROVE UNCHANGED <<server, api_requests>>
    BY <2>2 DEF RegenerateSalt
  <2>3. ASSUME NEW s \in Scopes, Expire(s) PROVE UNCHANGED <<server, api_requests>>
    BY <2>3 DEF Expire
  <2>4. ASSUME LoseConnection PROVE UNCHANGED <<server, api_requests>>
    BY <2>4 DEF LoseConnection
  <2>5. ASSUME UNCHANGED vars PROVE UNCHANGED <<server, api_requests>>
    BY <2>5 DEF vars
  <2> HIDE DEF Starts, Tracks, server
  <2> QED
    BY <1>1, <1>2, <1>3, <1>4, <1>5, <1>6, <2>1, <2>2, <2>3, <2>4, <2>5 DEF Next
<1>8. \/ recorded' = recorded
      \/ \E r \in trackers : /\ recorded' = Append(recorded, r)
                            /\ \A i \in DOMAIN recorded : recorded[i] # r
    BY DEF ServiceNext, serviceVars, StampRow, InsertRow
<1>9. Committed \subseteq Committed'
    BY <1>7 DEF Committed
<1> QED
    BY <1>7, <1>8, <1>9 DEF TableEffect

\* The connections are where their requests are: each step either takes one out
\* for a request that stays, or leaves those whose requests stay.
LEMMA StepConnections ==
    /\ TypeOK /\ held \subseteq Requests \X RedisStages /\ IsFiniteSet(held)
    /\ ConnectionsAreReturned /\ [ServiceNext]_serviceVars
    => /\ held' \subseteq Requests \X RedisStages /\ IsFiniteSet(held')
       /\ ConnectionsAreReturned'
<1> SUFFICES ASSUME TypeOK, held \subseteq Requests \X RedisStages,
                    IsFiniteSet(held), ConnectionsAreReturned,
                    [ServiceNext]_serviceVars
             PROVE  /\ held' \subseteq Requests \X RedisStages
                    /\ IsFiniteSet(held') /\ ConnectionsAreReturned'
    OBVIOUS
<1> DEFINE Goal == /\ held' \subseteq Requests \X RedisStages
                   /\ IsFiniteSet(held') /\ ConnectionsAreReturned'
           Fewer == /\ held' \subseteq held
                    /\ \A h \in held' : pc'[h[1]] = pc[h[1]]
<1>1. Fewer => Goal
  <2> SUFFICES ASSUME Fewer PROVE Goal
    OBVIOUS
  <2>1. IsFiniteSet(held') /\ Cardinality(held') <= Cardinality(held)
    BY FS_Subset
  <2>2. Cardinality(held) \in Nat /\ Cardinality(held') \in Nat
    BY <2>1, FS_CardinalityType
  <2>3. Cardinality(held') <= PoolSize
    BY <2>1, <2>2, PoolAssumption DEF ConnectionsAreReturned
  <2>4. \A h \in held' : pc'[h[1]] = h[2]
    BY DEF ConnectionsAreReturned
  <2> QED
    BY <2>1, <2>3, <2>4 DEF ConnectionsAreReturned
<1>2. ASSUME NEW r \in Requests, GetConnection(r) PROVE Goal
  <2>1. /\ Cardinality(held) < PoolSize /\ pc[r] \in RedisStages
        /\ held' = held \cup {<<r, pc[r]>>} /\ pc' = pc
    BY <1>2 DEF GetConnection, vars, server
  <2>2. /\ IsFiniteSet(held')
        /\ Cardinality(held') \in {Cardinality(held), Cardinality(held) + 1}
    BY <2>1, FS_AddElement
  <2>3. Cardinality(held) \in Nat
    BY FS_CardinalityType
  <2>4. Cardinality(held') <= PoolSize
    BY <2>1, <2>2, <2>3, PoolAssumption
  <2>5. \A h \in held' : pc'[h[1]] = h[2]
    BY <2>1 DEF ConnectionsAreReturned
  <2>6. held' \subseteq Requests \X RedisStages
    BY <2>1
  <2> QED
    BY <2>2, <2>4, <2>5, <2>6 DEF ConnectionsAreReturned
<1>3. ASSUME NEW r \in Requests, GiveBack(r),
             \A x \in Requests \ {r} : pc'[x] = pc[x]
      PROVE  Fewer
    BY <1>3 DEF GiveBack
<1>4. ASSUME NEW r \in Requests, UNCHANGED held, pc[r] \notin RedisStages,
             \A x \in Requests \ {r} : pc'[x] = pc[x]
      PROVE  Fewer
  <2>1. \A h \in held : h[1] \in Requests \ {r}
    BY <1>4 DEF ConnectionsAreReturned
  <2> QED
    BY <1>4, <2>1
<1>5. ASSUME NEW r \in Requests, PoolStep(r) PROVE Fewer
  <2> USE DEF TypeOK, Goto, Build, RedisStages
  <2>1. ASSUME Lookup(r) \/ Store(r) \/ Leave(r) PROVE Fewer
    <3>1. GiveBack(r) /\ \A x \in Requests \ {r} : pc'[x] = pc[x]
      BY <2>1 DEF Lookup, Store, Leave, IdempotencyLookup, IdempotencyStore, Respond
    <3> QED
      BY <1>3, <3>1
  <2>2. ASSUME ReadSalt(r) \/ CheckSignature(r) \/ Handle(r) \/ Publish(r),
               UNCHANGED held
        PROVE  Fewer
    <3>1. pc[r] \notin RedisStages /\ \A x \in Requests \ {r} : pc'[x] = pc[x]
      BY <2>2 DEF ReadSalt, CheckSignature, Handle, Publish
    <3> HIDE DEF Fewer, RedisStages
    <3> QED
      BY <1>4, <2>2, <3>1
  <2> QED
    BY <1>5, <2>1, <2>2 DEF PoolStep
<1>6. ASSUME NEW r \in Requests, PoolDisconnect(r) PROVE Fewer
  <2>1. GiveBack(r) /\ \A x \in Requests \ {r} : pc'[x] = pc[x]
    BY <1>6 DEF PoolDisconnect, Disconnect, Goto, TypeOK
  <2> QED
    BY <1>3, <2>1
<1>7. ASSUME PoolRestart PROVE Fewer
    BY <1>7 DEF PoolRestart
<1>8. ASSUME UNCHANGED <<held, pc>> PROVE Fewer
    BY <1>8
<1>9. ASSUME PoolSurroundings PROVE Fewer
  <2>1. ASSUME NEW r \in Requests, RequireAuth(r), UNCHANGED held PROVE Fewer
    <3>1. pc[r] \notin RedisStages /\ \A x \in Requests \ {r} : pc'[x] = pc[x]
      BY <2>1 DEF RequireAuth, Build, Goto, TypeOK, RedisStages
    <3> HIDE DEF Fewer, RedisStages
    <3> QED
      BY <1>4, <2>1, <3>1
  <2> QED
    BY <1>8, <1>9, <2>1
       DEF PoolSurroundings, RegenerateSalt, Expire, LoseConnection, server
<1>10. ASSUME NEW r \in Requests, InsertRow(r), UNCHANGED held PROVE Fewer
    BY <1>8, <1>10 DEF InsertRow, RecordRequest
<1>11. ASSUME UNCHANGED <<vars, held>> PROVE Fewer
    BY <1>8, <1>11 DEF vars, server
<1> HIDE DEF Goal, Fewer
<1>12. Goal
    BY <1>1, <1>2, <1>5, <1>6, <1>7, <1>9, <1>10, <1>11
       DEF ServiceNext, PoolNext, serviceVars
<1> QED
    BY <1>12 DEF Goal

\* A row stays at its place, of its client and committed.
LEMMA RowsGrow ==
    ASSUME TypeOK, recorded \in Seq(Requests), RecordedOnce,
           StageEffect, TableEffect, NEW c
    PROVE  recorded' \in Seq(Requests) /\ RowsOf(c) \subseteq RowsOf(c)'
<1>1. /\ recorded' \in Seq(Requests)
      /\ \A i \in DOMAIN recorded :
            i \in DOMAIN recorded' /\ recorded'[i] = recorded[i]
  <2>1. CASE recorded' = recorded
    BY <2>1
  <2>2. CASE \E r \in trackers : recorded' = Append(recorded, r)
    <3> PICK r \in trackers : recorded' = Append(recorded, r)
      BY <2>2
    <3>1. r \in Requests
      BY DEF TypeOK
    <3> QED
      BY <3>1
  <2> QED
    BY <2>1, <2>2 DEF TableEffect
<1>2. ASSUME NEW i \in DOMAIN recorded PROVE req'[recorded[i]] = req[recorded[i]]
  <2>1. recorded[i] \in Requests
    BY ElementOfSeq
  <2>2. pc[recorded[i]] # "new"
    BY DEF RecordedOnce
  <2> QED
    BY <2>1, <2>2 DEF StageEffect
<1>3. RowsOf(c)' = {i \in DOMAIN recorded' : /\ recorded'[i] \in Committed'
                                            /\ req'[recorded'[i]].client = c}
    BY DEF RowsOf
<1>4. \A i \in RowsOf(c) : i \in RowsOf(c)'
    BY <1>1, <1>2, <1>3 DEF RowsOf, TableEffect
<1> QED
    BY <1>1, <1>4

\* A client has finitely many rows.
LEMMA RowsFinite ==
    ASSUME recorded \in Seq(Requests), NEW c
    PROVE  /\ IsFiniteSet(RowsOf(c)) /\ Cardinality(RowsOf(c)) \in Nat
           /\ RowsOf(c) \subseteq 1..Len(recorded)
<1>1. RowsOf(c) \subseteq 1..Len(recorded) /\ Len(recorded) \in Nat
    BY DEF RowsOf
<1>2. IsFiniteSet(1..Len(recorded))
    BY <1>1, FS_Interval
<1>3. IsFiniteSet(RowsOf(c))
    BY <1>1, <1>2, FS_Subset
<1> QED
    BY <1>1, <1>3, FS_CardinalityType

\* The table keeps its one row per request.
LEMMA StepRecordedOnce ==
    /\ TypeOK /\ recorded \in Seq(Requests) /\ RecordedOnce /\ RowsSound
    /\ StageEffect /\ TableEffect
    => RecordedOnce'
<1> SUFFICES ASSUME TypeOK, recorded \in Seq(Requests), RecordedOnce, RowsSound,
                    StageEffect, TableEffect
             PROVE  RecordedOnce'
    OBVIOUS
<1>1. ASSUME NEW i \in DOMAIN recorded PROVE pc'[recorded[i]] = "done"
  <2>1. recorded[i] \in Requests
    BY ElementOfSeq
  <2> QED
    BY <2>1 DEF RecordedOnce, StageEffect
<1>2. CASE recorded' = recorded
    BY <1>1, <1>2 DEF RecordedOnce
<1>3. ASSUME NEW r \in trackers, recorded' = Append(recorded, r),
             \A i \in DOMAIN recorded : recorded[i] # r
      PROVE  RecordedOnce'
  <2>1. r \in Requests /\ pc'[r] = "done"
    BY DEF TypeOK, RowsSound, StageEffect
  <2>2. /\ DOMAIN recorded = 1..Len(recorded) /\ Len(recorded) \in Nat
        /\ DOMAIN recorded' = 1..(Len(recorded) + 1)
        /\ \A i \in DOMAIN recorded : recorded'[i] = recorded[i]
        /\ recorded'[Len(recorded) + 1] = r
    BY <1>3, <2>1
  <2>3. \A i \in DOMAIN recorded' : i \in DOMAIN recorded \/ i = Len(recorded) + 1
    BY <2>2
  <2> QED
    BY <1>1, <1>3, <2>1, <2>2, <2>3 DEF RecordedOnce
<1> QED
    BY <1>2, <1>3 DEF TableEffect

-----------------------------------------------------------------------------
(* What a call of get_request_stats has in hand *)

\* A query is left alone, or goes on, and then the table is left alone.
QueryEffect ==
    \A q \in Queries :
        \/ query'[q] = query[q]
        \/ /\ UNCHANGED <<recorded, req, api_requests>>
           /\ \/ \E c \in Clients :
                    /\ query[q].stage = "new"
                    /\ query'[q] =
                          [query[q] EXCEPT !.stage = "count", !.client = c,
                                           !.there = RowsOf(c)]
              \/ /\ query[q].stage = "count"
                 /\ query'[q] =
                       [query[q] EXCEPT
                           !.stage = "list",
                           !.total = Cardinality(RowsOf(query[q].client))]
              \/ /\ query[q].stage = "list"
                 /\ query'[q] =
                       [query[q] EXCEPT
                           !.stage = "done",
                           !.listed = Newest(RowsOf(query[q].client))]
              \/ /\ query[q].stage \in {"count", "list"}
                 /\ query'[q] = [query[q] EXCEPT !.stage = "failed"]

\* A step of the service, seen from one call.
LEMMA StepQuery == ServiceTypeOK /\ [ServiceNext]_serviceVars => QueryEffect
<1> SUFFICES ASSUME ServiceTypeOK, [ServiceNext]_serviceVars PROVE QueryEffect
    OBVIOUS
<1>1. CASE UNCHANGED query
    BY <1>1 DEF QueryEffect
<1>2. ASSUME NEW p \in Queries, AskStats(p) \/ StatsStep(p) \/ StatsFail(p),
             UNCHANGED <<vars, held, recorded>>
      PROVE  QueryEffect
  <2>1. UNCHANGED <<recorded, req, api_requests>>
    BY <1>2 DEF vars, server, stores
  <2>2. CASE AskStats(p)
    BY <2>1, <2>2 DEF AskStats, QueryEffect, ServiceTypeOK
  <2>3. CASE CountRows(p)
    BY <2>1, <2>3 DEF CountRows, QueryEffect, ServiceTypeOK
  <2>4. CASE ListRows(p)
    BY <2>1, <2>4 DEF ListRows, QueryEffect, ServiceTypeOK
  <2>5. CASE StatsFail(p)
    BY <2>1, <2>5 DEF StatsFail, QueryEffect, ServiceTypeOK
  <2> QED
    BY <1>2, <2>2, <2>3, <2>4, <2>5 DEF StatsStep
<1> QED
    BY <1>1, <1>2 DEF ServiceNext, serviceVars

\* A client's rows are never fewer than they were.
LEMMA RowsOnlyMore ==
    ASSUME TypeOK, recorded \in Seq(Requests), RecordedOnce,
           StageEffect, TableEffect, NEW c
    PROVE  /\ Cardinality(RowsOf(c)) \in Nat /\ Cardinality(RowsOf(c)') \in Nat
           /\ Cardinality(RowsOf(c)) <= Cardinality(RowsOf(c)')
<1>1. RowsOf(c) \subseteq RowsOf(c)' /\ recorded' \in Seq(Requests)
    BY RowsGrow
<1>2. RowsOf(c)' \subseteq DOMAIN recorded'
    BY DEF RowsOf
<1>3. DOMAIN recorded' = 1..Len(recorded') /\ Len(recorded') \in Nat
    BY <1>1
<1>4. IsFiniteSet(1..Len(recorded'))
    BY <1>3, FS_Interval
<1>5. IsFiniteSet(RowsOf(c)')
    BY <1>2, <1>3, <1>4, FS_Subset
<1>6. Cardinality(RowsOf(c)) <= Cardinality(RowsOf(c)')
    BY <1>1, <1>5, FS_Subset
<1>7. Cardinality(RowsOf(c)') \in Nat
    BY <1>5, FS_CardinalityType
<1> QED
    BY <1>6, <1>7, RowsFinite

\* A total stays a lower bound: the client's rows only get more.
LEMMA StepStillCounted ==
    /\ TypeOK /\ ServiceTypeOK /\ RecordedOnce /\ StillCounted
    /\ StageEffect /\ TableEffect /\ QueryEffect
    => StillCounted'
<1> SUFFICES ASSUME TypeOK, ServiceTypeOK, RecordedOnce, StillCounted,
                    StageEffect, TableEffect, QueryEffect,
                    NEW q \in Queries, NEW c, c = query[q].client,
                    NEW d, d = query'[q].client
             PROVE  /\ query'[q].stage \in {"new", "count"} => query'[q].total = 0
                    /\ query'[q].stage = "new" => query'[q].there = {}
                    /\ query'[q].there \subseteq RowsOf(d)'
                    /\ query'[q].total <= Cardinality(RowsOf(d)')
                    /\ query'[q].stage \in {"list", "done"} =>
                          query'[q].total >= Cardinality(query'[q].there)
    BY DEF StillCounted, RowsOf
<1>1. /\ recorded \in Seq(Requests) /\ query[q] \in Query
      /\ query[q].total \in Nat
    BY DEF ServiceTypeOK, Query
<1>2. \A e \in {c, d} :
          /\ Cardinality(RowsOf(e)) \in Nat /\ Cardinality(RowsOf(e)') \in Nat
          /\ Cardinality(RowsOf(e)) <= Cardinality(RowsOf(e)')
          /\ RowsOf(e) \subseteq RowsOf(e)'
    BY <1>1, RowsOnlyMore, RowsGrow
<1>3. /\ query[q].stage \in {"new", "count"} => query[q].total = 0
      /\ query[q].stage = "new" => query[q].there = {}
      /\ query[q].there \subseteq RowsOf(c)
      /\ query[q].total <= Cardinality(RowsOf(c))
      /\ query[q].stage \in {"list", "done"} =>
            query[q].total >= Cardinality(query[q].there)
    BY DEF StillCounted, RowsOf
<1>4. CASE query'[q] = query[q]
    BY <1>1, <1>2, <1>3, <1>4
<1>5. CASE /\ query[q].stage = "count"
           /\ query'[q] =
                 [query[q] EXCEPT
                     !.stage = "list",
                     !.total = Cardinality(RowsOf(query[q].client))]
  <2>1. /\ d = c /\ query'[q].stage = "list"
        /\ query'[q].total = Cardinality(RowsOf(c))
        /\ query'[q].there = query[q].there
    BY <1>1, <1>5 DEF Query, RowsOf
  <2>2. Cardinality(query[q].there) <= Cardinality(RowsOf(c))
    BY <1>1, <1>3, RowsFinite, FS_Subset
  <2>3. Cardinality(query[q].there) \in Nat
    BY <1>1, <1>3, RowsFinite, FS_Subset, FS_CardinalityType
  <2> QED
    BY <1>2, <1>3, <2>1, <2>2, <2>3
<1>6. CASE \E e \in Clients :
              /\ query[q].stage = "new"
              /\ query'[q] = [query[q] EXCEPT !.stage = "count", !.client = e,
                                              !.there = RowsOf(e)]
  <2>1. /\ query'[q].stage = "count" /\ query'[q].there = RowsOf(d)
        /\ query'[q].total = 0
    BY <1>1, <1>3, <1>6 DEF Query, RowsOf
  <2> QED
    BY <1>2, <2>1
<1>7. CASE /\ query'[q].total = query[q].total /\ query'[q].there = query[q].there
           /\ d = c
           /\ query'[q].stage \in {"done", "failed"}
           /\ query'[q].stage = "done" => query[q].stage = "list"
    BY <1>1, <1>2, <1>3, <1>7
<1> QED
    BY <1>1, <1>4, <1>5, <1>6, <1>7 DEF QueryEffect, Query

\* An answer stays an answer from rows the client has.
LEMMA StepStatsAgree ==
    /\ TypeOK /\ ServiceTypeOK /\ RecordedOnce /\ StillCounted /\ StatsAgree
    /\ StageEffect /\ TableEffect /\ QueryEffect
    => StatsAgree'
<1> SUFFICES ASSUME TypeOK, ServiceTypeOK, RecordedOnce, StillCounted, StatsAgree,
                    StageEffect, TableEffect, QueryEffect,
                    NEW q \in Queries, query'[q].stage = "done",
                    NEW c, c = query'[q].client
             PROVE  \E rows \in SUBSET (RowsOf(c)') :
                        /\ query'[q].there \subseteq rows
                        /\ query'[q].listed = Newest(rows)
                        /\ query'[q].total
                              \in Cardinality(query'[q].there)..Cardinality(rows)
    BY DEF StatsAgree, RowsOf
<1>1. recorded \in Seq(Requests) /\ query[q] \in Query
    BY DEF ServiceTypeOK
<1>2. RowsOf(c) \subseteq RowsOf(c)'
    BY <1>1, RowsGrow
<1>3. CASE query'[q] = query[q]
  <2>1. c = query[q].client /\ query[q].stage = "done"
    BY <1>3
  <2> PICK rows \in SUBSET RowsOf(c) :
          /\ query[q].there \subseteq rows
          /\ query[q].listed = Newest(rows)
          /\ query[q].total \in Cardinality(query[q].there)..Cardinality(rows)
    BY <2>1 DEF StatsAgree, RowsOf
  <2> QED
    BY <1>2, <1>3
<1>4. CASE /\ query[q].stage = "list"
           /\ query'[q] =
                 [query[q] EXCEPT !.stage = "done",
                                  !.listed = Newest(RowsOf(query[q].client))]
  <2>1. /\ query[q].client = c /\ query'[q].total = query[q].total
        /\ query'[q].listed = Newest(RowsOf(query[q].client))
        /\ query'[q].there = query[q].there
    BY <1>1, <1>4 DEF Query
  <2>2. RowsOf(query[q].client) = RowsOf(c)
    BY <2>1 DEF RowsOf
  <2>3. /\ query[q].there \subseteq RowsOf(c)
        /\ query[q].total <= Cardinality(RowsOf(c))
        /\ query[q].total >= Cardinality(query[q].there)
    BY <1>4, <2>2 DEF StillCounted
  <2>4. /\ Cardinality(RowsOf(c)) \in Nat /\ Cardinality(query[q].there) \in Nat
        /\ query[q].total \in Nat
    BY <1>1, <2>3, RowsFinite, FS_Subset, FS_CardinalityType DEF Query
  <2>5. query'[q].total \in Cardinality(query'[q].there)..Cardinality(RowsOf(c))
    BY <2>1, <2>3, <2>4
  <2> QED
    BY <1>2, <2>1, <2>2, <2>3, <2>5
<1> QED
    BY <1>1, <1>3, <1>4 DEF QueryEffect, Query

-----------------------------------------------------------------------------
(* The invariant holds *)

\* It holds of the empty table.
LEMMA InitServiceInv == ServiceInit => ServiceInv
<1> SUFFICES ASSUME ServiceInit PROVE ServiceInv
    OBVIOUS
<1> USE DEF ServiceInit, PoolInit
<1>1. held = {} /\ recorded = <<>> /\ Started = {}
    BY DEF Init, Started
<1>2. \A q \in Queries : /\ query[q] = NoQuery
                         /\ NoQuery.stage = "new" /\ NoQuery.total = 0
    BY DEF NoQuery
<1>3. IsFiniteSet({}) /\ Cardinality({}) = 0
    BY FS_EmptySet
<1>4. ServiceTypeOK
  <2>1. NoQuery \in Query
    BY DEF NoQuery, Query, QueryStages
  <2> QED
    BY <1>1, <2>1 DEF ServiceTypeOK
<1>5. FinitelyMany
    BY <1>1, <1>3 DEF FinitelyMany
<1>6. ConnectionsAreReturned
    BY <1>1, <1>3, PoolAssumption DEF ConnectionsAreReturned
<1>7. RecordedOnce
    BY <1>1 DEF RecordedOnce
<1>8. StillCounted
  <2>1. recorded \in Seq(Requests)
    BY <1>4 DEF ServiceTypeOK
  <2>2. \A q \in Queries : Cardinality(RowsOf(query[q].client)) \in Nat
    BY <2>1, RowsFinite
  <2>3. NoQuery.there = {}
    BY DEF NoQuery
  <2> QED
    BY <1>2, <2>2, <2>3 DEF StillCounted
<1>9. StatsAgree
    BY <1>2 DEF StatsAgree
<1> QED
    BY <1>4, <1>5, <1>6, <1>7, <1>8, <1>9 DEF ServiceInv

\* Every step keeps it.
LEMMA StepServiceInv ==
    IInv /\ ServiceInv /\ [ServiceNext]_serviceVars => ServiceInv'
<1> SUFFICES ASSUME IInv, ServiceInv, [ServiceNext]_serviceVars PROVE ServiceInv'
    OBVIOUS
<1> USE DEF ServiceInv
<1>1. /\ TypeOK /\ Arrival /\ Outcome /\ RowsSound
      /\ recorded \in Seq(Requests)
    BY DEF IInv, ServiceTypeOK
<1>2. StageEffect /\ TableEffect /\ QueryEffect
    BY <1>1, ServiceStepMaps, StepEffect, StepTable, StepQuery DEF Effect
<1>3. /\ held' \subseteq Requests \X RedisStages /\ IsFiniteSet(held')
      /\ ConnectionsAreReturned'
    BY <1>1, StepConnections DEF ServiceTypeOK, FinitelyMany
<1>4. RecordedOnce'
    BY <1>1, <1>2, StepRecordedOnce
<1>5. StillCounted' /\ StatsAgree'
    BY <1>1, <1>2, StepStillCounted, StepStatsAgree
<1>6. FinitelyMany'
  <2> PICK r : Started' \subseteq Started \cup {r}
    BY <1>2 DEF TableEffect
  <2>1. IsFiniteSet(Started \cup {r})
    BY FS_AddElement DEF FinitelyMany
  <2>2. IsFiniteSet(Started')
    BY <2>1, FS_Subset
  <2> QED
    BY <1>3, <2>2 DEF FinitelyMany
<1>7. ServiceTypeOK'
  <2>1. recorded' \in Seq(Requests)
    BY <1>1, <1>2, RowsGrow
  <2>2. ASSUME NEW q \in Queries PROVE query'[q] \in Query
    <3>1. \A c : Cardinality(RowsOf(c)) \in Nat /\ RowsOf(c) \subseteq Nat
      <4> TAKE c
      <4>1. RowsOf(c) \subseteq 1..Len(recorded) /\ Cardinality(RowsOf(c)) \in Nat
        BY <1>1, RowsFinite
      <4>2. Len(recorded) \in Nat
        BY <1>1
      <4> QED
        BY <4>1, <4>2
    <3>2. /\ Cardinality(RowsOf(query[q].client)) \in Nat
          /\ Newest(RowsOf(query[q].client)) \subseteq Nat
      BY <3>1 DEF Newest
    <3>3. query[q] \in Query
      BY DEF ServiceTypeOK
    <3>4. ASSUME NEW c \in Clients
          PROVE  [query[q] EXCEPT !.stage = "count", !.client = c,
                                  !.there = RowsOf(c)] \in Query
      BY <3>1, <3>3 DEF Query, QueryStages
    <3>5. ASSUME NEW n \in Nat
          PROVE  [query[q] EXCEPT !.stage = "list", !.total = n] \in Query
      BY <3>3 DEF Query, QueryStages
    <3>6. ASSUME NEW l \in SUBSET Nat
          PROVE  [query[q] EXCEPT !.stage = "done", !.listed = l] \in Query
      BY <3>3 DEF Query, QueryStages
    <3>7. [query[q] EXCEPT !.stage = "failed"] \in Query
      BY <3>3 DEF Query, QueryStages
    <3>8. CASE query'[q] = query[q]
      BY <3>3, <3>8
    <3>9. CASE \E c \in Clients :
                  query'[q] = [query[q] EXCEPT !.stage = "count", !.client = c,
                                               !.there = RowsOf(c)]
      BY <3>4, <3>9
    <3> HIDE DEF Query
    <3> QED
      BY <1>2, <3>2, <3>5, <3>6, <3>7, <3>8, <3>9 DEF QueryEffect
  <2>3. query' = [q \in Queries |-> query'[q]]
    <3>1. query = [q \in Queries |-> query[q]]
      BY DEF ServiceTypeOK
    <3>2. CASE UNCHANGED query
      BY <3>1, <3>2
    <3>3. ASSUME NEW q \in Queries, AskStats(q)
          PROVE  query' = [p \in Queries |-> query'[p]]
      BY <3>1, <3>3 DEF AskStats
    <3>4. ASSUME NEW q \in Queries, StatsStep(q)
          PROVE  query' = [p \in Queries |-> query'[p]]
      BY <3>1, <3>4 DEF StatsStep, CountRows, ListRows
    <3>5. ASSUME NEW q \in Queries, StatsFail(q)
          PROVE  query' = [p \in Queries |-> query'[p]]
      BY <3>1, <3>5 DEF StatsFail
    <3>6. \/ UNCHANGED query
          \/ \E q \in Queries : AskStats(q) \/ StatsStep(q) \/ StatsFail(q)
      BY DEF ServiceNext, serviceVars
    <3> QED
      BY <3>2, <3>3, <3>4, <3>5, <3>6
  <2>4. query' \in [Queries -> Query]
    BY <2>2, <2>3
  <2> QED
    BY <1>3, <2>1, <2>4 DEF ServiceTypeOK
<1> QED
    BY <1>3, <1>4, <1>5, <1>6, <1>7

\* The inductive invariant, beside that of the requests.
THEOREM ServiceInvariance == ServiceSpec => []ServiceInv
<1>1. ServiceSpec => []IInv
    BY PoolRefinement, Invariance DEF PipelineSpec
<1>2. ServiceInit => ServiceInv
    BY InitServiceInv
<1>3. IInv /\ ServiceInv /\ [ServiceNext]_serviceVars => ServiceInv'
    BY StepServiceInv
<1> QED
    BY <1>1, <1>2, <1>3, PTL DEF ServiceSpec

-----------------------------------------------------------------------------
(* What follows *)

\* What belongs to the pool and to the statistics keeps its type.
THEOREM ServiceTypeCorrect == ServiceSpec => []ServiceTypeOK
<1>1. ServiceInv => ServiceTypeOK
    BY DEF ServiceInv
<1> QED
    BY <1>1, ServiceInvariance, PTL

\* The pool is never overdrawn, and no connection outlives its request's call.
THEOREM ConnectionsCorrect == ServiceSpec => []ConnectionsAreReturned
<1>1. ServiceInv => ConnectionsAreReturned
    BY DEF ServiceInv
<1> QED
    BY <1>1, ServiceInvariance, PTL

\* The two statements of get_request_stats answer of one client and one history.
THEOREM StatsCorrect == ServiceSpec => []StatsAgree
<1>1. ServiceInv => StatsAgree
    BY DEF ServiceInv
<1> QED
    BY <1>1, ServiceInvariance, PTL

\* A client's rows are of different requests of that client, all answered, so a
\* total counts none of them twice.
THEOREM TotalCorrect == ServiceSpec => []TotalCountsAnswered
<1>1. TypeOK /\ ServiceInv => TotalCountsAnswered
  <2> SUFFICES ASSUME TypeOK, ServiceInv, NEW q \in Queries
               PROVE  query[q].total <=
                          Cardinality({r \in Requests :
                              pc[r] = "done" /\ req[r].client = query[q].client})
    BY DEF TotalCountsAnswered
  <2> DEFINE rows == RowsOf(query[q].client)
             over == {r \in Requests :
                         pc[r] = "done" /\ req[r].client = query[q].client}
             request == [i \in rows |-> recorded[i]]
  <2>1. recorded \in Seq(Requests) /\ query[q].total \in Nat
    BY DEF ServiceInv, ServiceTypeOK, Query
  <2>2. \A i \in rows : recorded[i] \in over
    BY <2>1, ElementOfSeq DEF ServiceInv, RecordedOnce, RowsOf
  <2>3. \A i, j \in rows : recorded[i] = recorded[j] => i = j
    BY DEF ServiceInv, RecordedOnce, RowsOf
  <2>4. request \in Injection(rows, over)
    BY <2>2, <2>3 DEF Injection, IsInjective
  <2>5. IsFiniteSet(over)
    <3>1. over \subseteq Started
      BY DEF Started
    <3> QED
      BY <3>1, FS_Subset DEF ServiceInv, FinitelyMany
  <2>6. Cardinality(rows) <= Cardinality(over)
    BY <2>4, <2>5, FS_Injection
  <2>7. Cardinality(rows) \in Nat /\ Cardinality(over) \in Nat
    BY <2>1, <2>5, RowsFinite, FS_CardinalityType
  <2>8. query[q].total <= Cardinality(rows)
    BY DEF ServiceInv, StillCounted
  <2> HIDE DEF rows, over
  <2>9. query[q].total <= Cardinality(over)
    BY <2>1, <2>6, <2>7, <2>8
  <2> QED
    BY <2>9 DEF over
<1>2. ServiceSpec => []TypeOK
    BY PoolRefinement, TypeCorrect DEF PipelineSpec
<1> QED
    BY <1>1, <1>2, ServiceInvariance, PTL
=============================================================================
