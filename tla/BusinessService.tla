--------------------------- MODULE BusinessService ---------------------------
(***************************************************************************)
(* The business requests with the Redis pool, beside the portal's call     *)
(* that reads what they left in api_requests: get_request_stats            *)
(* (services/auth.rs), a COUNT and then a SELECT, in two statements that   *)
(* see two states of the table.                                            *)
(***************************************************************************)
EXTENDS PooledPipeline, Sequences

CONSTANTS
    Queries,     \* calls of get_request_stats
    ListLimit    \* how many rows the list has at most

ASSUME StatsAssumption == ListLimit \in Nat

VARIABLES
    recorded,    \* the requests whose INSERT has begun, by its created_at
    query        \* each call of get_request_stats

QueryStages == {"new", "count", "list", "done", "failed"}

\* listed: the rows it is shown, each by its place in recorded.
\* there: history, the rows its client had when it asked.
Query == [stage : QueryStages, client : Clients \cup {None}, total : Nat,
          listed : SUBSET Nat, there : SUBSET Nat]
NoQuery == [stage |-> "new", client |-> None, total |-> 0, listed |-> {},
            there |-> {}]

serviceVars == <<vars, held, recorded, query>>

ServiceInit ==
    /\ PoolInit
    /\ recorded = <<>>
    /\ query = [q \in Queries |-> NoQuery]

\* The requests whose row can be seen: the INSERT is committed.
Committed == {x.request : x \in api_requests}

\* The rows of a client that a statement sees, each by its place in recorded.
RowsOf(c) ==
    {i \in DOMAIN recorded :
        recorded[i] \in Committed /\ req[recorded[i]].client = c}

\* ORDER BY created_at DESC LIMIT: the rows with fewer newer ones than the limit.
Newest(rows) == {i \in rows : Cardinality({j \in rows : j > i}) < ListLimit}

\* The spawned INSERT begins: created_at, DEFAULT NOW(), is the time of that, not
\* of the request, and not of the commit.  Two such times are taken to differ.
StampRow_sentTwice(r) ==
    /\ r \in trackers /\ \A i \in DOMAIN recorded : recorded[i] # r
    /\ recorded' = recorded \o <<r, r>>
StampRow(r) ==
    /\ r \in trackers /\ \A i \in DOMAIN recorded : recorded[i] # r
    /\ recorded' = Append(recorded, r)

\* It is committed, maybe before one that began earlier, or there is no row: it
\* fails, or never begins.
InsertRow(r) ==
    /\ RecordRequest(r)
    /\ api_requests' # api_requests => \E i \in DOMAIN recorded : recorded[i] = r
    /\ UNCHANGED recorded

\* Any session of the client may ask, and claims.sub says which client it is.
AskStats(q) ==
    /\ query[q].stage = "new"
    /\ \E c \in Clients :
          query' = [query EXCEPT ![q].stage = "count", ![q].client = c,
                                 ![q].there = RowsOf(c)]

CountRows(q) ==
    /\ query[q].stage = "count"
    /\ query' = [query EXCEPT ![q].stage = "list",
                              ![q].total = Cardinality(RowsOf(query[q].client))]

ListRows_everyClient(q) ==
    /\ query[q].stage = "list"
    /\ query' = [query EXCEPT ![q].stage = "done",
                              ![q].listed = Newest({i \in DOMAIN recorded :
                                                       recorded[i] \in Committed})]
ListRows(q) ==
    /\ query[q].stage = "list"
    /\ query' = [query EXCEPT ![q].stage = "done",
                              ![q].listed = Newest(RowsOf(query[q].client))]

\* A statement fails, or the caller hangs up: there is no answer.
StatsFail(q) ==
    /\ query[q].stage \in {"count", "list"}
    /\ query' = [query EXCEPT ![q].stage = "failed"]

StatsStep(q) == CountRows(q) \/ ListRows(q)

ServiceNext ==
    \/ PoolNext /\ UNCHANGED <<recorded, query>>
    \/ \E r \in Requests : StampRow(r) /\ UNCHANGED <<vars, held, query>>
    \/ \E r \in Requests : InsertRow(r) /\ UNCHANGED <<held, query>>
    \/ /\ \E q \in Queries : AskStats(q) \/ StatsStep(q) \/ StatsFail(q)
       /\ UNCHANGED <<vars, held, recorded>>

\* Fairness: as in RequestPipeline, and a free connection goes to a request that
\* waits for one; with finitely many requests nobody can be passed over forever.
ServiceFairness ==
    \A r \in Requests :
        /\ WF_serviceVars(GetConnection(r) /\ UNCHANGED <<recorded, query>>)
        /\ WF_serviceVars(PoolStep(r) /\ UNCHANGED <<recorded, query>>)
        /\ WF_serviceVars(InsertRow(r) /\ UNCHANGED <<held, query>>)

ServiceSpec ==
    ServiceInit /\ [][ServiceNext]_serviceVars /\ ServiceFairness

-----------------------------------------------------------------------------
(* Properties *)

\* Every variable that is not of RequestPipeline holds a value of its type.
ServiceTypeOK ==
    /\ held \subseteq Requests \X RedisStages
    /\ recorded \in Seq(Requests)
    /\ query \in [Queries -> Query]

\* The pool changes when things happen, not what happens: every step is a step
\* of RequestPipeline or a stutter, so what its theorems say holds here as well.
PipelineSpec == Spec

\* A connection is in use only while its request waits for Redis, never across
\* the handler or a hang-up, and there are never more of them than the pool has.
ConnectionsAreReturned ==
    /\ \A h \in held : pc[h[1]] = h[2]
    /\ Cardinality(held) <= PoolSize

\* However few connections there are and whoever hangs up, every request comes
\* to an end: nobody waits for a connection that nobody gives back
\* (idempotency.rs:36, 63, pool.get without a timeout).
ServiceSettles == RequestsSettle

\* COUNT and SELECT see two states of the table, between which INSERTs commit in
\* an order that is not that of created_at (auth.rs:470-482, 0003:9).  Still the
\* total and the list of one answer fit: there is a set of the client's rows, none
\* that was there when it asked left out, of which the list shows the newest, and
\* the total is no more than these rows and no less than those that were there.
StatsAgree ==
    \A q \in Queries : query[q].stage = "done" =>
        \E rows \in SUBSET RowsOf(query[q].client) :
            /\ query[q].there \subseteq rows
            /\ query[q].listed = Newest(rows)
            /\ query[q].total \in Cardinality(query[q].there)..Cardinality(rows)

\* The total a client is shown is at most the requests of this client that were
\* answered: a request is counted once, and not before it is over.
TotalCountsAnswered ==
    \A q \in Queries :
        query[q].total <=
            Cardinality({r \in Requests :
                            pc[r] = "done" /\ req[r].client = query[q].client})
=============================================================================
