--------------------------- MODULE OperationLedger ---------------------------
(***************************************************************************)
(* What the business API promises its integrators, with nothing of how it  *)
(* keeps the promise: no middleware, no cache, no signature, no broker.    *)
(*                                                                         *)
(* A request belongs to a scope, the <<client, idempotency key>> pair it   *)
(* was sent under (no key: a scope that is never shared).  The service may *)
(* run the request's own operation, at most once, and may tell the caller  *)
(* the id of one operation: its own if that ran, or else an operation that *)
(* another request of the same keyed scope ran.  It never promises that an *)
(* operation runs at most once per scope: that is the stronger, and only   *)
(* conditional, property SequentialRetryIsReplayed of RequestPipeline.     *)
(***************************************************************************)
CONSTANTS
    Requests,      \* every request, and with it the operation it may run
    Scopes,        \* <<client, key>> pairs
    SharedScopes,  \* the scopes several requests may be sent under
    None           \* no value; neither a request nor a scope

VARIABLES
    scope,      \* scope[r]: None until r arrives
    executed,   \* the requests whose own operation ran
    told        \* told[r]: the operation id r was answered with, or None

vars == <<scope, executed, told>>

Init ==
    /\ scope = [r \in Requests |-> None]
    /\ executed = {}
    /\ told = [r \in Requests |-> None]

Arrive(r) ==
    /\ scope[r] = None
    /\ \E s \in Scopes : scope' = [scope EXCEPT ![r] = s]
    /\ UNCHANGED <<executed, told>>

Execute(r) ==
    /\ scope[r] # None
    /\ r \notin executed
    /\ told[r] = None
    /\ executed' = executed \cup {r}
    /\ UNCHANGED <<scope, told>>

TellOwn(r) ==
    /\ told[r] = None
    /\ r \in executed
    /\ told' = [told EXCEPT ![r] = r]
    /\ UNCHANGED <<scope, executed>>

TellShared(r) ==
    /\ told[r] = None
    /\ r \notin executed
    /\ scope[r] \in SharedScopes
    /\ \E o \in executed :
          /\ scope[o] = scope[r]
          /\ told' = [told EXCEPT ![r] = o]
    /\ UNCHANGED <<scope, executed>>

Next == \E r \in Requests : Arrive(r) \/ Execute(r) \/ TellOwn(r) \/ TellShared(r)

Spec == Init /\ [][Next]_vars
=============================================================================
