---------------------- MODULE RequestPipelineRefinement ----------------------
(***************************************************************************)
(* RequestPipeline implements OperationLedger, for any number of requests, *)
(* clients, keys and salts: its initial states map to the ledger's, and    *)
(* each of its steps maps to one of the ledger's or to none.               *)
(***************************************************************************)
EXTENDS RequestPipelineProofs

\* The refinement mapping of RequestPipeline!Ledger, by name.
ledger_scope == [r \in Requests |-> Scope(r)]
ledger_executed == exchange \cup {r \in Requests : response[r] = Queued(r)}
ledger_told == [r \in Requests |-> IF pc[r] = "done" THEN response[r].op ELSE None]

\* Only a queued or replayed response names an operation.
LEMMA OpNone ==
   /\ NoResponse.op = None
   /\ \A s : Failure(s).op = None
   /\ \A r : Queued(r).op = r
BY DEF NoResponse, Failure, Queued

\* Initial states map to initial states.
LEMMA LedgerInit == Init => Ledger!Init
BY OpNone, ResponseKinds DEF Init, Ledger!Init, Scope

\* Every step maps to a step of the ledger, or to none.
LEMMA LedgerStep == IInv /\ IInv' /\ [Next]_vars => [Ledger!Next]_(Ledger!vars)
<1> DEFINE Stutter == UNCHANGED <<ledger_scope, ledger_executed, ledger_told>>
<1> SUFFICES ASSUME IInv, IInv', [Next]_vars PROVE Ledger!Next \/ Stutter
    BY DEF Ledger!vars, ledger_scope, ledger_executed, ledger_told
<1>e. Effect
    BY StepEffect DEF IInv
<1> DEFINE Told(x) == IF pc[x] = "done" THEN response[x].op ELSE None
           Ran(x) == x \in exchange \/ response[x] = Queued(x)
<1>f. ASSUME \A x \in Requests : Scope(x)' = Scope(x)
      PROVE  UNCHANGED ledger_scope
    BY <1>f DEF ledger_scope
<1>g. ASSUME \A x \in Requests : Told(x)' = Told(x)
      PROVE  UNCHANGED ledger_told
    BY <1>g DEF ledger_told
<1>h. ASSUME \A x \in Requests : (Ran(x))' = Ran(x)
      PROVE  UNCHANGED ledger_executed
    BY <1>h DEF ledger_executed, IInv, TypeOK, Queued
<1>1. ASSUME NEW r \in Requests, RequireAuth(r) PROVE Ledger!Arrive(r)
  <2> PICK q \in Inputs : req' = [req EXCEPT ![r] = q]
    BY <1>1 DEF RequireAuth
  <2>1. q \in Request /\ <<q.client, q.key>> \in Scopes /\ q # None
    BY RequestTypes, PipelineAssumption
  <2>2. Scope(r) = None
    BY <1>1 DEF RequireAuth, IInv, Arrival, Scope
  <2>3. ledger_scope' = [ledger_scope EXCEPT ![r] = <<q.client, q.key>>]
    BY <2>1 DEF ledger_scope, Scope, IInv, TypeOK
  <2>4. UNCHANGED <<ledger_executed, ledger_told>>
    <3>1. /\ \A x \in Requests : x # r =>
                 pc'[x] = pc[x] /\ response'[x] = response[x]
          /\ pc[r] = "new" /\ response[r] = NoResponse
          /\ \/ pc'[r] = "done" /\ response'[r] = Failure(401)
             \/ pc'[r] = "salt" /\ response'[r] = response[r]
      BY <1>1 DEF RequireAuth, Goto, Build, IInv, TypeOK, Outcome
    <3>2. exchange' = exchange
      BY <1>1 DEF RequireAuth, stores
    <3>3. /\ Failure(401).op = None /\ Failure(401) # Queued(r)
          /\ NoResponse.op = None /\ NoResponse # Queued(r)
      BY OpNone, ResponseKinds
    <3>4. \A x \in Requests : Told(x)' = Told(x)
      BY <3>1, <3>3
    <3>5. \A x \in Requests :
              (response[x] = Queued(x))' <=> response[x] = Queued(x)
      BY <3>1, <3>3 DEF Queued
    <3> HIDE DEF Told
    <3>6. UNCHANGED ledger_told
      BY <1>g, <3>4
    <3>7. UNCHANGED ledger_executed
      BY <3>2, <3>5 DEF ledger_executed
    <3> QED
      BY <3>6, <3>7
  <2> QED
    BY <2>1, <2>2, <2>3, <2>4
       DEF Ledger!Arrive, ledger_scope, ledger_executed, ledger_told
<1>2. ASSUME NEW r \in Requests, Publish(r) \/ Disconnect(r)
      PROVE  Ledger!Next \/ Stutter
  <2>1. UNCHANGED ledger_scope
    BY <1>2, <1>f DEF Publish, Disconnect, Scope
  <2>2. UNCHANGED ledger_told
    BY <1>2, <1>g
       DEF Publish, Disconnect, Goto, Build, InFlight, Awaiting, IInv, TypeOK
  <2>3. \A x \in Requests \ {r} : (Ran(x))' = Ran(x)
    BY <1>2, ResponseKinds
       DEF Publish, Disconnect, Sent, Build, IInv, TypeOK, Queued
  <2>4. CASE (Ran(r))' = Ran(r)
    BY <2>1, <2>2, <2>3, <2>4, <1>h
  <2>5. CASE (Ran(r))' # Ran(r)
    <3>1. pc[r] = "send"
      BY <1>2, <2>5, ResponseKinds DEF Publish, Disconnect, Queued
    <3>2. ~ Ran(r) /\ (Ran(r))'
      BY <2>5, <3>1, ResponseKinds DEF IInv, Outcome
    <3>3. Scope(r) # None
      BY <3>1, ScopeOfArrived, PipelineAssumption DEF IInv, TypeOK, Arrival
    <3>4. ledger_executed' = ledger_executed \cup {r}
      <4>1. \A x \in Requests : x \in ledger_executed <=> Ran(x)
        BY DEF ledger_executed
      <4>2. \A x \in Requests : x \in ledger_executed' <=> (Ran(x))'
        BY DEF ledger_executed, Queued
      <4>3. /\ ledger_executed \subseteq Requests
              /\ ledger_executed' \subseteq Requests
        BY DEF ledger_executed, IInv, TypeOK
      <4> QED
        BY <2>3, <3>2, <4>1, <4>2, <4>3
    <3>5. r \notin ledger_executed /\ ledger_told[r] = None
      BY <3>1, <3>2 DEF ledger_executed, ledger_told
    <3>6. Ledger!Execute(r)
      BY <2>1, <2>2, <3>3, <3>4, <3>5
         DEF Ledger!Execute, ledger_scope, ledger_executed, ledger_told
    <3> QED
      BY <3>6 DEF Ledger!Next
  <2> QED
    BY <2>4, <2>5
<1>3. ASSUME NEW r \in Requests, Respond(r)
      PROVE  Ledger!Next \/ Stutter
  <2>1. UNCHANGED ledger_scope
    BY <1>3, <1>f DEF Respond, Scope
  <2>2. UNCHANGED ledger_executed
    BY <1>3 DEF Respond, stores, ledger_executed, Queued
  <2>3. ledger_told' = [ledger_told EXCEPT ![r] = response[r].op]
    BY <1>3 DEF Respond, Goto, ledger_told, IInv, TypeOK
  <2>4. ledger_told[r] = None
    BY <1>3 DEF Respond, ledger_told
  <2>5. CASE response[r] = Queued(r)
    <3>1. r \in ledger_executed /\ response[r].op = r
      BY <2>5, OpNone DEF ledger_executed
    <3>2. Ledger!TellOwn(r)
      BY <2>1, <2>2, <2>3, <2>4, <3>1
         DEF Ledger!TellOwn, ledger_scope, ledger_executed, ledger_told
    <3> QED
      BY <3>2 DEF Ledger!Next
  <2>6. CASE response[r].replayed
    <3>1. PICK o \in Requests : /\ o = response[r].op
                                /\ Scope(o) = Scope(r)
                                /\ response[o] = Queued(o)
      BY <2>6 DEF IInv, ReplaySound
    <3>2. Scope(r) \in Clients \X Keys
      <4>1. req[r] \in Request /\ req[r].client # None
        BY <1>3 DEF IInv, Respond, TypeOK, Arrival, InFlight, Awaiting, Stages
      <4>2. req[r].key # None
        BY <2>6 DEF IInv, ReplaySound, Keyed
      <4> QED
        BY <4>1, <4>2, RequestTypes, ScopeOfArrived
    <3>3. o \in ledger_executed /\ ledger_scope[o] = ledger_scope[r]
      BY <3>1 DEF ledger_executed, ledger_scope
    <3>4. r \notin ledger_executed
      BY <2>6, ResponseKinds DEF IInv, Outcome, NoResponse, ledger_executed
    <3>5. Ledger!TellShared(r)
      BY <2>1, <2>2, <2>3, <2>4, <3>1, <3>2, <3>3, <3>4
         DEF Ledger!TellShared, ledger_scope, ledger_executed, ledger_told
    <3> QED
      BY <3>5 DEF Ledger!Next
  <2>7. CASE response[r] # Queued(r) /\ ~ response[r].replayed
    <3>1. response[r].op = None
      BY <2>7, OpNone DEF IInv, Outcome, OutcomesOf
    <3> QED
      BY <2>1, <2>2, <2>3, <2>4, <3>1 DEF ledger_told
  <2> QED
    BY <2>5, <2>6, <2>7
<1>4. ASSUME NEW r \in Requests,
             ReadSalt(r) \/ CheckSignature(r) \/ IdempotencyLookup(r) \/ Handle(r)
      PROVE  Stutter
  <2>1. UNCHANGED ledger_scope
    BY <1>4, <1>f DEF ReadSalt, CheckSignature, IdempotencyLookup, Handle, Scope
  <2>2. UNCHANGED ledger_told
    BY <1>4, <1>g
       DEF ReadSalt, CheckSignature, IdempotencyLookup, Handle, Goto, Build,
           IInv, TypeOK
  <2>3. response[r] # Queued(r) /\ response'[r] # Queued(r)
    BY <1>4, <1>e, ResponseKinds
       DEF ReadSalt, CheckSignature, IdempotencyLookup, Handle, IInv, Outcome,
           Effect, ResponseEffect
  <2>4. UNCHANGED exchange /\ \A x \in Requests \ {r} : response'[x] = response[x]
    BY <1>4
       DEF ReadSalt, CheckSignature, IdempotencyLookup, Handle, Build, stores,
           IInv, TypeOK
  <2>5. UNCHANGED ledger_executed
    BY <2>3, <2>4, <1>h DEF Queued
  <2> QED
    BY <2>1, <2>2, <2>5
<1>5. ASSUME NEW r \in Requests, IdempotencyStore(r) \/ RecordRequest(r)
      PROVE  Stutter
  <2>1. UNCHANGED <<req, exchange, response>>
    BY <1>5 DEF IdempotencyStore, RecordRequest
  <2>2. UNCHANGED ledger_told
    BY <1>5, <1>g, <2>1 DEF IdempotencyStore, RecordRequest, Goto, IInv, TypeOK
  <2> QED
    BY <1>f, <2>1, <2>2 DEF Scope, ledger_executed, Queued
<1>6. ASSUME Restart
      PROVE  Stutter
  <2>1. UNCHANGED <<req, exchange, response>>
    BY <1>6 DEF Restart
  <2>2. UNCHANGED ledger_told
    BY <1>6, <1>g, <2>1 DEF Restart, InFlight, Awaiting
  <2> QED
    BY <1>f, <2>1, <2>2 DEF Scope, ledger_executed, Queued
<1>7. ASSUME \/ LoseConnection
             \/ \E c \in Clients : RegenerateSalt(c)
             \/ \E s \in Scopes : Expire(s)
             \/ UNCHANGED vars
      PROVE  Stutter
  <2>1. UNCHANGED <<req, exchange, response, pc>>
    BY <1>7 DEF LoseConnection, RegenerateSalt, Expire, vars, server, stores
  <2> QED
    BY <2>1 DEF Scope, ledger_scope, ledger_told, ledger_executed, Queued
<1> QED
    BY <1>1, <1>2, <1>3, <1>4, <1>5, <1>6, <1>7 DEF Next, Step, Ledger!Next

\* The pipeline implements the ledger: whatever the cache, the broker, the
\* database and the callers do, an operation runs at most once per request, and a
\* caller is told its own operation or one its own client and key ran.
THEOREM Refinement == Spec => LedgerSpec
<1>1. Init => Ledger!Init
    BY LedgerInit
<1> QED
    BY <1>1, LedgerStep, Invariance, PTL DEF Spec, LedgerSpec, Ledger!Spec
=============================================================================
