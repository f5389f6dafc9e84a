----------------------- MODULE OperationHandlersProofs -----------------------
(***************************************************************************)
(* What TLAPS proves of OperationHandlers, for any requests, bodies, keys  *)
(* and limits.  The requests' way through the layers is taken from         *)
(* RequestPipelineProofs, what the checks find from ValidationProofs.      *)
(***************************************************************************)
EXTENDS OperationHandlers, RequestPipelineProofs, ValidationProofs

-----------------------------------------------------------------------------
(* The handlers refine the Handle of RequestPipeline *)

handlersVars == <<vars, work, sent>>

\* Each handler is RequestPipeline's, with something said of the message.
LEMMA HandlerHandles ==
    ASSUME NEW r \in Requests, Handler(r)
    PROVE  Handle(r) /\ UNCHANGED work
BY DEF Handler, Deploy, Mint, Burn, Transfer, Move, Pause, Unpause, enqueue_pause,
       TokenEvent, CreateUser, AddFiatBalance, AddTokenBalance, Publishes

\* A step with the handlers is a step of RequestPipeline or leaves it alone.
LEMMA HandlersStepMaps == [HandlersNext]_handlersVars => [Next]_vars
<1> SUFFICES ASSUME [HandlersNext]_handlersVars PROVE [Next]_vars
    OBVIOUS
<1>1. ASSUME NEW r \in Requests, Arrive(r) PROVE Next
    BY <1>1 DEF Arrive, Next
<1>2. ASSUME NEW r \in Requests, Handler(r) PROVE Next
    BY <1>2, HandlerHandles DEF Next, Step
<1>3. CASE Elsewhere
    BY <1>3 DEF Elsewhere, Next, Step
<1> QED
    BY <1>1, <1>2, <1>3 DEF HandlersNext, handlersVars

\* The nine handlers in the place of Handle leave RequestPipeline what it is, so
\* every theorem about it holds with them.
THEOREM HandlersRefinement == HandlersSpec => Spec
<1>1. HandlersInit => Init
    BY DEF HandlersInit
<1> QED
    BY <1>1, HandlersStepMaps, PTL DEF HandlersSpec, Spec, handlersVars

-----------------------------------------------------------------------------
(* The inductive invariant *)

\* What an endpoint says, where it says it and as which event.
Says(w) ==
    LET message(exch, event, payload) ==
            [exchange |-> exch, event |-> event, payload |-> payload]
        tokenEvent(payload) ==
            message("TOKEN_EVENT", "token.event.requested", payload)
    IN
    CASE w.endpoint = "deploy" ->
            message("EXCHANGE_TOKEN_TRANSFER_REQUEST", "token.creation.requested",
                    [Blank EXCEPT !.party = w.party, !.label = w.label,
                                  !.symbol = w.symbol, !.number = w.number])
      [] w.endpoint \in {"mint", "burn", "transfer"} ->
            tokenEvent([Blank EXCEPT !.type = w.endpoint, !.target = w.target,
                                     !.party = w.party, !.amount = w.amount])
      [] w.endpoint \in {"pause", "unpause"} ->
            tokenEvent([Blank EXCEPT !.type = w.endpoint, !.target = w.target])
      [] w.endpoint = "create_user" ->
            message("EXCHANGE_ACCOUNT_CREATE_REQUEST", "account.create.requested",
                    [Blank EXCEPT !.label = w.label])
      [] w.endpoint = "fiat_balance" ->
            message("EXCHANGE_FIAT_BALANCE_REQUEST", "fiat.balance.add.requested",
                    [Blank EXCEPT !.target = w.target, !.label = w.label,
                                  !.number = w.number])
      [] w.endpoint = "token_balance" ->
            message("EXCHANGE_TOKEN_BALANCE_REQUEST",
                    "token.balance.add.requested",
                    [Blank EXCEPT !.target = w.target, !.party = w.party,
                                  !.amount = w.amount])

Body(m) == [exchange |-> m.exchange, event |-> m.event, payload |-> m.payload]

\* A request's ask comes with it, and its checks were decided then.
Judged ==
    \A r \in Requests :
        /\ work[r] = None <=> pc[r] = "new"
        /\ work[r] # None =>
              work[r] \in Works[r] /\ req[r].wellFormed = Accepts(work[r])

\* The handlers refuse what the checks refuse, and nothing else is a 400.
Refused ==
    \A r \in Requests : response[r].status = 400 => ~ req[r].wellFormed

\* What is on its way to the exchange, or there, was accepted and is what its
\* request asks for.
SaysTheAsk ==
    \A r \in Requests : pc[r] = "send" \/ r \in exchange =>
        /\ req[r].wellFormed
        /\ sent[r].idempotencyKey = Key(r)
        /\ Body(sent[r]) = Says(work[r])

HandlersInv == HandlersTypeOK /\ Judged /\ Refused /\ SaysTheAsk

-----------------------------------------------------------------------------
(* The effect of a step *)

\* Beside the handlers nothing reaches the send, and nothing is a 400.
ElsewhereEffect ==
    \A r \in Requests :
        /\ pc'[r] = "send" => pc[r] = "send"
        /\ response'[r].status = 400 => response[r].status = 400
        /\ pc'[r] = "new" <=> pc[r] = "new"

LEMMA StepElsewhere == IInv /\ Elsewhere => ElsewhereEffect
<1> SUFFICES ASSUME IInv, Elsewhere PROVE ElsewhereEffect
    OBVIOUS
<1> USE DEF ElsewhereEffect, IInv, TypeOK, server, stores, history, Goto, Build,
            Stages, InFlight, Awaiting
<1>1. ASSUME NEW r \in Requests, ReadSalt(r) PROVE ElsewhereEffect
    BY <1>1 DEF ReadSalt, Failure
<1>2. ASSUME NEW r \in Requests, CheckSignature(r) PROVE ElsewhereEffect
    BY <1>2 DEF CheckSignature, Failure
<1>3. ASSUME NEW r \in Requests, IdempotencyLookup(r) PROVE ElsewhereEffect
    BY <1>3 DEF IdempotencyLookup, Replay
<1>4. ASSUME NEW r \in Requests, Publish(r) PROVE ElsewhereEffect
    BY <1>4 DEF Publish, Queued, Failure
<1>5. ASSUME NEW r \in Requests, IdempotencyStore(r) PROVE ElsewhereEffect
    BY <1>5 DEF IdempotencyStore
<1>6. ASSUME NEW r \in Requests, Respond(r) PROVE ElsewhereEffect
    BY <1>6 DEF Respond
<1>7. ASSUME NEW r \in Requests, RecordRequest(r) PROVE ElsewhereEffect
    BY <1>7 DEF RecordRequest
<1>8. ASSUME NEW r \in Requests, Disconnect(r) PROVE ElsewhereEffect
    BY <1>8 DEF Disconnect
<1>9. CASE Restart
    BY <1>9 DEF Restart
<1>10. ASSUME UNCHANGED server PROVE ElsewhereEffect
    BY <1>10
<1>11. ASSUME NEW c \in Clients, RegenerateSalt(c) PROVE UNCHANGED server
    BY <1>11 DEF RegenerateSalt
<1>12. ASSUME NEW s \in Scopes, Expire(s) PROVE UNCHANGED server
    BY <1>12 DEF Expire
<1>13. ASSUME LoseConnection PROVE UNCHANGED server
    BY <1>13 DEF LoseConnection
<1> HIDE DEF ElsewhereEffect, IInv, TypeOK, server
<1> QED
    BY <1>1, <1>2, <1>3, <1>4, <1>5, <1>6, <1>7, <1>8, <1>9, <1>10, <1>11,
       <1>12, <1>13 DEF Elsewhere

\* What a handler gives to publish, when it gets that far.
LEMMA PublishesSays ==
    ASSUME NEW r \in Requests, work[r] \in Work,
           NEW exch \in Exchanges, NEW event \in Events, NEW payload \in Payload,
           Publishes(r, exch, event, payload),
           Says(work[r]) =
               [exchange |-> exch, event |-> event, payload |-> payload],
           HandlersTypeOK
    PROVE  \/ pc'[r] # "send" /\ sent' = sent
           \/ \E m \in Message :
                 /\ pc'[r] = "send" /\ sent' = [sent EXCEPT ![r] = m]
                 /\ m.idempotencyKey = Key(r)
                 /\ Body(m) = Says(work[r])
<1> DEFINE m == [exchange |-> exch, event |-> event,
                 idempotencyKey |-> Key(r), payload |-> payload]
<1>1. Key(r) \in Keys \cup Requests
    BY DEF Key, Work
<1>2. m \in Message
    BY <1>1 DEF Message
<1>3. m.idempotencyKey = Key(r) /\ Body(m) = Says(work[r])
    BY DEF Body
<1>4. sent' = IF pc'[r] # "send" THEN sent ELSE [sent EXCEPT ![r] = m]
    BY DEF Publishes
<1> HIDE DEF m
<1> QED
    BY <1>2, <1>3, <1>4

\* A handler that goes on to publish has built the message of its request's ask.
LEMMA HandlerSays ==
    ASSUME NEW r \in Requests, Handler(r), work[r] \in Work, HandlersTypeOK
    PROVE  \/ pc'[r] # "send" /\ sent' = sent
           \/ \E m \in Message :
                 /\ pc'[r] = "send" /\ sent' = [sent EXCEPT ![r] = m]
                 /\ m.idempotencyKey = Key(r)
                 /\ Body(m) = Says(work[r])
<1> DEFINE w == work[r]
           Goal == \/ pc'[r] # "send" /\ sent' = sent
                   \/ \E m \in Message :
                         /\ pc'[r] = "send" /\ sent' = [sent EXCEPT ![r] = m]
                         /\ m.idempotencyKey = Key(r)
                         /\ Body(m) = Says(work[r])
<1>1. /\ w.target \in Texts \cup {None} /\ w.party \in Texts \cup {None}
      /\ w.label \in Texts \cup {None} /\ w.symbol \in Texts \cup {None}
      /\ w.number \in Nat \cup {None} /\ w.amount \in Texts \cup {None}
    BY DEF Work
<1>2. ASSUME NEW p \in Payload, w.endpoint \in TokenEvents, TokenEvent(r, p),
             Says(w) = [exchange |-> "TOKEN_EVENT",
                        event |-> "token.event.requested", payload |-> p]
      PROVE  Goal
    BY <1>2, PublishesSays DEF TokenEvent, Exchanges, Events
<1>3. ASSUME NEW type \in {"mint", "burn", "transfer"}, Move(r, type) PROVE Goal
  <2> DEFINE p == [Blank EXCEPT !.type = type, !.target = w.target,
                                !.party = w.party, !.amount = w.amount]
  <2>1. p \in Payload
    BY <1>1 DEF Blank, Payload, TokenEvents
  <2>2. TokenEvent(r, p) /\ w.endpoint = type
    BY <1>3 DEF Move
  <2>3. Says(w) = [exchange |-> "TOKEN_EVENT",
                   event |-> "token.event.requested", payload |-> p]
    BY <2>2 DEF Says
  <2> QED
    BY <1>2, <2>1, <2>2, <2>3 DEF TokenEvents
<1>4. ASSUME NEW op \in {"pause", "unpause"}, w.endpoint = op, enqueue_pause(r, op)
      PROVE  Goal
  <2> DEFINE p == [Blank EXCEPT !.type = op, !.target = w.target]
  <2>1. p \in Payload
    BY <1>1 DEF Blank, Payload, TokenEvents
  <2>2. TokenEvent(r, p)
    BY <1>4 DEF enqueue_pause
  <2>3. Says(w) = [exchange |-> "TOKEN_EVENT",
                   event |-> "token.event.requested", payload |-> p]
    BY <1>4 DEF Says
  <2> QED
    BY <1>2, <1>4, <2>1, <2>2, <2>3 DEF TokenEvents
<1>5. CASE Deploy(r)
  <2> DEFINE p == [Blank EXCEPT !.party = w.party, !.label = w.label,
                                !.symbol = w.symbol, !.number = w.number]
  <2>1. p \in Payload
    BY <1>1 DEF Blank, Payload
  <2>2. /\ w.endpoint = "deploy"
        /\ Publishes(r, "EXCHANGE_TOKEN_TRANSFER_REQUEST",
                     "token.creation.requested", p)
    BY <1>5 DEF Deploy
  <2>3. Says(w) = [exchange |-> "EXCHANGE_TOKEN_TRANSFER_REQUEST",
                   event |-> "token.creation.requested", payload |-> p]
    BY <2>2 DEF Says
  <2> HIDE DEF p
  <2> QED
    BY <2>1, <2>2, <2>3, PublishesSays DEF Exchanges, Events
<1>6. CASE CreateUser(r)
  <2> DEFINE p == [Blank EXCEPT !.label = w.label]
  <2>1. p \in Payload
    BY <1>1 DEF Blank, Payload
  <2>2. /\ w.endpoint = "create_user"
        /\ Publishes(r, "EXCHANGE_ACCOUNT_CREATE_REQUEST",
                     "account.create.requested", p)
    BY <1>6 DEF CreateUser
  <2>3. Says(w) = [exchange |-> "EXCHANGE_ACCOUNT_CREATE_REQUEST",
                   event |-> "account.create.requested", payload |-> p]
    BY <2>2 DEF Says
  <2> HIDE DEF p
  <2> QED
    BY <2>1, <2>2, <2>3, PublishesSays DEF Exchanges, Events
<1>7. CASE AddFiatBalance(r)
  <2> DEFINE p == [Blank EXCEPT !.target = w.target, !.label = w.label,
                                !.number = w.number]
  <2>1. p \in Payload
    BY <1>1 DEF Blank, Payload
  <2>2. /\ w.endpoint = "fiat_balance"
        /\ Publishes(r, "EXCHANGE_FIAT_BALANCE_REQUEST",
                     "fiat.balance.add.requested", p)
    BY <1>7 DEF AddFiatBalance
  <2>3. Says(w) = [exchange |-> "EXCHANGE_FIAT_BALANCE_REQUEST",
                   event |-> "fiat.balance.add.requested", payload |-> p]
    BY <2>2 DEF Says
  <2> HIDE DEF p
  <2> QED
    BY <2>1, <2>2, <2>3, PublishesSays DEF Exchanges, Events
<1>8. CASE AddTokenBalance(r)
  <2> DEFINE p == [Blank EXCEPT !.target = w.target, !.party = w.party,
                                !.amount = w.amount]
  <2>1. p \in Payload
    BY <1>1 DEF Blank, Payload
  <2>2. /\ w.endpoint = "token_balance"
        /\ Publishes(r, "EXCHANGE_TOKEN_BALANCE_REQUEST",
                     "token.balance.add.requested", p)
    BY <1>8 DEF AddTokenBalance
  <2>3. Says(w) = [exchange |-> "EXCHANGE_TOKEN_BALANCE_REQUEST",
                   event |-> "token.balance.add.requested", payload |-> p]
    BY <2>2 DEF Says
  <2> HIDE DEF p
  <2> QED
    BY <2>1, <2>2, <2>3, PublishesSays DEF Exchanges, Events
<1>9. CASE Mint(r) \/ Burn(r) \/ Transfer(r)
    BY <1>3, <1>9 DEF Mint, Burn, Transfer
<1>10. CASE Pause(r)
    BY <1>4, <1>10 DEF Pause
<1>11. CASE Unpause(r)
    BY <1>4, <1>11 DEF Unpause
<1> QED
    BY <1>5, <1>6, <1>7, <1>8, <1>9, <1>10, <1>11 DEF Handler

-----------------------------------------------------------------------------
(* The invariant holds *)

\* Every body in the run is of its endpoint, and None is none of them.
LEMMA WorkTypes ==
    ASSUME NEW r \in Requests, NEW w \in Works[r]
    PROVE  w \in Work /\ HasItsFields(w) /\ w # None
BY HandlersAssumption

\* Before anything arrives there is nothing to say.
LEMMA InitHandlersInv == HandlersInit => HandlersInv
<1> SUFFICES ASSUME HandlersInit PROVE HandlersInv
    OBVIOUS
<1>1. \A r \in Requests : pc[r] = "new" /\ response[r].status = 0
    BY DEF HandlersInit, Init, NoResponse
<1>2. exchange = {}
    BY DEF HandlersInit, Init
<1>3. HandlersTypeOK /\ Judged
    BY <1>1 DEF HandlersInit, HandlersTypeOK, Judged
<1> QED
    BY <1>1, <1>2, <1>3 DEF HandlersInv, Refused, SaysTheAsk

\* A request arrives with an ask and with what its checks make of it.
LEMMA ArriveInv ==
    ASSUME IInv, HandlersInv, NEW r \in Requests, Arrive(r)
    PROVE  HandlersInv'
<1> USE DEF HandlersInv, HandlersTypeOK
<1> PICK w \in Works[r] : req'[r].wellFormed = Accepts(w)
                          /\ work' = [work EXCEPT ![r] = w]
    BY DEF Arrive
<1>1. w \in Work /\ w # None
    BY WorkTypes
<1>2. /\ pc[r] = "new" /\ pc'[r] # "new" /\ pc'[r] # "send" /\ r \notin exchange
      /\ response'[r].status = 400 => response[r].status = 400
      /\ response[r].status # 400
  <2>1. pc[r] = "new" /\ TypeOK /\ response[r] = NoResponse /\ r \notin exchange
    BY DEF Arrive, RequireAuth, IInv, Outcome
  <2>2. \/ pc'[r] = "salt" /\ response'[r] = response[r]
        \/ pc'[r] = "done" /\ response'[r] = Failure(401)
    BY <2>1 DEF Arrive, RequireAuth, Build, Goto, TypeOK
  <2> QED
    BY <2>1, <2>2 DEF NoResponse, Failure
<1>3. /\ exchange' = exchange /\ sent' = sent
      /\ \A x \in Requests \ {r} :
            /\ pc'[x] = pc[x] /\ req'[x] = req[x]
            /\ response'[x] = response[x] /\ work'[x] = work[x]
    BY DEF Arrive, RequireAuth, Build, Goto, stores, IInv, TypeOK
<1>4. work'[r] = w
    OBVIOUS
<1>5. HandlersTypeOK'
    BY <1>1, <1>3
<1>6. Judged'
    BY <1>1, <1>2, <1>3, <1>4 DEF Judged
<1>7. Refused'
    BY <1>2, <1>3 DEF Refused
<1>8. SaysTheAsk'
    BY <1>2, <1>3 DEF SaysTheAsk, Key
<1> QED
    BY <1>5, <1>6, <1>7, <1>8

\* A handler refuses by its checks alone, and otherwise says what is asked.
LEMMA HandlerInv ==
    ASSUME IInv, HandlersInv, NEW r \in Requests, Handler(r)
    PROVE  HandlersInv'
<1> USE DEF HandlersInv
<1>1. /\ Handle(r) /\ UNCHANGED work
    BY HandlerHandles
<1>2. /\ pc[r] = "handler" /\ r \notin exchange /\ TypeOK
      /\ response[r] = NoResponse
    BY <1>1 DEF Handle, IInv, Outcome
<1>3. /\ exchange' = exchange /\ req' = req
      /\ \A x \in Requests \ {r} :
            pc'[x] = pc[x] /\ response'[x] = response[x]
      /\ pc'[r] \in {"respond", "send"}
      /\ pc'[r] = "send" => req[r].wellFormed
      /\ response'[r].status = 400 => ~ req[r].wellFormed
    BY <1>1, <1>2 DEF Handle, Build, Goto, stores, TypeOK, NoResponse, Failure
<1>4. work[r] \in Work
  <2>1. work[r] \in Works[r]
    BY <1>2 DEF Judged
  <2> QED
    BY <2>1, WorkTypes
<1>5. /\ \A x \in Requests \ {r} : sent'[x] = sent[x]
      /\ sent' \in [Requests -> Message \cup {None}]
      /\ pc'[r] = "send" =>
            /\ sent'[r].idempotencyKey = Key(r)
            /\ Body(sent'[r]) = Says(work[r])
  <2>1. CASE pc'[r] # "send" /\ sent' = sent
    BY <2>1 DEF HandlersTypeOK
  <2>2. ASSUME NEW m \in Message, sent' = [sent EXCEPT ![r] = m],
               m.idempotencyKey = Key(r), Body(m) = Says(work[r])
        PROVE  /\ \A x \in Requests \ {r} : sent'[x] = sent[x]
               /\ sent' \in [Requests -> Message \cup {None}]
               /\ sent'[r].idempotencyKey = Key(r)
               /\ Body(sent'[r]) = Says(work[r])
    <3>1. sent'[r] = m
      BY <2>2 DEF HandlersTypeOK
    <3> QED
      BY <2>2, <3>1 DEF HandlersTypeOK
  <2> QED
    BY <1>4, <2>1, <2>2, HandlerSays
<1>6. HandlersTypeOK'
    BY <1>1, <1>5 DEF HandlersTypeOK
<1>7. Judged'
    BY <1>1, <1>2, <1>3 DEF Judged
<1>8. Refused'
    BY <1>3 DEF Refused
<1>9. SaysTheAsk'
    BY <1>1, <1>2, <1>3, <1>5 DEF SaysTheAsk, Key
<1> QED
    BY <1>6, <1>7, <1>8, <1>9

\* Every step keeps it.
LEMMA StepHandlersInv ==
    IInv /\ HandlersInv /\ [HandlersNext]_handlersVars => HandlersInv'
<1> SUFFICES ASSUME IInv, HandlersInv, [HandlersNext]_handlersVars
             PROVE  HandlersInv'
    OBVIOUS
<1>1. StageEffect
    BY HandlersStepMaps, StepEffect DEF IInv, Effect
<1>2. ASSUME UNCHANGED <<work, sent>>, ElsewhereEffect PROVE HandlersInv'
  <2> USE <1>1, <1>2 DEF HandlersInv, ElsewhereEffect, StageEffect
  <2>1. HandlersTypeOK'
    BY DEF HandlersTypeOK
  <2>2. Judged'
    BY WorkTypes DEF Judged
  <2>3. Refused'
    <3> SUFFICES ASSUME NEW r \in Requests, response'[r].status = 400
                 PROVE  ~ req'[r].wellFormed
      BY DEF Refused
    <3>1. response[r].status = 400 /\ pc[r] # "new"
      BY DEF IInv, Outcome, NoResponse
    <3> QED
      BY <3>1 DEF Refused
  <2>4. SaysTheAsk'
    <3> SUFFICES ASSUME NEW r \in Requests, pc'[r] = "send" \/ r \in exchange'
                 PROVE  /\ req'[r].wellFormed
                        /\ sent[r].idempotencyKey = Key(r)
                        /\ Body(sent[r]) = Says(work[r])
      BY DEF SaysTheAsk, Key
    <3>1. pc[r] = "send" \/ r \in exchange
      OBVIOUS
    <3>2. pc[r] # "new"
      BY <3>1 DEF IInv, Outcome
    <3> QED
      BY <3>1, <3>2 DEF SaysTheAsk
  <2> QED
    BY <2>1, <2>2, <2>3, <2>4
<1>3. CASE Elsewhere
    BY <1>2, <1>3, StepElsewhere DEF Elsewhere
<1>4. CASE UNCHANGED handlersVars
  <2>1. ElsewhereEffect /\ UNCHANGED <<work, sent>>
    BY <1>4 DEF ElsewhereEffect, handlersVars, vars, server
  <2> QED
    BY <1>2, <2>1
<1> QED
    BY <1>3, <1>4, ArriveInv, HandlerInv DEF HandlersNext

\* The inductive invariant, beside that of the requests.
THEOREM HandlersInvariance == HandlersSpec => []HandlersInv
<1>1. HandlersSpec => []IInv
    BY HandlersRefinement, Invariance
<1>2. HandlersInit => HandlersInv
    BY InitHandlersInv
<1>3. IInv /\ HandlersInv /\ [HandlersNext]_handlersVars => HandlersInv'
    BY StepHandlersInv
<1> QED
    BY <1>1, <1>2, <1>3, PTL DEF HandlersSpec, handlersVars

-----------------------------------------------------------------------------
(* What messages tell of operations *)

\* The fields a message has are all the fields of its operation.
LEMMA SaysFields ==
    ASSUME NEW w \in Work, HasItsFields(w)
    PROVE  LET p == Says(w).payload IN
           /\ p.target = w.target /\ p.party = w.party /\ p.label = w.label
           /\ p.symbol = w.symbol /\ p.number = w.number
           /\ p.amount = w.amount
<1>1. w.endpoint \in Endpoints
    BY DEF Work
<1> QED
    BY <1>1 DEF Says, HasItsFields, Blank, Endpoints, TokenEvents

\* The exchange tells the endpoint, or that it is one of the token events, and
\* then the type of the event tells which.
LEMMA SaysEndpoint ==
    ASSUME NEW w \in Work, NEW x \in Work, Says(w) = Says(x)
    PROVE  w.endpoint = x.endpoint
<1> DEFINE Exchange(e) ==
        CASE e = "deploy" -> "EXCHANGE_TOKEN_TRANSFER_REQUEST"
          [] e \in TokenEvents -> "TOKEN_EVENT"
          [] e = "create_user" -> "EXCHANGE_ACCOUNT_CREATE_REQUEST"
          [] e = "fiat_balance" -> "EXCHANGE_FIAT_BALANCE_REQUEST"
          [] e = "token_balance" -> "EXCHANGE_TOKEN_BALANCE_REQUEST"
<1>1. ASSUME NEW v \in Work
      PROVE  /\ v.endpoint \in Endpoints
             /\ Says(v).exchange = Exchange(v.endpoint)
             /\ v.endpoint \in TokenEvents => Says(v).payload.type = v.endpoint
  <2>1. v.endpoint \in Endpoints
    BY DEF Work
  <2> QED
    BY <2>1 DEF Says, Endpoints, TokenEvents, Blank
<1>2. Exchange(w.endpoint) = Exchange(x.endpoint)
    BY <1>1
<1>3. /\ w.endpoint \in Endpoints /\ x.endpoint \in Endpoints
      /\ w.endpoint \in TokenEvents => Says(w).payload.type = w.endpoint
      /\ x.endpoint \in TokenEvents => Says(w).payload.type = x.endpoint
    BY <1>1
<1> QED
    BY <1>2, <1>3 DEF Endpoints, TokenEvents

\* Accepted requests that say the same want the same operation.
LEMMA SaysIdentifies ==
    ASSUME NEW w \in Work, NEW x \in Work, HasItsFields(w), HasItsFields(x),
           Accepts(w), Accepts(x)
    PROVE  Says(w) = Says(x) <=> Operation(w) = Operation(x)
<1> DEFINE Same == /\ w.endpoint = x.endpoint /\ w.target = x.target
                   /\ w.party = x.party /\ w.label = x.label
                   /\ w.symbol = x.symbol /\ w.number = x.number
                   /\ w.amount = x.amount
<1>1. ASSUME NEW v \in Work, HasItsFields(v), Accepts(v) PROVE v.mail = TRUE
  <2>1. v.mail \in BOOLEAN
    BY DEF Work
  <2>2. v.mail
    BY <1>1 DEF HasItsFields, Accepts, CreateUserAccepts
  <2> QED
    BY <2>1, <2>2
<1>2. Operation(w) = Operation(x) <=> Same
  <2>1. w.mail = TRUE /\ x.mail = TRUE
    BY <1>1
  <2>2. ASSUME NEW v \in Work
        PROVE  LET o == Operation(v) IN
               /\ o.endpoint = v.endpoint /\ o.target = v.target
               /\ o.party = v.party /\ o.label = v.label /\ o.symbol = v.symbol
               /\ o.number = v.number /\ o.amount = v.amount
               /\ o.metadata = None /\ o.mail = v.mail /\ o.bodyKey = None
               /\ o \in Work
    BY DEF Operation, Work
  <2>3. ASSUME NEW v \in Work, NEW u \in Work,
               v.endpoint = u.endpoint, v.target = u.target, v.party = u.party,
               v.label = u.label, v.symbol = u.symbol, v.number = u.number,
               v.amount = u.amount, v.metadata = u.metadata,
               v.mail = u.mail, v.bodyKey = u.bodyKey
        PROVE  v = u
    BY <2>3 DEF Work
  <2>4. ASSUME Operation(w) = Operation(x) PROVE Same
    BY <2>2, <2>4
  <2>5. ASSUME Same PROVE Operation(w) = Operation(x)
    <3> DEFINE v == Operation(w)
               u == Operation(x)
    <3>1. /\ v \in Work /\ u \in Work
          /\ v.endpoint = u.endpoint /\ v.target = u.target
          /\ v.party = u.party /\ v.label = u.label /\ v.symbol = u.symbol
          /\ v.number = u.number /\ v.amount = u.amount
          /\ v.metadata = u.metadata /\ v.mail = u.mail /\ v.bodyKey = u.bodyKey
      BY <2>1, <2>2, <2>5
    <3> HIDE DEF v, u
    <3>2. v = u
      BY <2>3, <3>1
    <3> QED
      BY <3>2 DEF v, u
  <2> QED
    BY <2>4, <2>5
<1>3. Says(w) = Says(x) => Same
    BY SaysFields, SaysEndpoint
<1>4. Same => Says(w) = Says(x)
    BY DEF Says
<1> QED
    BY <1>2, <1>3, <1>4

-----------------------------------------------------------------------------
(* What follows *)

\* What the handlers keep and say has its type.
THEOREM HandlersTypeCorrect == HandlersSpec => []HandlersTypeOK
<1>1. HandlersInv => HandlersTypeOK
    BY DEF HandlersInv
<1> QED
    BY <1>1, HandlersInvariance, PTL

\* Whatever text comes with a request, each check finds what its name promises,
\* and signatures and their comparison are exact.
THEOREM ValidatorsCorrect == HandlersSpec => []ValidatorsMeetReference
<1>1. HandlersInv => ValidatorsMeetReference
  <2> SUFFICES ASSUME HandlersInv, NEW r \in Requests, work[r] # None,
                      NEW v \in CarriedTexts(work[r])
               PROVE  TextChecksAreRight(v)
    BY ComparisonCorrect, SignatureInjective DEF ValidatorsMeetReference
  <2>1. work[r] \in Work
    BY DEF HandlersInv, HandlersTypeOK
  <2>2. v \in Texts
    BY <2>1 DEF CarriedTexts, Work
  <2> QED
    BY <2>2, TextChecksCorrect
<1> QED
    BY <1>1, HandlersInvariance, PTL

\* The addresses of what is queued are addresses, whichever check looked at them,
\* and a token event is refused for its addresses only.
THEOREM AddressesCorrect == HandlersSpec => []AddressesAreChecked
<1>1. ASSUME NEW w \in Work, HasItsFields(w)
      PROVE  /\ Accepts(w) => Addresses(w) \subseteq EvmAddresses
             /\ w.endpoint \in TokenEvents /\ ~ Accepts(w)
                   => ~ (Addresses(w) \subseteq EvmAddresses)
  <2>1. \A v \in Texts :
            /\ is_evm_address(v) <=> v \in EvmAddresses
            /\ BodyAddress(v) <=> v \in EvmAddresses
    BY AddressCheck DEF BodyAddress
  <2>2. /\ w.endpoint \in Endpoints
        /\ w.target \in Texts \cup {None} /\ w.party \in Texts \cup {None}
    BY DEF Work
  <2>3. CASE w.endpoint = "deploy"
    BY <1>1, <2>1, <2>2, <2>3
       DEF Accepts, DeployAccepts, Addresses, HasItsFields, TokenEvents
  <2>4. CASE w.endpoint \in {"mint", "burn", "transfer"}
    BY <1>1, <2>1, <2>2, <2>4
       DEF Accepts, MoveAccepts, Addresses, HasItsFields, TokenEvents
  <2>5. CASE w.endpoint \in {"pause", "unpause"}
    BY <1>1, <2>1, <2>2, <2>5
       DEF Accepts, PauseAccepts, Addresses, HasItsFields, TokenEvents
  <2>6. CASE w.endpoint \in {"create_user", "fiat_balance"}
    BY <1>1, <2>2, <2>6 DEF Addresses, HasItsFields, TokenEvents
  <2>7. CASE w.endpoint = "token_balance"
    BY <1>1, <2>1, <2>2, <2>7
       DEF Accepts, TokenBalanceAccepts, Addresses, HasItsFields, TokenEvents
  <2> QED
    BY <2>2, <2>3, <2>4, <2>5, <2>6, <2>7 DEF Endpoints, TokenEvents
<1>2. IInv /\ HandlersInv => AddressesAreChecked
  <2> SUFFICES ASSUME IInv, HandlersInv, NEW r \in Requests, work[r] # None
               PROVE  LET real == Addresses(work[r]) \subseteq EvmAddresses IN
                      /\ r \in exchange => real
                      /\ work[r].endpoint \in TokenEvents
                         /\ response[r].status = 400 => ~ real
    BY DEF AddressesAreChecked
  <2>1. /\ work[r] \in Work /\ HasItsFields(work[r])
        /\ req[r].wellFormed = Accepts(work[r])
    BY WorkTypes DEF HandlersInv, Judged
  <2>2. r \in exchange => Accepts(work[r])
    BY <2>1 DEF HandlersInv, SaysTheAsk
  <2>3. response[r].status = 400 => ~ Accepts(work[r])
    BY <2>1 DEF HandlersInv, Refused
  <2> QED
    BY <1>1, <2>1, <2>2, <2>3
<1>3. HandlersSpec => []IInv
    BY HandlersRefinement, Invariance
<1> QED
    BY <1>2, <1>3, HandlersInvariance, PTL

\* Messages tell operations apart, whatever texts, clients and keys there are, but
\* neither deploys that differ in their metadata_uri nor the clients; and they tell
\* a retry by the key of its body alone.
THEOREM MessagesCorrect == HandlersSpec => []MessagesIdentifyOperations
<1>1. IInv /\ HandlersInv => MessagesIdentifyOperations
  <2> SUFFICES ASSUME IInv, HandlersInv, NEW a \in exchange, NEW b \in exchange
               PROVE  LET m == sent[a]
                          n == sent[b] IN
                      /\ <<m.exchange, m.event, m.payload>>
                            = <<n.exchange, n.event, n.payload>>
                         <=> Operation(work[a]) = Operation(work[b])
                      /\ m.idempotencyKey = n.idempotencyKey
                         <=> (a = b \/ (/\ work[a].bodyKey # None
                                        /\ work[a].bodyKey = work[b].bodyKey))
    BY DEF MessagesIdentifyOperations
  <2>1. ASSUME NEW r \in exchange
        PROVE  /\ r \in Requests /\ work[r] \in Work /\ HasItsFields(work[r])
               /\ Accepts(work[r]) /\ Body(sent[r]) = Says(work[r])
               /\ sent[r].idempotencyKey = Key(r)
    <3>1. r \in Requests /\ pc[r] # "new"
      BY DEF IInv, TypeOK, Outcome
    <3>2. /\ work[r] \in Work /\ HasItsFields(work[r])
          /\ req[r].wellFormed = Accepts(work[r])
      BY <3>1, WorkTypes DEF HandlersInv, Judged
    <3>3. /\ req[r].wellFormed
          /\ Body(sent[r]) = Says(work[r]) /\ sent[r].idempotencyKey = Key(r)
      BY <3>1 DEF HandlersInv, SaysTheAsk
    <3> QED
      BY <3>1, <3>2, <3>3
  <2>2. Body(sent[a]) = Body(sent[b]) <=> Operation(work[a]) = Operation(work[b])
    BY <2>1, SaysIdentifies
  <2>3. <<sent[a].exchange, sent[a].event, sent[a].payload>>
            = <<sent[b].exchange, sent[b].event, sent[b].payload>>
        <=> Body(sent[a]) = Body(sent[b])
    <3> DEFINE Equal == /\ sent[a].exchange = sent[b].exchange
                        /\ sent[a].event = sent[b].event
                        /\ sent[a].payload = sent[b].payload
    <3>1. \A m : /\ Body(m).exchange = m.exchange /\ Body(m).event = m.event
                 /\ Body(m).payload = m.payload
      BY DEF Body
    <3>2. Body(sent[a]) = Body(sent[b]) => Equal
      BY <3>1
    <3>3. Equal => Body(sent[a]) = Body(sent[b])
      BY DEF Body
    <3>4. <<sent[a].exchange, sent[a].event, sent[a].payload>>
              = <<sent[b].exchange, sent[b].event, sent[b].payload>>
          <=> Equal
      OBVIOUS
    <3> QED
      BY <3>2, <3>3, <3>4
  <2>4. Key(a) = Key(b)
        <=> (a = b \/ (/\ work[a].bodyKey # None
                       /\ work[a].bodyKey = work[b].bodyKey))
    <3>1. /\ work[a].bodyKey \in Keys \cup {None}
          /\ work[b].bodyKey \in Keys \cup {None}
          /\ a \in Requests /\ b \in Requests
      BY <2>1 DEF Work
    <3> QED
      BY <3>1, HandlersAssumption, PipelineAssumption DEF Key
  <2> QED
    BY <2>1, <2>2, <2>3, <2>4
<1>2. HandlersSpec => []IInv
    BY HandlersRefinement, Invariance
<1> QED
    BY <1>1, <1>2, HandlersInvariance, PTL

=============================================================================
