-------------------------- MODULE OperationHandlers --------------------------
(***************************************************************************)
(* The nine handlers of routes/tokens.rs and routes/users.rs, in the place *)
(* of RequestPipeline's Handle: what each checks, which exchange it names  *)
(* and what its message says.  A body has been decoded here.  The network, *)
(* the token standard, the supply and the e-mail address, which messages   *)
(* repeat unchanged, are left out on both sides, and so is the time.       *)
(***************************************************************************)
EXTENDS RequestPipeline, Validation

CONSTANTS
    Works,              \* what each request may ask: some of Work
    NAME_MAX,           \* 64
    SYMBOL_MAX,         \* 11
    EXTERNAL_ID_MAX,    \* 128
    DECIMALS_MAX        \* 18

VARIABLES
    work,    \* what each request asks, None until it arrives
    sent     \* the payload each request's handler has given to publish

TokenEvents == {"mint", "burn", "transfer", "pause", "unpause"}
Endpoints ==
    TokenEvents \cup {"deploy", "create_user", "fiat_balance", "token_balance"}

\* target: the {address} or {external_id} of the path.  party: owner_address, to,
\* from, contract_address.  label: name, currency, the new user's external_id.
\* number: decimals, the fiat amount.  amount: the amount of tokens, a string.
\* metadata: metadata_uri.  mail: email is absent or an address.  bodyKey:
\* idempotency_key.  What an endpoint does not have is None.
Work == [endpoint : Endpoints, target : Texts \cup {None},
         party : Texts \cup {None}, label : Texts \cup {None},
         symbol : Texts \cup {None}, number : Nat \cup {None},
         amount : Texts \cup {None}, metadata : Texts \cup {None},
         mail : BOOLEAN, bodyKey : Keys \cup {None}]

\* A body that lacks what its endpoint must have is not decoded.  deploy can do
\* without name, symbol, decimals and metadata, a token event without an amount.
HasItsFields(w) ==
    /\ w.target = None <=> w.endpoint \in {"deploy", "create_user"}
    /\ w.party = None <=>
          w.endpoint \in {"pause", "unpause", "create_user", "fiat_balance"}
    /\ w.label # None => w.endpoint \in {"deploy", "create_user", "fiat_balance"}
    /\ w.label = None => w.endpoint \notin {"create_user", "fiat_balance"}
    /\ w.symbol # None => w.endpoint = "deploy"
    /\ w.number # None => w.endpoint \in {"deploy", "fiat_balance"}
    /\ w.number = None => w.endpoint # "fiat_balance"
    /\ w.amount # None =>
          w.endpoint \in {"mint", "burn", "transfer", "token_balance"}
    /\ w.amount = None => w.endpoint # "token_balance"
    /\ w.metadata # None => w.endpoint = "deploy"
    /\ w.mail \/ w.endpoint = "create_user"

\* A generated key is a fresh UUID: no body has it.
ASSUME HandlersAssumption ==
    /\ Works \in [Requests -> SUBSET {w \in Work : HasItsFields(w)}]
    /\ {NAME_MAX, SYMBOL_MAX, EXTERNAL_ID_MAX, DECIMALS_MAX} \subseteq Nat
    /\ None \notin Work \cup Texts \cup Nat
    /\ Keys \cap Requests = {}

Payload == [type : TokenEvents \cup {None}, target : Texts \cup {None},
            party : Texts \cup {None}, label : Texts \cup {None},
            symbol : Texts \cup {None}, number : Nat \cup {None},
            amount : Texts \cup {None}]

Exchanges ==
    {"TOKEN_EVENT", "EXCHANGE_TOKEN_TRANSFER_REQUEST",
     "EXCHANGE_ACCOUNT_CREATE_REQUEST", "EXCHANGE_FIAT_BALANCE_REQUEST",
     "EXCHANGE_TOKEN_BALANCE_REQUEST"}
Events ==
    {"token.event.requested", "token.creation.requested",
     "account.create.requested", "fiat.balance.add.requested",
     "token.balance.add.requested"}

\* The message without its message_id.  A generated key is named after its request.
Message == [exchange : Exchanges, event : Events,
            idempotencyKey : Keys \cup Requests, payload : Payload]

HandlersInit ==
    /\ Init
    /\ work = [r \in Requests |-> None]
    /\ sent = [r \in Requests |-> None]

-----------------------------------------------------------------------------
(* What the handlers check *)

Within(text, max) == Len(text) \in 1..max
Optional(text, max) ==
    text # None => Within(text, max) /\ is_safe_text(text)

\* #[validate(length(min = 42, max = 42))], then the format.
BodyAddress(text) == Len(text) = AddressLength /\ is_evm_address(text)

DeployAccepts(w) ==
    /\ Optional(w.label, NAME_MAX)
    /\ Optional(w.symbol, SYMBOL_MAX)
    /\ w.number # None => w.number <= DECIMALS_MAX
    /\ BodyAddress(w.party)

\* mint, burn, transfer.  Here and in TokenBalanceAccepts the amount is not
\* looked at.
MoveAccepts_pathUnchecked(w) == BodyAddress(w.party)
MoveAccepts(w) == is_evm_address(w.target) /\ BodyAddress(w.party)

PauseAccepts(w) == is_evm_address(w.target)

CreateUserAccepts(w) ==
    /\ Within(w.label, EXTERNAL_ID_MAX) /\ is_safe_text(w.label)
    /\ w.mail

FiatAccepts(w) ==
    /\ w.number >= 1
    /\ is_safe_text(w.target) /\ is_safe_text(w.label)

TokenBalanceAccepts(w) == is_safe_text(w.target) /\ BodyAddress(w.party)

Accepts(w) ==
    CASE w.endpoint = "deploy" -> DeployAccepts(w)
      [] w.endpoint \in {"mint", "burn", "transfer"} -> MoveAccepts(w)
      [] w.endpoint \in {"pause", "unpause"} -> PauseAccepts(w)
      [] w.endpoint = "create_user" -> CreateUserAccepts(w)
      [] w.endpoint = "fiat_balance" -> FiatAccepts(w)
      [] w.endpoint = "token_balance" -> TokenBalanceAccepts(w)

\* The checks read nothing but the request, so their outcome comes with it.
Arrive(r) ==
    /\ RequireAuth(r)
    /\ \E w \in Works[r] :
          /\ req'[r].wellFormed = Accepts(w)
          /\ work' = [work EXCEPT ![r] = w]
    /\ UNCHANGED sent

-----------------------------------------------------------------------------
(* What the handlers publish *)

\* unwrap_or_else(|| Uuid::new_v4()): the header's key is not in the message.
Key_null(r) == work[r].bodyKey
Key(r) == IF work[r].bodyKey # None THEN work[r].bodyKey ELSE r

\* The payload is built before the channel is asked for.
Publishes(r, exch, event, payload) ==
    /\ Handle(r)
    /\ sent' = IF pc'[r] # "send" THEN sent
               ELSE [sent EXCEPT ![r] =
                        [exchange |-> exch, event |-> event,
                         idempotencyKey |-> Key(r), payload |-> payload]]
    /\ UNCHANGED work

Blank == [type |-> None, target |-> None, party |-> None, label |-> None,
          symbol |-> None, number |-> None, amount |-> None]

\* metadata_uri is accepted and dropped.
Deploy(r) ==
    LET w == work[r] IN
    /\ w.endpoint = "deploy"
    /\ Publishes(r, "EXCHANGE_TOKEN_TRANSFER_REQUEST", "token.creation.requested",
                 [Blank EXCEPT !.party = w.party, !.label = w.label,
                               !.symbol = w.symbol, !.number = w.number])

TokenEvent(r, payload) ==
    Publishes(r, "TOKEN_EVENT", "token.event.requested", payload)

\* mint, burn and transfer name one more party and an amount.
Move(r, type) ==
    LET w == work[r] IN
    /\ w.endpoint = type
    /\ TokenEvent(r, [Blank EXCEPT !.type = type, !.target = w.target,
                                   !.party = w.party, !.amount = w.amount])

Mint(r) == Move(r, "mint")
Burn(r) == Move(r, "burn")
Transfer(r) == Move(r, "transfer")

enqueue_pause(r, op) ==
    TokenEvent(r, [Blank EXCEPT !.type = op, !.target = work[r].target])

Pause(r) == work[r].endpoint = "pause" /\ enqueue_pause(r, "pause")
Unpause_pauses(r) == work[r].endpoint = "unpause" /\ enqueue_pause(r, "pause")
Unpause(r) == work[r].endpoint = "unpause" /\ enqueue_pause(r, "unpause")

CreateUser(r) ==
    LET w == work[r] IN
    /\ w.endpoint = "create_user"
    /\ Publishes(r, "EXCHANGE_ACCOUNT_CREATE_REQUEST", "account.create.requested",
                 [Blank EXCEPT !.label = w.label])

AddFiatBalance(r) ==
    LET w == work[r] IN
    /\ w.endpoint = "fiat_balance"
    /\ Publishes(r, "EXCHANGE_FIAT_BALANCE_REQUEST", "fiat.balance.add.requested",
                 [Blank EXCEPT !.target = w.target, !.label = w.label,
                               !.number = w.number])

AddTokenBalance(r) ==
    LET w == work[r] IN
    /\ w.endpoint = "token_balance"
    /\ Publishes(r, "EXCHANGE_TOKEN_BALANCE_REQUEST",
                 "token.balance.add.requested",
                 [Blank EXCEPT !.target = w.target, !.party = w.party,
                               !.amount = w.amount])

Handler(r) ==
    /\ pc[r] = "handler"
    /\ \/ Deploy(r) \/ Mint(r) \/ Burn(r) \/ Transfer(r) \/ Pause(r)
       \/ Unpause(r) \/ CreateUser(r) \/ AddFiatBalance(r) \/ AddTokenBalance(r)

\* Everything of RequestPipeline but the arrival and the handler.
Elsewhere ==
    /\ \/ \E r \in Requests :
             \/ ReadSalt(r) \/ CheckSignature(r) \/ IdempotencyLookup(r)
             \/ Publish(r) \/ IdempotencyStore(r) \/ Respond(r)
             \/ RecordRequest(r) \/ Disconnect(r)
       \/ \E c \in Clients : RegenerateSalt(c)
       \/ \E s \in Scopes : Expire(s)
       \/ Restart
       \/ LoseConnection
    /\ UNCHANGED <<work, sent>>

HandlersNext ==
    \/ \E r \in Requests : Arrive(r) \/ Handler(r)
    \/ Elsewhere

HandlersSpec == HandlersInit /\ [][HandlersNext]_<<vars, work, sent>>

-----------------------------------------------------------------------------
(* Properties *)

\* work and sent hold values of their types.
HandlersTypeOK ==
    /\ work \in [Requests -> Work \cup {None}]
    /\ sent \in [Requests -> Message \cup {None}]

CarriedTexts(w) ==
    {w.target, w.party, w.label, w.symbol, w.amount, w.metadata} \ {None}

\* What the callers of validation.rs rely on: of every text a request brings in,
\* that an address is one by the reference definition, as long as it should be in
\* bytes and in characters, and a strong password is one by its own, with letters
\* of no case counting as none of what it must have; and that a signature matches
\* exactly one salt and one payload, byte for byte.
ValidatorsMeetReference ==
    /\ \A r \in Requests : work[r] # None =>
          \A v \in CarriedTexts(work[r]) : TextChecksAreRight(v)
    /\ ComparisonIsEquality /\ SignatureIsInjective

\* The addresses a work carries: of the contract, and of the owner or receiver.
Addresses(w) ==
    (IF w.endpoint \in TokenEvents THEN {w.target, w.party} ELSE {w.party}) \ {None}

\* Nothing is queued for an address that is not one by the reference definition,
\* whichever handler was to check it: the path's and the body's are checked by
\* different means, one of which counts characters, not bytes.  And the token
\* events, which check nothing else, refuse a request for no other reason.
AddressesAreChecked ==
    \A r \in Requests : work[r] # None =>
        LET real == Addresses(work[r]) \subseteq EvmAddresses IN
        /\ r \in exchange => real
        /\ work[r].endpoint \in TokenEvents /\ response[r].status = 400 => ~ real

\* What a request wants done, as far as messages tell it: they carry no
\* metadata_uri and no client, and the key apart from the rest.
Operation(w) == [w EXCEPT !.bodyKey = None, !.metadata = None]

\* What the consumers of the messages can tell apart (tokens.rs:61-79).  From
\* equal payloads follow equal operations, even where two handlers share the
\* exchange and the event; but equal operations with other metadata, or of other
\* clients, are told by the same payload.  Two messages share an idempotencyKey
\* exactly if both bodies had it, whoever sent them: a retry whose body has a key
\* sends the same message, one that relies on the header's key does not, and two
\* clients that choose one key for one operation cannot be told from a retry.
MessagesIdentifyOperations ==
    \A a, b \in exchange :
        LET m == sent[a]
            n == sent[b] IN
        /\ <<m.exchange, m.event, m.payload>> = <<n.exchange, n.event, n.payload>>
           <=> Operation(work[a]) = Operation(work[b])
        /\ m.idempotencyKey = n.idempotencyKey
           <=> (a = b \/ (/\ work[a].bodyKey # None
                          /\ work[a].bodyKey = work[b].bodyKey))
=============================================================================
