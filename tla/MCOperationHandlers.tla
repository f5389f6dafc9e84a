------------------------- MODULE MCOperationHandlers -------------------------
(***************************************************************************)
(* A small instance of OperationHandlers for TLC: addresses of four        *)
(* characters, one request that may ask anything, each field good or bad,  *)
(* and a second one that asks a few things, perhaps with the same keys.    *)
(***************************************************************************)
EXTENDS OperationHandlers, TLC

CONSTANTS r1, k1    \* the request that may ask anything; the key in bodies

Symmetry == Permutations(Clients)

Owner == <<"0", "x", "a", "0">>
Token == <<"0", "x", "7", "B">>

\* Addresses with one thing wrong: a digit, the prefix, too short, too long, and
\* of the right length only in bytes or only in characters.
NoAddresses ==
    {<<"0", "x", "a", "x">>, <<"7", "x", "a", "0">>, <<"0", "x", "a">>,
     <<"0", "x", "a", "0", "0">>, <<"0", "x", "e'">>, <<"0", "x", "a", "e'">>}

WrongDigit == {<<"0", "x", "a", "x">>}

Name == <<"Z", "a">>
TooLong == <<"Z", "a", "a", "a">>
Markup == <<"@">>
Mixed == <<"Z", "a", "0", "@">>
Caseless == <<"Z", "a", "0", "aleph">>
Amount == <<"7", "0">>
Negative == <<"@", "7">>

MCTexts ==
    {Owner, Token, Name, TooLong, Markup, Mixed, Caseless, Amount, Negative,
     <<>>, <<"Z">>}
    \cup NoAddresses
MCInjections == {Markup}
MCBytes == UNION {[1..n -> SUBSET {0, 1}] : n \in 0..2}

Nothing == [endpoint |-> "pause", target |-> None, party |-> None,
            label |-> None, symbol |-> None, number |-> None, amount |-> None,
            metadata |-> None, mail |-> TRUE, bodyKey |-> None]

Deployment ==
    [Nothing EXCEPT !.endpoint = "deploy", !.party = Owner, !.label = Name,
                    !.symbol = <<"Z">>, !.number = 1]
Moving(type) ==
    [Nothing EXCEPT !.endpoint = type, !.target = Token, !.party = Owner,
                    !.amount = Amount]
Pausing(type) == [Nothing EXCEPT !.endpoint = type, !.target = Token]
NewUser == [Nothing EXCEPT !.endpoint = "create_user", !.label = Name]
Fiat ==
    [Nothing EXCEPT !.endpoint = "fiat_balance", !.target = Name,
                    !.label = <<"Z">>, !.number = 1]
Balance ==
    [Nothing EXCEPT !.endpoint = "token_balance", !.target = Name,
                    !.party = Token, !.amount = Amount]

GoodWorks ==
    {Deployment, NewUser, Fiat, Balance, Pausing("pause"), Pausing("unpause"),
     Moving("mint"), Moving("burn"), Moving("transfer")}

\* One field of a good work is bad, absent or at a bound.
OddWorks ==
    {[Deployment EXCEPT !.party = a] : a \in NoAddresses}
    \cup {[Moving("mint") EXCEPT !.target = a] : a \in NoAddresses}
    \cup {[w EXCEPT !.party = a] :
        w \in {v \in GoodWorks : v.party # None}, a \in WrongDigit}
    \cup {[w EXCEPT !.target = a] :
        w \in {v \in GoodWorks : v.endpoint \in TokenEvents}, a \in WrongDigit}
    \cup {[w EXCEPT !.target = Markup] : w \in {Fiat, Balance}}
    \cup {[Pausing("pause") EXCEPT !.target = t] : t \in {Mixed, Caseless}}
    \cup {[w EXCEPT !.label = t] :
        w \in {Deployment, NewUser, Fiat}, t \in {<<>>, TooLong, Markup}}
    \cup {[Deployment EXCEPT !.symbol = t] : t \in {None, <<>>, Name}}
    \cup {[Deployment EXCEPT !.label = None], [Deployment EXCEPT !.number = 2],
          [Fiat EXCEPT !.number = 0], [NewUser EXCEPT !.mail = FALSE],
          [Moving("mint") EXCEPT !.amount = None],
          [Balance EXCEPT !.amount = Negative]}

WithKey(works) == {[w EXCEPT !.bodyKey = k1] : w \in works}

MCWorks ==
    [r \in Requests |->
        IF r = r1
        THEN GoodWorks \cup OddWorks
             \cup WithKey({Pausing("pause"), Pausing("unpause")})
        ELSE {Moving("mint"), [Deployment EXCEPT !.metadata = Name]}
             \cup WithKey({Pausing("pause")})]

\* Authenticated, unsigned requests that carry a key.
MCInputs ==
    {q \in Request : q.client # None /\ q.key # None /\ q.signedWith = 0}
=============================================================================
