-------------------------- MODULE MCBusinessService --------------------------
(***************************************************************************)
(* A small instance of BusinessService for TLC: the requests are of one    *)
(* client, while statistics may be asked for by any.                       *)
(***************************************************************************)
EXTENDS BusinessService

CONSTANT c1    \* the client the requests are of

\* Authenticated, valid, unsigned requests that carry a key.
KeyedInputs ==
    {q \in Request :
        q.client = c1 /\ q.key # None /\ q.signedWith = 0 /\ q.wellFormed}
=============================================================================
