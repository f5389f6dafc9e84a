-------------------------- MODULE MCRequestPipeline --------------------------
(***************************************************************************)
(* Small instances of RequestPipeline for TLC.  Requests, clients and keys *)
(* are interchangeable, so the safety runs use symmetry; the liveness run  *)
(* does not.                                                               *)
(***************************************************************************)
EXTENDS RequestPipeline, TLC

Symmetry ==
    Permutations(Requests) \cup Permutations(Clients) \cup Permutations(Keys)

\* A request whose token require_auth rejects.
Unauthenticated ==
    [client |-> None, key |-> None, signedWith |-> 0, wellFormed |-> TRUE]

\* Retries: authenticated, valid, unsigned requests that carry a key.
KeyedInputs ==
    {q \in Request :
        q.client # None /\ q.key # None /\ q.signedWith = 0 /\ q.wellFormed}

\* Unsigned requests: with a key (valid or not), or valid without one.
UnsignedInputs ==
    {q \in Request :
        q.client # None /\ q.signedWith = 0 /\ (q.key # None \/ q.wellFormed)}

\* Signed with any salt or not at all, with or without a key.
SignedInputs ==
    {q \in Request : q.client # None /\ q.wellFormed} \cup {Unauthenticated}
=============================================================================
