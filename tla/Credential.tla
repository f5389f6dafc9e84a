----------------------------- MODULE Credential -----------------------------
(***************************************************************************)
(* What the service promises of a secret it generates and keeps only a     *)
(* hash of (the client secret), whoever replaces it and however the calls  *)
(* overlap: a secret that was replaced never comes back, and a call is let *)
(* in only at a moment when the secret it shows is the current one.        *)
(***************************************************************************)
CONSTANTS
    Calls,      \* the calls that may be let in
    Secrets,    \* what the secret may become
    None

VARIABLES
    current,    \* the secret in force; None: no secret is right
    retired,    \* the secrets that were in force and were replaced
    admitted    \* the secret each call was let in with

Init ==
    /\ current \in Secrets \cup {None}
    /\ retired = {}
    /\ admitted = [c \in Calls |-> None]

Replace ==
    /\ current' \in Secrets \ (retired \cup {current})
    /\ retired' = retired \cup ({current} \ {None})
    /\ UNCHANGED admitted

Admit(c) ==
    /\ admitted[c] = None
    /\ current # None
    /\ admitted' = [admitted EXCEPT ![c] = current]
    /\ UNCHANGED <<current, retired>>

Next == Replace \/ \E c \in Calls : Admit(c)

Spec == Init /\ [][Next]_<<current, retired, admitted>>
=============================================================================
