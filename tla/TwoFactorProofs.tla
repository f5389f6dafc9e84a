--------------------------- MODULE TwoFactorProofs ---------------------------
(***************************************************************************)
(* What TLAPS proves of TwoFactor, for any number of calls and of secrets. *)
(***************************************************************************)
EXTENDS TwoFactor, TLAPS

\* A call that is about to write was right when it read.
Checked ==
    \A c \in Calls : pc[c] = "write" /\ Kind(c) \in {"confirm", "disable"} =>
        /\ call[c].code \in Secrets
        /\ Kind(c) = "confirm" => call[c].code \in confirmed
        /\ Kind(c) = "confirm" =>
              \E r \in rows_seen[c] : r.secret = call[c].code
        /\ Kind(c) = "disable" => RowOf(TRUE, call[c].code) \in rows_seen[c]

\* Only these kinds of call wait where they wait.
Stages ==
    \A c \in Calls :
        /\ pc[c] = "write" => Kind(c) \in {"setup", "confirm", "disable"}
        /\ pc[c] = "bcrypt" => Kind(c) = "login"
        /\ pc[c] \in {"new", "read", "write", "bcrypt", "dropped"}
            => answer[c] = "none"

\* The row is one every call in progress has seen, and a login has seen 2FA as
\* it decides on it.
Watching ==
    \A c \in Calls :
        /\ c \in InProgress => RowOf(totp_enabled, totp_secret) \in rows_seen[c]
        /\ pc[c] = "bcrypt" => \E r \in rows_seen[c] : r.enabled = seen[c]

\* While a confirm is about to write, the row holds the secret it verified, or
\* none, or one that a setup put in its place.
Pending ==
    /\ Confirming # {} /\ totp_secret = None => crossed
    /\ \A c \in Confirming :
          totp_secret \notin {None, call[c].code} => overwritten

IInv ==
    /\ TypeOK /\ Stages /\ Checked /\ Watching /\ Pending
    /\ SecretLostOnlyByCrossing /\ UnconfirmedOnlyByOverwrite
    /\ AnswersMatchSomeMoment

\* The initial states satisfy the invariant.
LEMMA InitIInv == Init => IInv
<1> SUFFICES ASSUME Init PROVE IInv
    OBVIOUS
<1>1. NoCall \in Call
    BY TwoFactorAssumption DEF NoCall, Call, Kinds
<1>2. /\ minted \in 0..MaxSecrets
      /\ totp_enabled \in BOOLEAN
      /\ totp_secret \in 1..minted \cup {None}
      /\ totp_enabled => totp_secret \in Secrets
  <2>1. CASE minted = 0 /\ totp_secret = None /\ totp_enabled = FALSE
    <3>1. None \notin Secrets /\ 0 \in 0..MaxSecrets
      BY TwoFactorAssumption DEF Secrets
    <3> QED
      BY <2>1, <3>1
  <2>2. CASE /\ MaxSecrets > 0
             /\ minted = 1 /\ totp_secret = 1 /\ totp_enabled \in BOOLEAN
    BY <2>2, TwoFactorAssumption DEF Secrets
  <2> QED
    BY <2>1, <2>2 DEF Init
<1>3. TypeOK
    BY <1>1, <1>2 DEF Init, TypeOK, Answers, Secrets
<1>4. Stages /\ Checked /\ Watching /\ AnswersMatchSomeMoment
    BY DEF Init, Stages, Checked, Watching, InProgress, AnswersMatchSomeMoment
<1>5. Pending
    BY DEF Init, Pending, Confirming
<1>6. SecretLostOnlyByCrossing /\ UnconfirmedOnlyByOverwrite
    BY <1>2, TwoFactorAssumption DEF Init, SecretLostOnlyByCrossing,
       UnconfirmedOnlyByOverwrite
<1> QED
    BY <1>3, <1>4, <1>5, <1>6 DEF IInv

\* What the types say of the row, and of the row an UPDATE makes of it.
LEMMA RowTypes ==
    ASSUME TypeOK
    PROVE  /\ totp_secret \in Secrets \cup {None}
           /\ None \notin Secrets
           /\ 1..minted \subseteq Secrets /\ 0..minted \subseteq 0..MaxSecrets
           /\ minted < MaxSecrets =>
                 /\ minted + 1 \in Secrets /\ minted + 1 \in 0..MaxSecrets
                 /\ minted + 1 \in 1..(minted + 1)
           /\ \A e \in BOOLEAN, s \in Secrets \cup {None} : RowOf(e, s) \in Rows
<1>1. totp_secret \in Secrets \cup {None}
    BY TwoFactorAssumption DEF TypeOK, Secrets
<1>2. 1..minted \subseteq Secrets /\ 0..minted \subseteq 0..MaxSecrets
    BY TwoFactorAssumption DEF TypeOK, Secrets
<1>3. None \notin Secrets
    BY TwoFactorAssumption DEF Secrets
<1>4. \A e \in BOOLEAN, s \in Secrets \cup {None} : RowOf(e, s) \in Rows
    BY DEF RowOf, Rows
<1>5. minted < MaxSecrets =>
         /\ minted + 1 \in Secrets /\ minted + 1 \in 0..MaxSecrets
         /\ minted + 1 \in 1..(minted + 1)
    BY TwoFactorAssumption DEF TypeOK, Secrets
<1> QED
    BY <1>1, <1>2, <1>3, <1>4, <1>5

\* An UPDATE leaves the row and the history well typed.
LEMMA ApplyType ==
    ASSUME TypeOK, NEW c \in Calls, Apply(c)
    PROVE  /\ totp_secret' \in 1..minted' \cup {None}
           /\ totp_enabled' \in BOOLEAN
           /\ minted' \in 0..MaxSecrets
           /\ rows_seen' \in [Calls -> SUBSET Rows]
           /\ confirmed' \subseteq Secrets
           /\ overwritten' \in BOOLEAN /\ crossed' \in BOOLEAN /\ off' \in BOOLEAN
<1>1. CASE SetupWrite(c)
  <2>1. RowOf(totp_enabled, minted + 1) \in Rows
    BY <1>1, RowTypes DEF SetupWrite, TypeOK
  <2>2. rows_seen' \in [Calls -> SUBSET Rows]
    BY <1>1, <2>1 DEF SetupWrite, SetRow, TypeOK
  <2> QED
    BY <1>1, <2>2, RowTypes DEF SetupWrite, SetRow, TypeOK
<1>2. CASE ConfirmWrite(c)
  <2>1. RowOf(TRUE, totp_secret) \in Rows
    BY RowTypes
  <2>2. rows_seen' \in [Calls -> SUBSET Rows]
    BY <1>2, <2>1 DEF ConfirmWrite, SetRow, TypeOK
  <2> QED
    BY <1>2, <2>2 DEF ConfirmWrite, SetRow, TypeOK
<1>3. CASE DisableWrite(c)
  <2>1. RowOf(FALSE, None) \in Rows
    BY RowTypes
  <2>2. rows_seen' \in [Calls -> SUBSET Rows]
    BY <1>3, <2>1 DEF DisableWrite, SetRow, TypeOK
  <2> QED
    BY <1>3, <2>2 DEF DisableWrite, SetRow, TypeOK
<1> QED
    BY <1>1, <1>2, <1>3 DEF Apply

\* Every step keeps every variable in its type.
LEMMA StepType == TypeOK /\ [Next]_vars => TypeOK'
<1> SUFFICES ASSUME TypeOK, [Next]_vars PROVE TypeOK'
    OBVIOUS
<1>0. /\ 0..minted \subseteq 0..MaxSecrets
      /\ RowOf(totp_enabled, totp_secret) \in Rows
      /\ totp_secret \in Secrets \cup {None}
    BY RowTypes DEF TypeOK
<1>a. ASSUME NEW c \in Calls PROVE Success(c) \in Answers
    BY DEF Success, Answers
<1>b. ASSUME NEW c \in Calls, Apply(c) PROVE
           /\ totp_secret' \in 1..minted' \cup {None}
           /\ totp_enabled' \in BOOLEAN
           /\ minted' \in 0..MaxSecrets
           /\ rows_seen' \in [Calls -> SUBSET Rows]
           /\ confirmed' \subseteq Secrets
           /\ overwritten' \in BOOLEAN /\ crossed' \in BOOLEAN /\ off' \in BOOLEAN
    BY <1>b, ApplyType
<1> USE <1>0 DEF TypeOK, row, history, Goto, Finish, KeepRow, Answers
<1>1. ASSUME NEW c \in Calls, Arrive(c) PROVE TypeOK'
    BY <1>1 DEF Arrive, Call, Kinds
<1>2. ASSUME NEW c \in Calls, SetupRead(c) PROVE TypeOK'
    BY <1>2 DEF SetupRead
<1>3. ASSUME NEW c \in Calls, ConfirmRead(c) PROVE TypeOK'
    BY <1>3 DEF ConfirmRead
<1>4. ASSUME NEW c \in Calls, DisableRead(c) PROVE TypeOK'
    BY <1>4 DEF DisableRead
<1>5. ASSUME NEW c \in Calls, Write(c) PROVE TypeOK'
    BY <1>5, <1>a, <1>b DEF Write
<1>6. ASSUME NEW c \in Calls, LoginRead(c) PROVE TypeOK'
    BY <1>6 DEF LoginRead
<1>7. ASSUME NEW c \in Calls, LoginFinish(c) PROVE TypeOK'
    BY <1>7 DEF LoginFinish
<1>8. ASSUME NEW c \in Calls, VerifyLogin(c) PROVE TypeOK'
    BY <1>8 DEF VerifyLogin
<1>9. ASSUME NEW c \in Calls, Fail(c) PROVE TypeOK'
    BY <1>9 DEF Fail
<1>10. ASSUME NEW c \in Calls, Drop(c) PROVE TypeOK'
    BY <1>10, <1>b DEF Drop
<1>11. ASSUME UNCHANGED vars PROVE TypeOK'
    BY <1>11 DEF vars
<1> QED
    BY <1>1, <1>2, <1>3, <1>4, <1>5, <1>6, <1>7, <1>8, <1>9, <1>10, <1>11 DEF Next

\* What an UPDATE does to the row, and to what the calls in progress have seen.
LEMMA ApplyEffect ==
    ASSUME IInv, NEW c \in Calls, pc[c] = "write", Apply(c)
    PROVE  /\ \A d \in InProgress :
                 /\ rows_seen[d] \subseteq rows_seen'[d]
                 /\ RowOf(totp_enabled', totp_secret') \in rows_seen'[d]
           /\ \A d \in Calls \ InProgress : rows_seen'[d] = rows_seen[d]
           /\ confirmed' = confirmed
           /\ overwritten => overwritten'
           /\ crossed => crossed'
           /\ Confirming # {} /\ totp_secret' = None => crossed'
           /\ \A d \in Confirming :
                 totp_secret' \notin {None, call[d].code} => overwritten'
           /\ SecretLostOnlyByCrossing'
           /\ UnconfirmedOnlyByOverwrite'
<1> USE RowTypes DEF IInv, TypeOK, SetRow, InProgress, SecretLostOnlyByCrossing,
        UnconfirmedOnlyByOverwrite
<1>1. CASE Kind(c) = "setup" /\ SetupWrite(c)
  <2>1. totp_secret' # None
    BY <1>1 DEF SetupWrite
  <2> QED
    BY <1>1, <2>1 DEF SetupWrite
<1>2. CASE Kind(c) = "confirm" /\ ConfirmWrite(c)
  <2>1. c \in Confirming
    BY <1>2 DEF Confirming
  <2>2. call[c].code \in confirmed
    BY <1>2 DEF Checked
  <2>3. totp_secret = None => crossed
    BY <2>1 DEF Pending
  <2>4. totp_secret \notin {None, call[c].code} => overwritten
    BY <2>1 DEF Pending
  <2> QED
    BY <1>2, <2>2, <2>3, <2>4 DEF ConfirmWrite, Pending
<1>3. CASE Kind(c) = "disable" /\ DisableWrite(c)
    BY <1>3 DEF DisableWrite
<1> QED
    BY <1>1, <1>2, <1>3 DEF Apply

\* The rest of the invariant after a call's UPDATE, whether or not the caller is
\* still there to be answered.
LEMMA StepAfterApply ==
    ASSUME IInv, NEW c \in Calls, pc[c] = "write", Apply(c),
           NEW stage \in {"done", "dropped"}, Goto(c, stage),
           UNCHANGED <<call, seen>>,
           \/ stage = "dropped" /\ UNCHANGED answer
           \/ stage = "done" /\ \E what \in {Success(c), "error"} :
                                   answer' = [answer EXCEPT ![c] = what]
    PROVE  /\ Stages' /\ Checked' /\ Watching' /\ Pending'
           /\ SecretLostOnlyByCrossing' /\ UnconfirmedOnlyByOverwrite'
           /\ AnswersMatchSomeMoment'
<1>0. /\ \A d \in Calls \ {c} : pc'[d] = pc[d] /\ answer'[d] = answer[d]
      /\ pc'[c] = stage
      /\ c \in InProgress /\ InProgress' = InProgress \ {c}
      /\ Confirming' = Confirming \ {c}
      /\ answer'[c] \in {"none", Success(c), "error"}
      /\ stage = "dropped" => answer'[c] = "none"
    BY DEF IInv, TypeOK, Goto, InProgress, Confirming, Kind, Stages
<1>e. /\ \A d \in InProgress :
            /\ rows_seen[d] \subseteq rows_seen'[d]
            /\ RowOf(totp_enabled', totp_secret') \in rows_seen'[d]
      /\ \A d \in Calls \ InProgress : rows_seen'[d] = rows_seen[d]
      /\ confirmed' = confirmed
      /\ overwritten => overwritten'
      /\ crossed => crossed'
      /\ Confirming # {} /\ totp_secret' = None => crossed'
      /\ \A d \in Confirming :
            totp_secret' \notin {None, call[d].code} => overwritten'
      /\ SecretLostOnlyByCrossing'
      /\ UnconfirmedOnlyByOverwrite'
    BY ApplyEffect
<1>1. Stages'
    BY <1>0 DEF IInv, Stages, Kind
<1>2. Checked'
    BY <1>0, <1>e DEF IInv, Checked, Kind, InProgress
<1>3. Watching'
    BY <1>0, <1>e DEF IInv, Watching, InProgress
<1>4. Pending'
    BY <1>0, <1>e DEF IInv, Pending
<1>5. ASSUME NEW d \in Calls, pc'[d] = "done"
      PROVE  \E r \in rows_seen'[d] : Justifies(r, d)'
  <2>1. CASE d = c
    <3>1. Kind(c) \in {"setup", "confirm", "disable"}
      BY DEF IInv, Stages
    <3>2. answer'[c] = "enabled" =>
              \E r \in rows_seen'[c] : r.secret = call[c].code
      BY <1>0, <1>e, <3>1 DEF IInv, Checked, Success
    <3>3. answer'[c] = "disabled" => RowOf(TRUE, call[c].code) \in rows_seen'[c]
      BY <1>0, <1>e, <3>1 DEF IInv, Checked, Success
    <3>4. answer'[c] \in {"none", "uri", "enabled", "disabled", "error"}
      BY <1>0, <3>1 DEF Success
    <3>5. \E r : r \in rows_seen'[c]
      BY <1>0, <1>e
    <3> QED
      BY <2>1, <3>2, <3>3, <3>4, <3>5 DEF Justifies, Kind
  <2>2. CASE d # c
    <3>1. pc[d] = "done" /\ answer'[d] = answer[d] /\ rows_seen'[d] = rows_seen[d]
      BY <1>0, <1>5, <1>e, <2>2 DEF InProgress
    <3> QED
      BY <3>1 DEF IInv, AnswersMatchSomeMoment, Justifies, Kind
  <2> QED
    BY <2>1, <2>2
<1>6. AnswersMatchSomeMoment'
    BY <1>5 DEF AnswersMatchSomeMoment
<1> QED
    BY <1>1, <1>2, <1>3, <1>4, <1>6, <1>e

\* Every step preserves the invariant.
LEMMA StepIInv == IInv /\ [Next]_vars => IInv'
<1> SUFFICES ASSUME IInv, [Next]_vars PROVE IInv'
    OBVIOUS
<1> DEFINE Rest == /\ Stages /\ Checked /\ Watching /\ Pending
                   /\ SecretLostOnlyByCrossing /\ UnconfirmedOnlyByOverwrite
                   /\ AnswersMatchSomeMoment
<1>0. TypeOK'
    BY StepType DEF IInv
<1>1. ASSUME NEW c \in Calls, Arrive(c) PROVE Rest'
  <2> USE <1>0, <1>1 DEF IInv, TypeOK, Goto, Finish, KeepRow, row, Kind, Arrive
  <2>1. Stages'
      BY DEF Stages
  <2>2. Checked'
      BY RowTypes DEF Checked, Stages, Watching, InProgress, RowOf
  <2>3. Watching'
      BY DEF Watching, InProgress, RowOf
  <2>4. Pending' /\ SecretLostOnlyByCrossing' /\ UnconfirmedOnlyByOverwrite'
      BY RowTypes DEF Pending, Confirming, Stages, SecretLostOnlyByCrossing,
         UnconfirmedOnlyByOverwrite
  <2>5. AnswersMatchSomeMoment'
      BY DEF AnswersMatchSomeMoment, Justifies, Stages, Watching, InProgress,
          RowOf
  <2> QED
      BY <2>1, <2>2, <2>3, <2>4, <2>5
<1>2. ASSUME NEW c \in Calls, SetupRead(c) PROVE Rest'
  <2> USE <1>0, <1>2 DEF IInv, TypeOK, Goto, Finish, KeepRow, row, Kind, SetupRead
  <2>1. Stages'
      BY DEF Stages
  <2>2. Checked'
      BY RowTypes DEF Checked, Stages, Watching, InProgress, RowOf
  <2>3. Watching'
      BY DEF Watching, InProgress, RowOf
  <2>4. Pending' /\ SecretLostOnlyByCrossing' /\ UnconfirmedOnlyByOverwrite'
      BY RowTypes DEF Pending, Confirming, Stages, SecretLostOnlyByCrossing,
         UnconfirmedOnlyByOverwrite
  <2>5. AnswersMatchSomeMoment'
      BY DEF AnswersMatchSomeMoment, Justifies, Stages, Watching, InProgress,
          RowOf
  <2> QED
      BY <2>1, <2>2, <2>3, <2>4, <2>5
<1>3. ASSUME NEW c \in Calls, ConfirmRead(c) PROVE Rest'
  <2> USE <1>0, <1>3 DEF IInv, TypeOK, Goto, Finish, KeepRow, row, Kind,
      ConfirmRead
  <2>1. Stages'
      BY DEF Stages
  <2>2. Checked'
    <3>1. /\ call' = call /\ rows_seen' = rows_seen
          /\ confirmed \subseteq confirmed'
          /\ \A d \in Calls : d # c => pc'[d] = pc[d]
      OBVIOUS
    <3>2. ASSUME pc'[c] = "write"
          PROVE  /\ call[c].code \in Secrets /\ call[c].code \in confirmed'
                 /\ \E r \in rows_seen[c] : r.secret = call[c].code
      <4>1. totp_secret # None /\ call[c].code = totp_secret
        BY <3>2
      <4>2. call[c].code \in Secrets /\ call[c].code \in confirmed'
        BY <4>1, RowTypes
      <4>3. RowOf(totp_enabled, totp_secret) \in rows_seen[c]
        BY DEF Watching, InProgress
      <4>4. RowOf(totp_enabled, totp_secret).secret = call[c].code
        BY <4>1 DEF RowOf
      <4> QED
        BY <4>2, <4>3, <4>4
    <3>3. Checked /\ call[c].kind = "confirm"
      OBVIOUS
    <3> HIDE <1>0, <1>3 DEF IInv, TypeOK, Goto, Finish, KeepRow, row, ConfirmRead
    <3> QED
      BY <3>1, <3>2, <3>3 DEF Checked
  <2>3. Watching'
      BY DEF Watching, InProgress, RowOf
  <2>4. Pending' /\ SecretLostOnlyByCrossing' /\ UnconfirmedOnlyByOverwrite'
      BY RowTypes DEF Pending, Confirming, Stages, SecretLostOnlyByCrossing,
         UnconfirmedOnlyByOverwrite
  <2>5. AnswersMatchSomeMoment'
      BY DEF AnswersMatchSomeMoment, Justifies, Stages, Watching, InProgress,
          RowOf
  <2> QED
      BY <2>1, <2>2, <2>3, <2>4, <2>5
<1>4. ASSUME NEW c \in Calls, DisableRead(c) PROVE Rest'
  <2> USE <1>0, <1>4 DEF IInv, TypeOK, Goto, Finish, KeepRow, row, Kind,
      DisableRead
  <2>1. Stages'
      BY DEF Stages
  <2>2. Checked'
    <3>1. /\ call' = call /\ rows_seen' = rows_seen /\ confirmed' = confirmed
          /\ \A d \in Calls : d # c => pc'[d] = pc[d]
      OBVIOUS
    <3>2. ASSUME pc'[c] = "write"
          PROVE  /\ call[c].code \in Secrets
                 /\ RowOf(TRUE, call[c].code) \in rows_seen[c]
      <4>1. totp_enabled /\ totp_secret # None /\ call[c].code = totp_secret
        BY <3>2
      <4>2. totp_enabled = TRUE /\ call[c].code \in Secrets
        BY <4>1, RowTypes
      <4>3. RowOf(totp_enabled, totp_secret) \in rows_seen[c]
        BY DEF Watching, InProgress
      <4> QED
        BY <4>1, <4>2, <4>3
    <3>3. Checked /\ call[c].kind = "disable"
      OBVIOUS
    <3> HIDE <1>0, <1>4 DEF IInv, TypeOK, Goto, Finish, KeepRow, row, DisableRead
    <3> QED
      BY <3>1, <3>2, <3>3 DEF Checked
  <2>3. Watching'
      BY DEF Watching, InProgress, RowOf
  <2>4. Pending' /\ SecretLostOnlyByCrossing' /\ UnconfirmedOnlyByOverwrite'
      BY RowTypes DEF Pending, Confirming, Stages, SecretLostOnlyByCrossing,
         UnconfirmedOnlyByOverwrite
  <2>5. AnswersMatchSomeMoment'
      BY DEF AnswersMatchSomeMoment, Justifies, Stages, Watching, InProgress,
          RowOf
  <2> QED
      BY <2>1, <2>2, <2>3, <2>4, <2>5
<1>5. ASSUME NEW c \in Calls, LoginRead(c) PROVE Rest'
  <2> USE <1>0, <1>5 DEF IInv, TypeOK, Goto, Finish, KeepRow, row, Kind, LoginRead
  <2>1. Stages'
      BY DEF Stages
  <2>2. Checked'
      BY RowTypes DEF Checked, Stages, Watching, InProgress, RowOf
  <2>3. Watching'
      BY DEF Watching, InProgress, RowOf
  <2>4. Pending' /\ SecretLostOnlyByCrossing' /\ UnconfirmedOnlyByOverwrite'
      BY RowTypes DEF Pending, Confirming, Stages, SecretLostOnlyByCrossing,
         UnconfirmedOnlyByOverwrite
  <2>5. AnswersMatchSomeMoment'
      BY DEF AnswersMatchSomeMoment, Justifies, Stages, Watching, InProgress,
          RowOf
  <2> QED
      BY <2>1, <2>2, <2>3, <2>4, <2>5
<1>6. ASSUME NEW c \in Calls, LoginFinish(c) PROVE Rest'
  <2> USE <1>0, <1>6 DEF IInv, TypeOK, Goto, Finish, KeepRow, row, Kind,
      LoginFinish
  <2>1. Stages'
      BY DEF Stages
  <2>2. Checked'
      BY RowTypes DEF Checked, Stages, Watching, InProgress, RowOf
  <2>3. Watching'
      BY DEF Watching, InProgress, RowOf
  <2>4. Pending' /\ SecretLostOnlyByCrossing' /\ UnconfirmedOnlyByOverwrite'
      BY RowTypes DEF Pending, Confirming, Stages, SecretLostOnlyByCrossing,
         UnconfirmedOnlyByOverwrite
  <2>5. AnswersMatchSomeMoment'
      BY DEF AnswersMatchSomeMoment, Justifies, Stages, Watching, InProgress,
          RowOf
  <2> QED
      BY <2>1, <2>2, <2>3, <2>4, <2>5
<1>7. ASSUME NEW c \in Calls, VerifyLogin(c) PROVE Rest'
  <2> USE <1>0, <1>7 DEF IInv, TypeOK, Goto, Finish, KeepRow, row, Kind,
      VerifyLogin
  <2>1. Stages'
      BY DEF Stages
  <2>2. Checked'
      BY RowTypes DEF Checked, Stages, Watching, InProgress, RowOf
  <2>3. Watching'
      BY DEF Watching, InProgress, RowOf
  <2>4. Pending' /\ SecretLostOnlyByCrossing' /\ UnconfirmedOnlyByOverwrite'
      BY RowTypes DEF Pending, Confirming, Stages, SecretLostOnlyByCrossing,
         UnconfirmedOnlyByOverwrite
  <2>5. AnswersMatchSomeMoment'
      BY DEF AnswersMatchSomeMoment, Justifies, Stages, Watching, InProgress,
          RowOf
  <2> QED
      BY <2>1, <2>2, <2>3, <2>4, <2>5
<1>8. ASSUME NEW c \in Calls, Fail(c) PROVE Rest'
  <2> USE <1>0, <1>8 DEF IInv, TypeOK, Goto, Finish, KeepRow, row, Kind, Fail
  <2>1. Stages'
      BY DEF Stages
  <2>2. Checked'
      BY RowTypes DEF Checked, Stages, Watching, InProgress, RowOf
  <2>3. Watching'
      BY DEF Watching, InProgress, RowOf
  <2>4. Pending' /\ SecretLostOnlyByCrossing' /\ UnconfirmedOnlyByOverwrite'
      BY RowTypes DEF Pending, Confirming, Stages, SecretLostOnlyByCrossing,
         UnconfirmedOnlyByOverwrite
  <2>5. AnswersMatchSomeMoment'
      BY DEF AnswersMatchSomeMoment, Justifies, Stages, Watching, InProgress,
          RowOf
  <2> QED
      BY <2>1, <2>2, <2>3, <2>4, <2>5
<1>9. ASSUME NEW c \in Calls, Write(c) PROVE Rest'
    BY <1>9, StepAfterApply DEF Write, Finish
<1>10. ASSUME NEW c \in Calls, Drop(c) PROVE Rest'
  <2>1. CASE pc[c] = "write" /\ Apply(c)
      BY <1>10, <2>1, StepAfterApply DEF Drop
  <2>2. CASE KeepRow /\ UNCHANGED <<minted, confirmed, overwritten, crossed, off>>
    <3> USE <1>10, <2>2 DEF IInv, TypeOK, Drop, Goto, KeepRow, row, Kind,
        InProgress
    <3>1. Stages' /\ Checked' /\ Watching'
      BY DEF Stages, Checked, Watching
    <3>2. Pending' /\ SecretLostOnlyByCrossing' /\ UnconfirmedOnlyByOverwrite'
      BY DEF Pending, Confirming, SecretLostOnlyByCrossing,
          UnconfirmedOnlyByOverwrite
    <3>3. AnswersMatchSomeMoment'
      BY DEF AnswersMatchSomeMoment, Justifies
    <3> QED
      BY <3>1, <3>2, <3>3
  <2> QED
      BY <1>10, <2>1, <2>2 DEF Drop
<1>11. ASSUME UNCHANGED vars PROVE Rest'
    BY <1>11 DEF vars, row, history, IInv, Stages, Checked, Watching, Pending,
       SecretLostOnlyByCrossing, UnconfirmedOnlyByOverwrite, Confirming,
           InProgress,
       AnswersMatchSomeMoment, Justifies, Kind
<1> HIDE DEF Rest
<1>12. Rest'
    BY <1>1, <1>2, <1>3, <1>4, <1>5, <1>6, <1>7, <1>8, <1>9, <1>10, <1>11 DEF Next
<1> QED
    BY <1>0, <1>12 DEF IInv, Rest

\* IInv holds in every reachable state.
THEOREM Invariance == Spec => []IInv
BY InitIInv, StepIInv, PTL DEF Spec

\* Every variable keeps its type.
THEOREM TypeCorrect == Spec => []TypeOK
<1>1. IInv => TypeOK
    BY DEF IInv
<1> QED
    BY Invariance, <1>1, PTL

\* No success of any operation rests on a row the account did not have during the
\* call, however many calls overlap (services/auth.rs:176-408).
THEOREM AnswersCorrect == Spec => []AnswersMatchSomeMoment
<1>1. IInv => AnswersMatchSomeMoment
    BY DEF IInv
<1> QED
    BY Invariance, <1>1, PTL

\* Only a disable applied inside a confirm leaves 2FA on without a secret.
THEOREM SecretCorrect == Spec => []SecretLostOnlyByCrossing
<1>1. IInv => SecretLostOnlyByCrossing
    BY DEF IInv
<1> QED
    BY Invariance, <1>1, PTL

\* Only a setup over a secret in use leaves 2FA on with an unverified secret.
THEOREM ConfirmedCorrect == Spec => []UnconfirmedOnlyByOverwrite
<1>1. IInv => UnconfirmedOnlyByOverwrite
    BY DEF IInv
<1> QED
    BY Invariance, <1>1, PTL
=============================================================================
