----------------------- MODULE ClientCredentialsProofs -----------------------
(***************************************************************************)
(* What TLAPS proves of ClientCredentials, for any number of calls, any    *)
(* lifetimes and any length of time.                                       *)
(***************************************************************************)
EXTENDS ClientCredentials, TLAPS

-----------------------------------------------------------------------------
(* The inductive invariant *)

\* The secrets that are or were in force.
Spent == retired \cup {client_secret}

\* Which calls wait where, and who has been let in.
Waiting ==
    \A c \in Calls :
        /\ pc[c] = "new" => ~ admits[c] /\ earlier[c] = {}
        /\ pc[c] = "read" => Kind(c) \in {"token", "login", "verify", "me"}
                             /\ ~ admits[c]
        /\ pc[c] = "issue" => admits[c]
        /\ pc[c] = "write" => Kind(c) \in {"rotate", "regenerate"}
        /\ pc[c] # "done" => answer[c] = "none"
        /\ admits[c] => Kind(c) \in {"token", "login", "verify"}

\* Who was answered what.
AnsweredByKind ==
    \A c \in Calls :
        /\ answer[c] \in {"token", "challenge"} => admits[c]
        /\ answer[c] = "challenge" => Kind(c) = "login"
        /\ answer[c] = "rotated" => Kind(c) = "rotate"
        /\ answer[c] = "regenerated" => Kind(c) = "regenerate"

\* A secret is set by one statement of one call, which then is over.
SetOnce ==
    /\ client_secret \notin retired
    /\ \A c \in Spent \cap Calls : pc[c] = "done"

EarlierDone ==
    \A c \in Calls : \A d \in earlier[c] : pc[d] = "done"

\* A call that was let in with a secret has not shown one rotated out before.
TokenFresh ==
    \A c, d \in Calls :
        (/\ admits[c] /\ Kind(c) = "token"
         /\ d \in earlier[c] /\ answer[d] = "rotated")
        => Shows(c) \notin Before(d)

\* is_active is read after a call arrives and never set again.
ActiveOnArrival ==
    /\ late # {} => ~ is_active
    /\ \A c \in Calls : admits[c] => c \notin late

\* A verify continues a login that was let in, and issues no older token.
ContinuesLogin ==
    \A c \in Calls :
        /\ iat[c] <= clock
        /\ pc[c] # "new" /\ Kind(c) = "verify" =>
              /\ Shows(c) \in Calls
              /\ answer[Shows(c)] = "challenge"
              /\ answer[c] = "token" => iat[c] >= iat[Shows(c)]

IInv ==
    /\ TypeOK /\ Waiting /\ AnsweredByKind /\ SetOnce /\ EarlierDone
    /\ AnnouncedSecretsHold /\ TokenFresh /\ PortalShowsCurrentSalt
    /\ ActiveOnArrival /\ ContinuesLogin

\* The initial states satisfy the invariant.
LEMMA InitIInv == Init => IInv
<1> SUFFICES ASSUME Init PROVE IInv
    OBVIOUS
<1> USE CredentialsAssumption DEF Init
<1>1. TypeOK
    BY DEF TypeOK, Secrets, Shown, Stages, Call, NoCall, Kinds, Answers
<1>2. Waiting /\ AnsweredByKind /\ EarlierDone /\ TokenFresh
    BY DEF Waiting, AnsweredByKind, EarlierDone, TokenFresh
<1>3. SetOnce /\ ActiveOnArrival /\ ContinuesLogin
    BY DEF SetOnce, Spent, ActiveOnArrival, ContinuesLogin
<1>4. AnnouncedSecretsHold /\ PortalShowsCurrentSalt
    BY DEF AnnouncedSecretsHold, PortalShowsCurrentSalt
<1> QED
    BY <1>1, <1>2, <1>3, <1>4 DEF IInv

\* Every step keeps every variable in its type.
LEMMA StepType == TypeOK /\ [Next]_vars => TypeOK'
<1> SUFFICES ASSUME TypeOK, [Next]_vars PROVE TypeOK'
    OBVIOUS
<1> USE CredentialsAssumption DEF TypeOK, row, Goto, Finish, Stages, Answers
<1>1. ASSUME NEW c \in Calls, Arrive(c) PROVE TypeOK'
  <2> PICK k \in Kinds : \E s \in Presentable(k) :
          /\ call' = [call EXCEPT ![c] = [kind |-> k, shows |-> s]]
          /\ Goto(c, IF k \in {"rotate", "regenerate"} THEN "write" ELSE "read")
    BY <1>1 DEF Arrive
  <2> PICK s \in Presentable(k) :
          call' = [call EXCEPT ![c] = [kind |-> k, shows |-> s]]
    OBVIOUS
  <2>1. [kind |-> k, shows |-> s] \in Call
    BY DEF Presentable, Answered, Call, Shown, Secrets
  <2> QED
    BY <1>1, <2>1 DEF Arrive
<1>2. ASSUME NEW c \in Calls, Write(c) PROVE TypeOK'
    BY <1>2 DEF Write, Apply, RotateWrite, RegenerateWrite, Secrets
<1>3. ASSUME NEW c \in Calls, TokenRead(c) \/ LoginRead(c) PROVE TypeOK'
  <2> PICK ok \in BOOLEAN : Read(c, ok)
    BY <1>3 DEF TokenRead, LoginRead
  <2> QED
    BY DEF Read, history
<1>4. ASSUME NEW c \in Calls, Fail(c) \/ Issue(c) \/ GetMe(c) PROVE TypeOK'
    BY <1>4 DEF Fail, Issue, GetMe, history, Shown
<1>5. ASSUME Deactivate \/ Tick PROVE TypeOK'
  <2>1. CASE Deactivate
    BY <2>1 DEF Deactivate, history
  <2>2. CASE Tick
    <3>1. MaxTime \in Nat
      BY CredentialsAssumption
    <3>2. clock' \in 0..MaxTime
      BY <2>2, <3>1 DEF Tick
    <3> QED
      BY <2>2, <3>2 DEF Tick, history
  <2> QED
    BY <1>5, <2>1, <2>2
<1>6. ASSUME UNCHANGED vars PROVE TypeOK'
    BY <1>6 DEF vars, history
<1> QED
    BY <1>1, <1>2, <1>3, <1>4, <1>5, <1>6 DEF Next

-----------------------------------------------------------------------------
(* The effect of a step *)

\* The UPDATE of a rotation, or of a regeneration, is applied.
Rotates(c) ==
    /\ pc[c] = "write" /\ pc'[c] = "done" /\ Kind(c) = "rotate"
    /\ client_secret' = c /\ retired' = Spent
    /\ UNCHANGED api_salt

Regenerates(c) ==
    /\ pc[c] = "write" /\ pc'[c] = "done" /\ Kind(c) = "regenerate"
    /\ api_salt' = c
    /\ UNCHANGED <<client_secret, retired>>

\* The row that c reads lets it in.
LetsIn(c) ==
    /\ pc[c] = "read" /\ pc'[c] # "read"
    /\ Kind(c) \in {"token", "login", "verify"}
    /\ is_active /\ late' = late
    /\ Kind(c) = "token" => Shows(c) = client_secret
    /\ UNCHANGED <<client_secret, retired>>

\* The row and the clock.
RowEffect ==
    /\ \/ UNCHANGED <<client_secret, api_salt, retired>>
       \/ \E c \in Calls : Rotates(c) \/ Regenerates(c)
    /\ is_active' => is_active
    /\ clock <= clock'
    /\ late \subseteq late'
    /\ \A c \in late' : c \in late \/ (pc[c] = "new" /\ ~ is_active)

\* One call moves.  It keeps what it came with, and is let in by a row, once.
CallEffect ==
    \A c \in Calls :
        /\ pc[c] # "new" =>
              pc'[c] # "new" /\ call'[c] = call[c] /\ earlier'[c] = earlier[c]
        /\ pc[c] = "done" =>
              /\ pc'[c] = "done"
              /\ answer'[c] = answer[c] /\ iat'[c] = iat[c]
              /\ admits'[c] = admits[c] /\ shown'[c] = shown[c]
        /\ \A d \in earlier'[c] : d \in earlier[c] \/ pc[d] = "done"
        /\ pc[c] = "new" => admits'[c] = FALSE
        /\ admits[c] => admits'[c]
        /\ admits'[c] => admits[c] \/ LetsIn(c)
        /\ \A d \in Calls : pc'[c] # pc[c] /\ pc'[d] # pc[d] => c = d

\* Who is answered what, and when.
AnswerEffect ==
    \A c \in Calls :
        /\ answer'[c] = "rotated" => answer[c] = "rotated" \/ Rotates(c)
        /\ answer'[c] = "regenerated" => answer[c] = "regenerated" \/ Regenerates(c)
        /\ answer'[c] = "me" =>
              \/ answer[c] = "me" /\ shown'[c] = shown[c]
              \/ pc[c] = "read" /\ shown'[c] = api_salt /\ UNCHANGED api_salt
        /\ iat'[c] = iat[c] \/ (pc[c] = "issue" /\ iat'[c] = clock)
        /\ answer'[c] = "token" =>
              answer[c] = "token" \/ (pc[c] = "issue" /\ iat'[c] = clock)
        /\ pc[c] = "new" /\ pc'[c] # "new" /\ call'[c].kind = "verify" =>
              /\ call'[c].shows \in Calls
              /\ answer[call'[c].shows] = "challenge"

Effect == RowEffect /\ CallEffect /\ AnswerEffect

\* What an arrival has been asked for before it leads anywhere.
LEMMA ArriveOpens ==
    ASSUME TypeOK, NEW c \in Calls, Arrive(c)
    PROVE  /\ pc[c] = "new" /\ call'[c].kind \in Kinds
           /\ Opens(call'[c].kind, call'[c].shows)
           /\ pc' = [pc EXCEPT ![c] = IF call'[c].kind \in {"rotate", "regenerate"}
                                      THEN "write" ELSE "read"]
           /\ call'[c].kind = "verify" =>
                 /\ call'[c].shows \in Calls
                 /\ answer[call'[c].shows] = "challenge"
<1> PICK k \in Kinds : \E s \in Presentable(k) :
        /\ Opens(k, s)
        /\ call' = [call EXCEPT ![c] = [kind |-> k, shows |-> s]]
        /\ Goto(c, IF k \in {"rotate", "regenerate"} THEN "write" ELSE "read")
    BY DEF Arrive
<1> PICK s \in Presentable(k) :
        /\ Opens(k, s)
        /\ call' = [call EXCEPT ![c] = [kind |-> k, shows |-> s]]
        /\ Goto(c, IF k \in {"rotate", "regenerate"} THEN "write" ELSE "read")
    OBVIOUS
<1>1. call'[c].kind = k /\ call'[c].shows = s
    BY DEF TypeOK
<1>2. k = "verify" => s \in Answered("challenge")
    BY DEF Opens, Challenge
<1> QED
    BY <1>1, <1>2 DEF Goto, Answered, Arrive

\* What any step may do, said without naming the action that does it.
LEMMA StepEffect == TypeOK /\ Waiting /\ [Next]_vars => Effect
<1> SUFFICES ASSUME TypeOK, Waiting, [Next]_vars PROVE Effect
    OBVIOUS
<1>0. TypeOK'
    BY StepType
<1> USE <1>0, CredentialsAssumption
    DEF TypeOK, Waiting, Effect, RowEffect, CallEffect, AnswerEffect, row, Goto,
        Finish
<1>1. ASSUME NEW c \in Calls, Arrive(c) PROVE Effect
  <2>1. RowEffect
    BY <1>1 DEF Arrive
  <2>2. CallEffect
    BY <1>1, ArriveOpens DEF Arrive, Succeeded
  <2>3. AnswerEffect
    <3>1. /\ pc' = [pc EXCEPT ![c] = pc'[c]]
          /\ UNCHANGED <<answer, iat, shown>>
      BY <1>1, ArriveOpens DEF Arrive
    <3>2. call'[c].kind = "verify" =>
              call'[c].shows \in Calls /\ answer[call'[c].shows] = "challenge"
      BY <1>1, ArriveOpens
    <3> QED
      BY <3>1, <3>2
  <2> QED
    BY <2>1, <2>2, <2>3
<1>2. ASSUME NEW c \in Calls, Fail(c) PROVE Effect
    BY <1>2 DEF Fail, history
<1>3. ASSUME NEW c \in Calls, TokenRead(c) PROVE Effect
    BY <1>3 DEF TokenRead, Read, LetsIn, history
<1>4. ASSUME NEW c \in Calls, LoginRead(c) PROVE Effect
    BY <1>4 DEF LoginRead, Read, LetsIn, history
<1>5. ASSUME NEW c \in Calls, Issue(c) PROVE Effect
    BY <1>5 DEF Issue, history
<1>6. ASSUME NEW c \in Calls, Write(c) PROVE Effect
    BY <1>6 DEF Write, Apply, RotateWrite, RegenerateWrite, Rotates, Regenerates,
       Spent
<1>7. ASSUME NEW c \in Calls, GetMe(c) PROVE Effect
    BY <1>7 DEF GetMe
<1>8. ASSUME Deactivate \/ Tick PROVE Effect
    BY <1>8 DEF Deactivate, Tick, history
<1>9. ASSUME UNCHANGED vars PROVE Effect
    BY <1>9 DEF vars, history
<1> HIDE DEF Effect
<1> QED
    BY <1>1, <1>2, <1>3, <1>4, <1>5, <1>6, <1>7, <1>8, <1>9 DEF Next

-----------------------------------------------------------------------------
(* The invariant is kept, conjunct by conjunct *)

\* Calls wait and are answered according to their kind.
LEMMA StepWaiting ==
    TypeOK /\ Waiting /\ AnsweredByKind /\ [Next]_vars
        => Waiting' /\ AnsweredByKind'
<1> SUFFICES ASSUME TypeOK, Waiting, AnsweredByKind, [Next]_vars
             PROVE  Waiting' /\ AnsweredByKind'
    OBVIOUS
<1>0. TypeOK'
    BY StepType
<1> USE <1>0 DEF TypeOK, Waiting, AnsweredByKind, Goto, Finish, Kind
<1>1. ASSUME NEW c \in Calls, Arrive(c) PROVE Waiting' /\ AnsweredByKind'
  <2>1. /\ pc[c] = "new" /\ call'[c].kind \in Kinds
        /\ pc' = [pc EXCEPT ![c] = IF call'[c].kind \in {"rotate", "regenerate"}
                                  THEN "write" ELSE "read"]
    BY <1>1, ArriveOpens
  <2>2. \A d \in Calls \ {c} : call'[d] = call[d] /\ earlier'[d] = earlier[d]
    BY <1>1 DEF Arrive
  <2>3. UNCHANGED <<admits, answer>>
    BY <1>1 DEF Arrive
  <2> QED
    BY <2>1, <2>2, <2>3 DEF Kinds
<1>2. ASSUME NEW c \in Calls, Fail(c) PROVE Waiting' /\ AnsweredByKind'
    BY <1>2 DEF Fail, history
<1>3. ASSUME NEW c \in Calls, TokenRead(c) \/ LoginRead(c)
      PROVE  Waiting' /\ AnsweredByKind'
  <2> PICK ok \in BOOLEAN : Read(c, ok)
    BY <1>3 DEF TokenRead, LoginRead
  <2>1. Kind(c) \in {"token", "login", "verify"}
    BY <1>3 DEF TokenRead, LoginRead
  <2> QED
    BY <2>1 DEF Read, history
<1>4. ASSUME NEW c \in Calls, Issue(c) PROVE Waiting' /\ AnsweredByKind'
    BY <1>4 DEF Issue, history
<1>5. ASSUME NEW c \in Calls, Write(c) PROVE Waiting' /\ AnsweredByKind'
    BY <1>5 DEF Write
<1>6. ASSUME NEW c \in Calls, GetMe(c) PROVE Waiting' /\ AnsweredByKind'
    BY <1>6 DEF GetMe
<1>7. ASSUME Deactivate \/ Tick PROVE Waiting' /\ AnsweredByKind'
    BY <1>7 DEF Deactivate, Tick, history
<1>8. ASSUME UNCHANGED vars PROVE Waiting' /\ AnsweredByKind'
    BY <1>8 DEF vars, history
<1> QED
    BY <1>1, <1>2, <1>3, <1>4, <1>5, <1>6, <1>7, <1>8 DEF Next

\* A secret is set once, and not by a call that was over before another came.
LEMMA StepSetOnce ==
    ASSUME IInv, Effect, TypeOK'
    PROVE  SetOnce' /\ EarlierDone' /\ AnnouncedSecretsHold'
<1> USE DEF IInv
<1>1. SetOnce'
  <2>1. ASSUME NEW c \in Calls, Rotates(c) PROVE SetOnce'
    <3>1. c \notin Spent /\ Spent' = Spent \cup {c}
      BY <2>1 DEF Rotates, Spent, SetOnce
    <3> QED
      BY <2>1, <3>1 DEF Rotates, SetOnce, Effect, CallEffect
  <2>2. ASSUME UNCHANGED <<client_secret, retired>> PROVE SetOnce'
    BY <2>2 DEF SetOnce, Spent, Effect, CallEffect
  <2> QED
    BY <2>1, <2>2 DEF Effect, RowEffect, Regenerates
<1>2. EarlierDone'
    BY DEF EarlierDone, Effect, CallEffect, TypeOK
<1>3. AnnouncedSecretsHold'
  <2>1. \A c \in Calls : pc[c] # "new" => Before(c)' = Before(c)
    BY DEF Before, Effect, CallEffect
  <2>2. \A c, d \in Calls : pc[d] = "write" => d \notin Before(c)
    BY CredentialsAssumption DEF Before, EarlierDone
  <2>3. ASSUME NEW c \in Calls, answer'[c] = "rotated"
        PROVE  client_secret' \notin Before(c)'
    <3>1. CASE answer[c] = "rotated"
      <4>1. client_secret \notin Before(c) /\ Before(c)' = Before(c)
        BY <2>1, <3>1 DEF AnnouncedSecretsHold, Waiting
      <4> QED
        BY <2>2, <4>1 DEF Effect, RowEffect, Rotates, Regenerates
    <3>2. CASE Rotates(c)
      BY <2>1, <2>2, <3>2 DEF Rotates
    <3> QED
      BY <2>3, <3>1, <3>2 DEF Effect, AnswerEffect
  <2>4. ASSUME NEW c \in Calls, answer'[c] = "regenerated"
        PROVE  api_salt' \notin Before(c)'
    <3>1. CASE answer[c] = "regenerated"
      <4>1. api_salt \notin Before(c) /\ Before(c)' = Before(c)
        BY <2>1, <3>1 DEF AnnouncedSecretsHold, Waiting
      <4> QED
        BY <2>2, <4>1 DEF Effect, RowEffect, Rotates, Regenerates
    <3>2. CASE Regenerates(c)
      BY <2>1, <2>2, <3>2 DEF Regenerates
    <3> QED
      BY <2>4, <3>1, <3>2 DEF Effect, AnswerEffect
  <2> QED
    BY <2>3, <2>4 DEF AnnouncedSecretsHold
<1> QED
    BY <1>1, <1>2, <1>3

\* What a call earlier than another was answered, it keeps.
LEMMA EarlierKept ==
    ASSUME IInv, Effect, NEW c \in Calls, pc[c] # "new", NEW d \in earlier'[c]
    PROVE  /\ d \in Calls /\ d \in earlier[c] /\ pc[d] = "done"
           /\ answer'[d] = answer[d] /\ Before(d)' = Before(d)
BY DEF IInv, TypeOK, EarlierDone, Effect, CallEffect, Before

\* What is shown, to the service or by it, is what the row holds at that moment.
LEMMA StepShown ==
    ASSUME IInv, Effect, TypeOK'
    PROVE  TokenFresh' /\ PortalShowsCurrentSalt'
<1> USE DEF IInv
<1>1. TokenFresh'
  <2> SUFFICES ASSUME NEW c \in Calls, NEW d \in Calls, admits'[c],
                      Kind(c)' = "token", d \in earlier'[c], answer'[d] = "rotated"
               PROVE  Shows(c)' \notin Before(d)'
    BY DEF TokenFresh
  <2>1. pc[c] # "new"
    BY DEF Effect, CallEffect
  <2>2. Kind(c) = "token" /\ Shows(c)' = Shows(c)
    BY <2>1 DEF Effect, CallEffect, Kind, Shows
  <2>3. d \in earlier[c] /\ answer[d] = "rotated" /\ Before(d)' = Before(d)
    BY <2>1, EarlierKept
  <2>4. CASE admits[c]
    BY <2>2, <2>3, <2>4 DEF TokenFresh
  <2>5. CASE LetsIn(c)
    BY <2>2, <2>3, <2>5 DEF LetsIn, AnnouncedSecretsHold
  <2> QED
    BY <2>4, <2>5 DEF Effect, CallEffect
<1>2. PortalShowsCurrentSalt'
  <2> SUFFICES ASSUME NEW c \in Calls, NEW d \in Calls, answer'[c] = "me",
                      d \in earlier'[c], answer'[d] = "regenerated"
               PROVE  shown'[c] \notin Before(d)'
    BY DEF PortalShowsCurrentSalt
  <2>1. pc[c] # "new"
    BY DEF Effect, AnswerEffect, Waiting
  <2>2. d \in earlier[c] /\ answer[d] = "regenerated" /\ Before(d)' = Before(d)
    BY <2>1, EarlierKept
  <2> QED
    BY <2>2 DEF Effect, AnswerEffect, PortalShowsCurrentSalt, AnnouncedSecretsHold
<1> QED
    BY <1>1, <1>2

\* Nobody is let in who came after the account was turned off; a verify issues
\* its token after the login it continues got its challenge.
LEMMA StepActive ==
    ASSUME IInv, Effect, TypeOK'
    PROVE  ActiveOnArrival' /\ ContinuesLogin'
<1> USE DEF IInv
<1>1. ActiveOnArrival'
  <2>1. late' # {} => ~ is_active'
    BY DEF ActiveOnArrival, Effect, RowEffect, TypeOK
  <2>2. ASSUME NEW c \in Calls, admits'[c] PROVE c \notin late'
    <3>1. pc[c] # "new"
      BY <2>2 DEF Effect, CallEffect
    <3>2. CASE admits[c]
      BY <3>1, <3>2 DEF ActiveOnArrival, Effect, RowEffect
    <3>3. CASE LetsIn(c)
      BY <3>3 DEF LetsIn, ActiveOnArrival
    <3> QED
      BY <2>2, <3>2, <3>3 DEF Effect, CallEffect
  <2> QED
    BY <2>1, <2>2 DEF ActiveOnArrival
<1>2. ContinuesLogin'
  <2>1. clock \in Nat /\ clock' \in Nat /\ clock <= clock'
        /\ \A c \in Calls : iat[c] \in Nat /\ iat'[c] \in Nat
    BY CredentialsAssumption DEF TypeOK, Effect, RowEffect
  <2>2. ASSUME NEW c \in Calls PROVE iat'[c] <= clock'
    BY <2>1 DEF ContinuesLogin, Effect, AnswerEffect
  <2>3. ASSUME NEW c \in Calls, pc'[c] # "new", Kind(c)' = "verify"
        PROVE  /\ Shows(c)' \in Calls
               /\ answer'[call'[c].shows] = "challenge"
    <3>1. CASE pc[c] = "new"
      BY <2>3, <3>1 DEF Effect, AnswerEffect, CallEffect, Kind, Shows, Waiting
    <3>2. CASE pc[c] # "new"
      BY <2>3, <3>2 DEF ContinuesLogin, Effect, CallEffect, Kind, Shows, Waiting
    <3> QED
      BY <3>1, <3>2
  <2>4. ASSUME NEW c \in Calls, pc'[c] # "new", Kind(c)' = "verify",
               answer'[c] = "token"
        PROVE  iat'[c] >= iat'[call'[c].shows]
    <3>1. pc[c] # "new" /\ call'[c] = call[c]
      BY <2>4 DEF Effect, AnswerEffect, CallEffect, Waiting
    <3>2. /\ Shows(c) \in Calls /\ answer[Shows(c)] = "challenge"
          /\ answer[c] = "token" => iat[c] >= iat[Shows(c)]
      BY <2>4, <3>1 DEF ContinuesLogin, Kind
    <3>3. iat'[Shows(c)] = iat[Shows(c)] /\ iat[Shows(c)] <= clock
      BY <3>2 DEF ContinuesLogin, Waiting, Effect, CallEffect
    <3>4. CASE answer[c] = "token"
      BY <3>1, <3>2, <3>3, <3>4 DEF Waiting, Effect, CallEffect, Shows
    <3>5. CASE iat'[c] = clock
      BY <2>1, <3>1, <3>2, <3>3, <3>5 DEF Shows
    <3> QED
      BY <2>4, <3>4, <3>5 DEF Effect, AnswerEffect
  <2> QED
    BY <2>2, <2>3, <2>4 DEF ContinuesLogin, Shows
<1> QED
    BY <1>1, <1>2

\* The invariant is inductive.
LEMMA StepIInv == IInv /\ [Next]_vars => IInv'
<1> SUFFICES ASSUME IInv, [Next]_vars PROVE IInv'
    OBVIOUS
<1>1. TypeOK' /\ Effect /\ Waiting' /\ AnsweredByKind'
    BY StepType, StepEffect, StepWaiting DEF IInv
<1> QED
    BY <1>1, StepSetOnce, StepShown, StepActive DEF IInv

-----------------------------------------------------------------------------
(* The theorems *)

\* The invariant holds in every reachable state.
THEOREM Invariance == Spec => []IInv
BY InitIInv, StepIInv, PTL DEF Spec

\* Every variable keeps its type in every reachable state.
THEOREM TypeCorrect == Spec => []TypeOK
<1>1. IInv => TypeOK
    BY DEF IInv
<1> QED
    BY Invariance, <1>1, PTL

\* No token for a secret that an answered rotation replaced before the call
\* arrived (auth.rs:422-445).
THEOREM RotatedCorrect == Spec => []RotatedSecretStaysOut
<1>1. IInv => RotatedSecretStaysOut
    BY DEF IInv, AnsweredByKind, TokenFresh, RotatedSecretStaysOut
<1> QED
    BY Invariance, <1>1, PTL

\* An announced secret or salt is never undone by a call that had succeeded
\* before (auth.rs:422-466).
THEOREM AnnouncedCorrect == Spec => []AnnouncedSecretsHold
<1>1. IInv => AnnouncedSecretsHold
    BY DEF IInv
<1> QED
    BY Invariance, <1>1, PTL

\* The portal shows no salt that was replaced before it was asked.
THEOREM PortalCorrect == Spec => []PortalShowsCurrentSalt
<1>1. IInv => PortalShowsCurrentSalt
    BY DEF IInv
<1> QED
    BY Invariance, <1>1, PTL

\* Every portal call is let in by a token issued, no longer ago than its lifetime,
\* to a call that arrived while the account was active (middleware/auth.rs:30).
THEOREM DeactivationCorrect == Spec => DeactivationEndsAccess
<1>1. ASSUME IInv, [Next]_vars, NEW c \in Calls, Accepted(c)
      PROVE  LET t == Shows(c)' IN
             /\ t \notin late
             /\ Kind(t) \in {"token", "login", "verify"}
             /\ answer[t] = "token"
             /\ clock - iat[t] <= TOKEN_EXPIRY + Leeway
             /\ Kind(t) = "verify" =>
                   /\ Shows(t) \notin late
                   /\ iat[t] >= iat[Shows(t)]
  <2> DEFINE t == Shows(c)'
  <2>1. Arrive(c)
    <3>1. pc[c] = "new" /\ pc'[c] # "new"
      BY <1>1 DEF Accepted
    <3>2. \A d \in Calls \ {c} :
              ~ (Arrive(d) \/ Fail(d) \/ TokenRead(d) \/ LoginRead(d) \/ Issue(d)
                 \/ Write(d) \/ GetMe(d))
      BY <1>1, <3>1 DEF IInv, TypeOK, Arrive, Fail, TokenRead, LoginRead, Read, Issue,
         Write, GetMe, Goto, Finish
    <3>3. pc' # pc
      BY <3>1
    <3>5. ~ Deactivate /\ ~ Tick /\ ~ UNCHANGED vars
      BY <3>3 DEF Deactivate, Tick, vars
    <3>4. ~ (Fail(c) \/ TokenRead(c) \/ LoginRead(c) \/ Issue(c)
             \/ Write(c) \/ GetMe(c))
      BY <3>1 DEF Fail, TokenRead, LoginRead, Read, Issue, Write, GetMe
    <3> QED
      BY <1>1, <3>2, <3>4, <3>5 DEF Next
  <2>2. Bearer(t)
    BY <1>1, <2>1, ArriveOpens DEF IInv, Accepted, Portal, Kind, Shows, Opens
  <2>3. t \in Calls /\ answer[t] = "token" /\ admits[t]
    BY <1>1, <2>2 DEF Bearer, Answered, IInv, AnsweredByKind
  <2>4. t \notin late /\ Kind(t) \in {"token", "login", "verify"}
    BY <1>1, <2>3 DEF IInv, ActiveOnArrival, Waiting
  <2>5. clock - iat[t] <= TOKEN_EXPIRY + Leeway
    <3>1. /\ clock \in Nat /\ iat[t] \in Nat
          /\ TOKEN_EXPIRY \in Nat /\ Leeway \in Nat
      BY <1>1, <2>3, CredentialsAssumption DEF IInv, TypeOK
    <3> QED
      BY <2>2, <3>1 DEF Bearer, Unexpired
  <2>6. ASSUME Kind(t) = "verify"
        PROVE  Shows(t) \notin late /\ iat[t] >= iat[Shows(t)]
    <3>1. pc[t] # "new"
      BY <1>1, <2>3 DEF IInv, Waiting
    <3>2. /\ Shows(t) \in Calls /\ answer[Shows(t)] = "challenge"
          /\ iat[t] >= iat[Shows(t)]
      BY <1>1, <2>3, <2>6, <3>1 DEF IInv, ContinuesLogin
    <3> QED
      BY <1>1, <3>2 DEF IInv, AnsweredByKind, ActiveOnArrival
  <2> QED
    BY <2>3, <2>4, <2>5, <2>6
<1>2. IInv /\ [Next]_vars =>
        [\A c \in Calls : Accepted(c) =>
            LET t == Shows(c)' IN
            /\ t \notin late
            /\ Kind(t) \in {"token", "login", "verify"}
            /\ answer[t] = "token"
            /\ clock - iat[t] <= TOKEN_EXPIRY + Leeway
            /\ Kind(t) = "verify" =>
                  /\ Shows(t) \notin late
                  /\ iat[t] >= iat[Shows(t)]]_vars
    BY <1>1
<1> QED
    BY Invariance, <1>2, PTL DEF Spec, DeactivationEndsAccess

-----------------------------------------------------------------------------
(* The refinement of Credential *)

\* The refinement mapping of ClientCredentials!Secret, by name.
secret_admitted ==
    [c \in Calls |-> IF admits[c] /\ Kind(c) = "token" THEN Shows(c) ELSE None]

\* Every step replaces the secret, lets a call in, or does nothing to either.
LEMMA SecretStep ==
    IInv /\ [Next]_vars => [Secret!Next]_<<client_secret, retired, secret_admitted>>
<1> SUFFICES ASSUME IInv, [Next]_vars
             PROVE  \/ Secret!Next
                    \/ UNCHANGED <<client_secret, retired, secret_admitted>>
    OBVIOUS
<1>0. Effect /\ TypeOK'
    BY StepType, StepEffect DEF IInv
<1> USE DEF IInv
<1>a. ASSUME NEW c \in Calls, admits'[c] /\ Kind(c) = "token" => ~ LetsIn(c)
      PROVE  secret_admitted'[c] = secret_admitted[c]
  <2>1. CASE admits[c] \/ ~ admits'[c]
    <3>1. admits'[c] = admits[c]
      BY <1>0, <2>1 DEF Effect, CallEffect, TypeOK
    <3>2. admits[c] => Kind(c)' = Kind(c) /\ Shows(c)' = Shows(c)
      BY <1>0 DEF Effect, CallEffect, Waiting, Kind, Shows
    <3> QED
      BY <3>1, <3>2 DEF secret_admitted
  <2>2. CASE ~ admits[c] /\ LetsIn(c) /\ Kind(c) # "token"
    <3>1. Kind(c)' = Kind(c)
      BY <1>0, <2>2 DEF LetsIn, Effect, CallEffect, Kind
    <3> QED
      BY <2>2, <3>1 DEF secret_admitted
  <2> QED
    BY <1>0, <1>a, <2>1, <2>2 DEF Effect, CallEffect
<1>1. ASSUME NEW c \in Calls, Rotates(c) PROVE Secret!Replace
  <2>1. /\ c \in Secrets \ (retired \cup {client_secret})
        /\ retired' = retired \cup ({client_secret} \ {None})
    BY <1>1, CredentialsAssumption DEF Rotates, SetOnce, Spent, Secrets, TypeOK
  <2>2. \A d \in Calls : ~ LetsIn(d)
    BY <1>1, <1>0 DEF LetsIn, Rotates, Effect, CallEffect
  <2>3. secret_admitted' = secret_admitted
    BY <1>a, <2>2 DEF secret_admitted
  <2> QED
    BY <1>1, <2>1, <2>3 DEF Secret!Replace, Rotates, secret_admitted
<1>2. ASSUME \A c \in Calls : ~ Rotates(c)
      PROVE  UNCHANGED <<client_secret, retired>>
    BY <1>0, <1>2 DEF Effect, RowEffect, Regenerates
<1>3. ASSUME NEW c \in Calls, LetsIn(c), admits'[c], Kind(c) = "token"
      PROVE  Secret!Admit(c)
  <2>1. /\ UNCHANGED <<client_secret, retired>>
        /\ Shows(c) = client_secret /\ client_secret # None
    BY <1>3, CredentialsAssumption DEF LetsIn, TypeOK, Secrets
  <2>2. /\ Kind(c)' = Kind(c) /\ Shows(c)' = Shows(c)
        /\ secret_admitted[c] = None
    BY <1>0, <1>3
       DEF LetsIn, secret_admitted, Effect, CallEffect, Waiting, Kind, Shows
  <2>3. \A d \in Calls \ {c} : ~ LetsIn(d)
    BY <1>3, <1>0 DEF LetsIn, Effect, CallEffect
  <2>4. \A d \in Calls \ {c} : secret_admitted'[d] = secret_admitted[d]
    BY <1>a, <2>3
  <2>5. secret_admitted' = [secret_admitted EXCEPT ![c] = client_secret]
    BY <1>3, <2>1, <2>2, <2>4 DEF secret_admitted
  <2> QED
    BY <2>1, <2>2, <2>5 DEF Secret!Admit, secret_admitted
<1>4. ASSUME \A c \in Calls : admits'[c] /\ Kind(c) = "token" => ~ LetsIn(c)
      PROVE  UNCHANGED secret_admitted
    BY <1>4, <1>a DEF secret_admitted
<1> QED
    BY <1>1, <1>2, <1>3, <1>4 DEF Secret!Next

\* The client secret implements the abstract credential: a rotated secret never
\* returns, and authenticate lets in only who shows the one in force.
THEOREM SecretRefinement == Spec => SecretSpec
<1>1. Init => Secret!Init
    BY DEF Init, Secret!Init, Secrets
<1> QED
    BY <1>1, SecretStep, Invariance, PTL
       DEF Spec, SecretSpec, Secret!Spec, secret_admitted

=============================================================================
