------------------------ MODULE PasswordAccountProofs ------------------------
(***************************************************************************)
(* What TLAPS proves of PasswordAccount, for any number of calls and       *)
(* passwords.                                                              *)
(***************************************************************************)
EXTENDS PasswordAccount, TLAPS

-----------------------------------------------------------------------------
(* The inductive invariant *)

\* Which calls wait where, and what they have to show for it.
Waiting ==
    \A c \in Calls :
        /\ pc[c] = "new" => ~ admits[c] /\ earlier[c] = {}
        /\ pc[c] = "read" => Kind(c) \in {"login", "forgot", "change"} /\ ~ admits[c]
        /\ pc[c] = "bcrypt" => Kind(c) = "login"
        /\ pc[c] = "write" =>
              /\ Kind(c) \in {"register", "verify", "forgot", "change"}
              /\ Kind(c) = "change" => admits[c]
              /\ Kind(c) \in {"forgot", "change"} => account # None
        /\ pc[c] = "mail" => Mails(c)
        /\ pc[c] # "done" => answer[c] = "none"

\* Who was answered what.
Answered ==
    \A c \in Calls :
        /\ answer[c] = "admitted" => Kind(c) = "login" /\ admits[c]
        /\ answer[c] = "created" => Kind(c) = "register"
        /\ answer[c] = "changed" => Kind(c) = "change"

\* Only finished calls are earlier than another.
EarlierDone ==
    \A c \in Calls : \A d \in earlier[c] : pc[d] = "done"

\* Who chooses a password can type it.
Chosen ==
    \A c \in Calls : pc[c] # "new" /\ Kind(c) \in {"register", "change"} =>
        call[c].new \in Passwords \cup inbox

\* A password is set by one statement of one call, which then is past it.
SetOnce ==
    /\ account = None => setters = {}
    /\ \A c \in setters :
          /\ pc[c] \in {"mail", "done", "dropped"}
          /\ Kind(c) \in {"register", "forgot", "change"}

\* A call that mails, or was told that it worked, has set its password.
HasSet ==
    \A c \in Calls :
        (\/ pc[c] = "mail" \/ c \in inbox \cup lost
         \/ answer[c] \in {"created", "changed"})
        => c \in setters

\* The statements were applied one after the other, and one that was applied
\* after its call had seen others succeed was applied after theirs.
Ordered ==
    \A c \in setters :
        /\ before[c] \subseteq setters \ {c}
        /\ earlier[c] \cap setters \subseteq before[c]
        /\ \A d \in setters \ {c} : c \in before[d] <=> d \notin before[c]

\* The password in force is that of the last of them.
LastInForce ==
    setters # {} =>
        \E w \in setters : before[w] = setters \ {w} /\ account.password = New(w)

\* Who was let in has shown a password set with, or after, that of any call that
\* had succeeded when it arrived.
ShownSince ==
    \A c, d \in Calls :
        admits[c] /\ d \in earlier[c] /\ d \in setters
        => \E w \in SetSince(d) : Secret(c) = New(w)

\* Whose mailbox an account is has been shown when its address is verified, or a
\* reset has marked it so and its password has not been used.
Mailbox ==
    /\ account # None /\ account.verified =>
          proved \/ overtaken \/ account.password \in Calls
    /\ \A c \in Calls : admits[c] =>
          /\ Kind(c) \in {"login", "change"}
          /\ Kind(c) = "login" => proved \/ overtaken
          /\ Secret(c) \in Calls => proved

\* The registration that goes on to its mail is the one that inserted the row.
Owner ==
    \A c \in Calls :
        answer[c] = "created" \/ (pc[c] = "mail" /\ Kind(c) = "register")
        => account # None /\ account.owner = c

IInv ==
    /\ TypeOK /\ Waiting /\ Answered /\ EarlierDone /\ Chosen
    /\ SetOnce /\ HasSet /\ Ordered /\ LastInForce /\ ShownSince
    /\ Mailbox /\ Owner /\ LockoutHasACause

-----------------------------------------------------------------------------
(* Types *)

\* What a statement leaves in the row and in the history.
LEMMA ApplyType ==
    ASSUME TypeOK, Waiting, Chosen, NEW c \in Calls, pc[c] = "write", Apply(c)
    PROVE  /\ account' \in Row
           /\ setters' \subseteq Calls /\ before' \in [Calls -> SUBSET Calls]
           /\ proved' \in BOOLEAN /\ overtaken' \in BOOLEAN
<1> USE DEF TypeOK, Waiting, Chosen, NoteSetter
<1>1. Kind(c) \in {"register", "forgot", "change"} => New(c) \in Secrets
    BY DEF New, Secrets
<1>2. CASE Kind(c) = "register" /\ RegisterWrite(c)
    BY <1>1, <1>2 DEF RegisterWrite, NewRow, Row
<1>3. CASE VerifyWrite(c)
    BY <1>3 DEF VerifyWrite, Row
<1>4. CASE Kind(c) = "forgot" /\ ForgotWrite(c)
  <2>1. account \in Row
    BY <1>4
  <2> QED
    BY <1>1, <1>4, <2>1 DEF ForgotWrite, SetPassword, Row
<1>5. CASE Kind(c) = "change" /\ ChangeWrite(c)
  <2>1. account \in Row
    BY <1>5
  <2> QED
    BY <1>1, <1>5, <2>1 DEF ChangeWrite, SetPassword, Overtakes, Row
<1> QED
    BY <1>2, <1>3, <1>4, <1>5 DEF Apply

\* The initial states satisfy the invariant.
LEMMA InitIInv == Init => IInv
<1> SUFFICES ASSUME Init PROVE IInv
    OBVIOUS
<1>1. Legacy \in Row
    BY DEF Legacy, Row
<1>2. TypeOK
    BY <1>1 DEF Init, TypeOK, Stages, Call, NoCall, Kinds, Answers
<1>3. Waiting /\ Answered /\ EarlierDone /\ Chosen /\ Owner
    BY DEF Init, Waiting, Answered, EarlierDone, Chosen, Owner
<1>4. SetOnce /\ HasSet /\ Ordered /\ LastInForce /\ ShownSince
    BY DEF Init, SetOnce, HasSet, Ordered, LastInForce, ShownSince
<1>5. Mailbox /\ LockoutHasACause
  <2>1. CASE account = None
    BY <2>1 DEF Init, Mailbox, LockoutHasACause
  <2>2. CASE account = Legacy
    <3>1. account # None /\ account.verified /\ account.password = None
          /\ account.owner = None
      BY <1>1, <2>2, PasswordAssumption DEF Legacy
    <3>2. proved
      BY <3>1 DEF Init
    <3> QED
      BY <3>1, <3>2 DEF Init, Mailbox, LockoutHasACause
  <2> QED
    BY <2>1, <2>2 DEF Init
<1> QED
    BY <1>2, <1>3, <1>4, <1>5 DEF IInv

\* A call arrives with an operation of its own and with what somebody knows.
LEMMA ArriveCall ==
    ASSUME TypeOK, NEW c \in Calls, Arrive(c)
    PROVE  \E k \in Kinds, s \in Secrets \cup {None}, n \in Secrets \cup {None} :
              /\ call' = [call EXCEPT ![c] = [kind |-> k, secret |-> s, new |-> n]]
              /\ k \in {"register", "change"} => n \in Passwords \cup inbox
              /\ Goto(c, IF k \in {"register", "verify"} THEN "write" ELSE "read")
<1> PICK k \in Kinds : \E s \in Presentable(k), n \in Choosable(k) :
          /\ call' = [call EXCEPT ![c] = [kind |-> k, secret |-> s, new |-> n]]
          /\ Goto(c, IF k \in {"register", "verify"} THEN "write" ELSE "read")
    BY DEF Arrive
<1> PICK s \in Presentable(k) : \E n \in Choosable(k) :
          /\ call' = [call EXCEPT ![c] = [kind |-> k, secret |-> s, new |-> n]]
          /\ Goto(c, IF k \in {"register", "verify"} THEN "write" ELSE "read")
    OBVIOUS
<1> PICK n \in Choosable(k) :
          /\ call' = [call EXCEPT ![c] = [kind |-> k, secret |-> s, new |-> n]]
          /\ Goto(c, IF k \in {"register", "verify"} THEN "write" ELSE "read")
    OBVIOUS
<1>1. s \in Secrets \cup {None}
    BY DEF Presentable, Known, Of, Secrets, Kinds
<1>2. /\ n \in Secrets \cup {None}
      /\ k \in {"register", "change"} => n \in Passwords \cup inbox
    BY DEF Choosable, Known, Of, Secrets
<1> QED
    BY <1>1, <1>2

\* Every step keeps every variable in its type.
LEMMA StepType == TypeOK /\ Waiting /\ Chosen /\ [Next]_vars => TypeOK'
<1> SUFFICES ASSUME TypeOK, Waiting, Chosen, [Next]_vars PROVE TypeOK'
    OBVIOUS
<1>1. ASSUME NEW c \in Calls, Arrive(c) PROVE TypeOK'
  <2> PICK k \in Kinds, s \in Secrets \cup {None}, n \in Secrets \cup {None} :
              /\ call' = [call EXCEPT ![c] = [kind |-> k, secret |-> s, new |-> n]]
              /\ Goto(c, IF k \in {"register", "verify"} THEN "write" ELSE "read")
    BY <1>1, ArriveCall
  <2>1. [kind |-> k, secret |-> s, new |-> n] \in Call
    BY DEF Call
  <2> QED
    BY <1>1, <2>1 DEF Arrive, TypeOK, Goto, Stages
<1>2. ASSUME NEW c \in Calls, Write(c) PROVE TypeOK'
  <2>1. /\ account' \in Row
        /\ setters' \subseteq Calls /\ before' \in [Calls -> SUBSET Calls]
        /\ proved' \in BOOLEAN /\ overtaken' \in BOOLEAN
    BY <1>2, ApplyType DEF Write
  <2> QED
    BY <1>2, <2>1 DEF Write, TypeOK, Goto, Finish, Stages, Answers
<1>3. ASSUME NEW c \in Calls, Drop(c) PROVE TypeOK'
  <2>1. /\ account' \in Row \cup {None}
        /\ setters' \subseteq Calls /\ before' \in [Calls -> SUBSET Calls]
        /\ proved' \in BOOLEAN /\ overtaken' \in BOOLEAN
    BY <1>3, ApplyType DEF Drop, TypeOK
  <2> QED
    BY <1>3, <2>1 DEF Drop, Delivery, TypeOK, Goto, Stages
<1>4. ASSUME NEW c \in Calls, LoginRead(c) \/ ForgotRead(c) \/ ChangeRead(c)
      PROVE  TypeOK'
  <2>1. ASSUME NEW ok \in BOOLEAN, Decide(c, ok)
        PROVE  admits' \in [Calls -> BOOLEAN] /\ proved' \in BOOLEAN
    BY <2>1 DEF Decide, TypeOK
  <2>2. Matches(c) \in BOOLEAN /\ (Matches(c) /\ account.verified) \in BOOLEAN
    BY DEF Matches
  <2>3. CASE LoginRead(c)
    BY <2>1, <2>2, <2>3 DEF LoginRead, TypeOK, Goto, Stages
  <2>4. CASE ForgotRead(c)
    BY <2>4 DEF ForgotRead, TypeOK, Goto, Finish, Stages, Answers, history
  <2>5. CASE ChangeRead(c)
    BY <2>1, <2>2, <2>5 DEF ChangeRead, TypeOK, Goto, Finish, Stages, Answers
  <2> QED
    BY <1>4, <2>3, <2>4, <2>5
<1>5. ASSUME NEW c \in Calls,
             Fail(c) \/ LoginFinish(c) \/ Conflict(c) \/ Mail(c)
      PROVE  TypeOK'
    BY <1>5 DEF Fail, LoginFinish, Conflict, Mail, Delivery, TypeOK, Goto, Finish,
       Stages, Answers, history
<1>6. CASE TokenExpires
    BY <1>6 DEF TokenExpires, TypeOK, Row, history
<1>7. CASE UNCHANGED vars
    BY <1>7 DEF vars, history, TypeOK
<1> QED
    BY <1>1, <1>2, <1>3, <1>4, <1>5, <1>6, <1>7 DEF Next

-----------------------------------------------------------------------------
(* The effect of a step *)

\* The statement of a call that sets a password is applied.
Sets(c) ==
    /\ pc[c] = "write" /\ pc'[c] \in {"mail", "done", "dropped"}
    /\ account' # None /\ account'.password = New(c)
    /\ setters' = setters \cup {c} /\ before' = [before EXCEPT ![c] = setters]
    /\ Mails(c) => pc'[c] = "mail" \/ c \in lost'
    /\ \/ /\ Kind(c) = "register"
          /\ account = None
          /\ account'.owner = c /\ account'.token = c
          /\ account'.verified = FALSE
       \/ /\ Kind(c) \in {"forgot", "change"}
          /\ account # None
          /\ account'.owner = account.owner /\ account'.token = account.token
          /\ account'.expired = account.expired
          /\ account'.verified = (Kind(c) = "forgot" \/ account.verified)
          /\ Kind(c) = "change" /\ Overtakes(c) => overtaken'

\* The address is marked as verified, with the mailed token, or the token expires.
Ages ==
    /\ account # None /\ account' # None
    /\ account'.owner = account.owner /\ account'.password = account.password
    /\ UNCHANGED <<setters, before>>
    /\ \/ account'.verified = TRUE /\ proved'
       \/ account'.verified = account.verified /\ account'.expired

RowEffect ==
    /\ \/ UNCHANGED <<account, setters, before>>
       \/ Ages
       \/ \E c \in Calls : Sets(c)
    /\ proved => proved'
    /\ overtaken => overtaken'

\* The row that c reads lets it in.
LetsIn(c) ==
    /\ pc[c] = "read" /\ pc'[c] # "read" /\ Matches(c)
    /\ \/ Kind(c) = "login" /\ account.verified
       \/ Kind(c) = "change"
    /\ Secret(c) \in Calls => proved'
    /\ UNCHANGED <<account, setters, before>>

\* One call moves.  It keeps what it came with, and is let in by a row, once.
CallEffect ==
    \A c \in Calls :
        /\ pc[c] # "new" =>
              pc'[c] # "new" /\ call'[c] = call[c] /\ earlier'[c] = earlier[c]
        /\ pc[c] \in {"mail", "done", "dropped"} =>
              /\ pc'[c] \in {"mail", "done", "dropped"}
              /\ admits'[c] = admits[c]
        /\ pc[c] = "done" => pc'[c] = "done" /\ answer'[c] = answer[c]
        /\ \A d \in earlier'[c] : d \in earlier[c] \/ pc[d] = "done"
        /\ pc[c] = "new" => admits'[c] = FALSE
        /\ admits[c] => admits'[c]
        /\ admits'[c] => admits[c] \/ LetsIn(c)
        /\ \A d \in Calls : pc'[c] # pc[c] /\ pc'[d] # pc[d] => c = d

\* Who mails has set a password, and is answered after it has.
MailEffect ==
    \A c \in Calls :
        /\ c \in inbox => c \in inbox'
        /\ c \in lost => c \in lost'
        /\ c \in inbox' \cup lost' =>
              c \in inbox \cup lost \/ pc[c] = "mail" \/ Sets(c)
        /\ pc'[c] = "mail" => pc[c] = "mail" \/ Sets(c)
        /\ pc[c] = "mail" => pc'[c] = "mail" \/ c \in inbox' \cup lost'
        /\ answer'[c] = "created" =>
              answer[c] = "created" \/ (pc[c] = "mail" /\ Kind(c) = "register")
        /\ answer'[c] = "changed" => answer[c] = "changed" \/ Sets(c)
        /\ answer'[c] = "admitted" =>
              answer[c] = "admitted" \/ (pc[c] = "bcrypt" /\ admits[c])

Effect == RowEffect /\ CallEffect /\ MailEffect

\* The statements, said as effects.
LEMMA ApplyEffect ==
    ASSUME TypeOK, Waiting, Chosen, NEW c \in Calls, pc[c] = "write", Apply(c),
           pc'[c] \in {"mail", "done", "dropped"},
           Mails(c) => pc'[c] = "mail" \/ c \in lost'
    PROVE  /\ IF Kind(c) = "verify" THEN Ages ELSE Sets(c)
           /\ proved => proved'
           /\ overtaken => overtaken'
<1>0. account' \in Row
    BY ApplyType
<1> USE PasswordAssumption DEF TypeOK, Waiting, NoteSetter
<1>1. CASE Kind(c) = "register" /\ RegisterWrite(c)
    BY <1>0, <1>1 DEF RegisterWrite, NewRow, Sets
<1>2. CASE Kind(c) = "verify" /\ VerifyWrite(c)
  <2>1. account \in Row
    BY <1>2 DEF VerifyWrite
  <2>2. account' = [account EXCEPT !.verified = TRUE, !.token = None]
    BY <1>2 DEF VerifyWrite
  <2>3. /\ proved' /\ (overtaken => overtaken')
        /\ UNCHANGED <<setters, before>> /\ account # None
    BY <1>2 DEF VerifyWrite
  <2>4. Ages
    BY <1>0, <2>1, <2>2, <2>3 DEF Ages, Row
  <2> QED
    BY <1>2, <2>3, <2>4
<1>3. CASE Kind(c) = "forgot" /\ ForgotWrite(c)
  <2>1. account \in Row /\ account' \in Row
    BY <1>0, <1>3
  <2> QED
    BY <1>3, <2>1 DEF ForgotWrite, SetPassword, Sets, Row
<1>4. CASE Kind(c) = "change" /\ ChangeWrite(c)
  <2>1. account \in Row /\ account' \in Row
    BY <1>0, <1>4
  <2> QED
    BY <1>4, <2>1 DEF ChangeWrite, SetPassword, Sets, Row
<1> QED
    BY <1>1, <1>2, <1>3, <1>4 DEF Apply

\* What any step may do, said without naming the action that does it.
LEMMA StepEffect == TypeOK /\ Waiting /\ Chosen /\ [Next]_vars => Effect
<1> SUFFICES ASSUME TypeOK, Waiting, Chosen, [Next]_vars PROVE Effect
    OBVIOUS
<1>0. TypeOK'
    BY StepType
<1> USE <1>0 DEF TypeOK, Waiting, Effect, CallEffect, MailEffect, Goto, Finish
<1>1. ASSUME NEW c \in Calls, Arrive(c) PROVE Effect
    BY <1>1 DEF Arrive, Succeeded, RowEffect
<1>2. ASSUME NEW c \in Calls, Fail(c) PROVE Effect
    BY <1>2 DEF Fail, history, RowEffect
<1>3. ASSUME NEW c \in Calls, LoginRead(c) PROVE Effect
    BY <1>3 DEF LoginRead, Decide, LetsIn, RowEffect
<1>4. ASSUME NEW c \in Calls, LoginFinish(c) PROVE Effect
    BY <1>4 DEF LoginFinish, history, RowEffect
<1>5. ASSUME NEW c \in Calls, ForgotRead(c) PROVE Effect
    BY <1>5 DEF ForgotRead, history, RowEffect
<1>6. ASSUME NEW c \in Calls, ChangeRead(c) PROVE Effect
    BY <1>6 DEF ChangeRead, Decide, LetsIn, RowEffect
<1>7. ASSUME NEW c \in Calls, Write(c) PROVE Effect
  <2>1. pc[c] = "write" /\ Apply(c)
    BY <1>7 DEF Write
  <2>2. /\ pc'[c] \in {"mail", "done", "dropped"}
        /\ Mails(c) => pc'[c] = "mail" \/ c \in lost'
    BY <1>7 DEF Write
  <2>3. /\ IF Kind(c) = "verify" THEN Ages ELSE Sets(c)
        /\ proved => proved'
        /\ overtaken => overtaken'
    BY <2>1, <2>2, ApplyEffect
  <2>4. RowEffect
    BY <2>3 DEF RowEffect
  <2> QED
    BY <1>7, <2>3, <2>4 DEF Write, Mails
<1>8. ASSUME NEW c \in Calls, Conflict(c) PROVE Effect
    BY <1>8 DEF Conflict, history, RowEffect
<1>9. ASSUME NEW c \in Calls, Mail(c) PROVE Effect
    BY <1>9 DEF Mail, Delivery, Mails, history, RowEffect
<1>10. ASSUME NEW c \in Calls, Drop(c) PROVE Effect
  <2>1. CASE \/ /\ pc[c] \in {"read", "bcrypt", "write"}
                /\ UNCHANGED <<account, lost, inbox, setters, before, proved, overtaken>>
             \/ /\ pc[c] = "mail" /\ Delivery(c)
                /\ UNCHANGED <<account, setters, before, proved, overtaken>>
    BY <1>10, <2>1 DEF Drop, Delivery, RowEffect
  <2>2. CASE /\ pc[c] = "write" /\ Apply(c)
             /\ lost' = IF Mails(c) THEN lost \cup {c} ELSE lost
             /\ UNCHANGED inbox
    <3>1. /\ pc'[c] \in {"mail", "done", "dropped"}
          /\ Mails(c) => pc'[c] = "mail" \/ c \in lost'
      BY <1>10, <2>2 DEF Drop
    <3>2. /\ IF Kind(c) = "verify" THEN Ages ELSE Sets(c)
          /\ proved => proved'
          /\ overtaken => overtaken'
      BY <2>2, <3>1, ApplyEffect
    <3>3. RowEffect
      BY <3>2 DEF RowEffect
    <3> QED
      BY <1>10, <2>2, <3>2, <3>3 DEF Drop, Mails
  <2> QED
    BY <1>10, <2>1, <2>2 DEF Drop
<1>11. CASE TokenExpires
  <2>1. account \in Row /\ account' \in Row
    BY <1>11, PasswordAssumption DEF TokenExpires, Row
  <2>2. account' = [account EXCEPT !.expired = TRUE] /\ UNCHANGED <<setters, before>>
    BY <1>11 DEF TokenExpires, history
  <2>3. Ages
    BY <2>1, <2>2, PasswordAssumption DEF Ages, Row
  <2> QED
    BY <1>11, <2>3 DEF TokenExpires, history, RowEffect
<1>12. CASE UNCHANGED vars
    BY <1>12 DEF vars, history, RowEffect
<1> QED
    BY <1>1, <1>2, <1>3, <1>4, <1>5, <1>6, <1>7, <1>8, <1>9, <1>10, <1>11, <1>12
       DEF Next

-----------------------------------------------------------------------------
(* The invariant is kept, conjunct by conjunct *)

\* Calls wait and are answered according to their kind.
LEMMA StepWaiting ==
    TypeOK /\ Waiting /\ Answered /\ Chosen /\ [Next]_vars
    => Waiting' /\ Answered' /\ Chosen'
<1> SUFFICES ASSUME TypeOK, Waiting, Answered, Chosen, [Next]_vars
             PROVE  Waiting' /\ Answered' /\ Chosen'
    OBVIOUS
<1>0. TypeOK' /\ Effect
    BY StepType, StepEffect
<1>r. account # None => account' # None
    BY <1>0, PasswordAssumption DEF Effect, RowEffect, Ages, Sets
<1>i. inbox \subseteq inbox'
    BY <1>0 DEF TypeOK, Effect, MailEffect
<1> USE <1>0, <1>r, <1>i DEF TypeOK, Waiting, Answered, Chosen, Goto, Finish, Kind,
        Mails
<1>1. ASSUME NEW c \in Calls, Arrive(c) PROVE Waiting' /\ Answered' /\ Chosen'
  <2> PICK k \in Kinds, s \in Secrets \cup {None}, n \in Secrets \cup {None} :
              /\ call' = [call EXCEPT ![c] = [kind |-> k, secret |-> s, new |-> n]]
              /\ k \in {"register", "change"} => n \in Passwords \cup inbox
              /\ Goto(c, IF k \in {"register", "verify"} THEN "write" ELSE "read")
    BY <1>1, ArriveCall
  <2>1. call'[c].kind = k /\ call'[c].new = n
    OBVIOUS
  <2>2. pc[c] = "new" /\ UNCHANGED <<account, inbox, lost, admits, answer>>
    BY <1>1 DEF Arrive
  <2>3. \A d \in Calls \ {c} : UNCHANGED <<pc[d], call[d], earlier[d]>>
    BY <1>1 DEF Arrive
  <2>4. Chosen'
    BY <2>1, <2>2, <2>3
  <2>5. Waiting' /\ Answered'
    BY <2>1, <2>2, <2>3 DEF Kinds
  <2> QED
    BY <2>4, <2>5
<1>2. ASSUME NEW c \in Calls, Fail(c) PROVE Waiting' /\ Answered' /\ Chosen'
    BY <1>2 DEF Fail, history
<1>3. ASSUME NEW c \in Calls, LoginRead(c) PROVE Waiting' /\ Answered' /\ Chosen'
    BY <1>3 DEF LoginRead, Decide
<1>4. ASSUME NEW c \in Calls, LoginFinish(c) PROVE Waiting' /\ Answered' /\ Chosen'
    BY <1>4 DEF LoginFinish, history
<1>5. ASSUME NEW c \in Calls, ForgotRead(c) PROVE Waiting' /\ Answered' /\ Chosen'
    BY <1>5 DEF ForgotRead, history
<1>6. ASSUME NEW c \in Calls, ChangeRead(c) PROVE Waiting' /\ Answered' /\ Chosen'
  <2>1. CASE Matches(c)
    <3>1. admits' = [admits EXCEPT ![c] = TRUE] /\ account' # None
      BY <1>6, <2>1 DEF ChangeRead, Decide, Matches
    <3>2. /\ pc[c] = "read" /\ Kind(c) = "change"
          /\ pc' = [pc EXCEPT ![c] = "write"]
          /\ UNCHANGED <<account, inbox, call, answer, earlier>>
      BY <1>6, <2>1 DEF ChangeRead
    <3> QED
      BY <3>1, <3>2
  <2>2. CASE ~ Matches(c)
    BY <1>6, <2>2 DEF ChangeRead, Decide
  <2> QED
    BY <2>1, <2>2
<1>7. ASSUME NEW c \in Calls, Write(c) PROVE Waiting' /\ Answered' /\ Chosen'
    BY <1>7 DEF Write
<1>8. ASSUME NEW c \in Calls, Conflict(c) PROVE Waiting' /\ Answered' /\ Chosen'
    BY <1>8 DEF Conflict, history
<1>9. ASSUME NEW c \in Calls, Mail(c) PROVE Waiting' /\ Answered' /\ Chosen'
    BY <1>9 DEF Mail, history
<1>10. ASSUME NEW c \in Calls, Drop(c) PROVE Waiting' /\ Answered' /\ Chosen'
    BY <1>10 DEF Drop
<1>11. CASE TokenExpires
    BY <1>11 DEF TokenExpires, history
<1>12. CASE UNCHANGED vars
    BY <1>12 DEF vars, history
<1> QED
    BY <1>1, <1>2, <1>3, <1>4, <1>5, <1>6, <1>7, <1>8, <1>9, <1>10, <1>11, <1>12
       DEF Next

\* What becomes of the calls that have set the password.
LEMMA SettersEffect ==
    ASSUME TypeOK, SetOnce, Ordered, Effect
    PROVE  /\ \A w \in setters : /\ w \in Calls /\ w \in setters'
                                 /\ before'[w] = before[w]
                                 /\ Kind(w)' = Kind(w) /\ New(w)' = New(w)
                                 /\ earlier'[w] = earlier[w]
                                 /\ pc'[w] \in {"mail", "done", "dropped"}
           /\ \A c \in Calls : Sets(c) => c \notin setters
           /\ (\A c \in Calls : ~ Sets(c)) => setters' = setters
<1> USE DEF TypeOK
<1>1. \A c \in Calls : Sets(c) => c \notin setters
    BY DEF Sets, SetOnce
<1>2. \A w \in setters : w \in setters' /\ before'[w] = before[w]
    BY <1>1 DEF Effect, RowEffect, Ages, Sets
<1>3. \A w \in setters : /\ w \in Calls
                         /\ call'[w] = call[w] /\ earlier'[w] = earlier[w]
                         /\ pc'[w] \in {"mail", "done", "dropped"}
    BY DEF SetOnce, Effect, CallEffect
<1>4. (\A c \in Calls : ~ Sets(c)) => setters' = setters
    BY DEF Effect, RowEffect, Ages
<1> QED
    BY <1>1, <1>2, <1>3, <1>4 DEF Kind, New

\* A password is set once, and a call that mails or succeeded has set its own.
LEMMA StepSetOnce ==
    ASSUME IInv, Effect, TypeOK'
    PROVE  SetOnce' /\ HasSet' /\ EarlierDone'
<1> USE DEF IInv
<1>1. SetOnce'
  <2>1. account' = None => setters' = {}
    BY DEF SetOnce, Effect, RowEffect, Ages, Sets
  <2>2. \A c \in setters' : c \in setters \/ Sets(c)
    BY DEF Effect, RowEffect, Ages, Sets
  <2>3. \A c \in Calls : Sets(c) => /\ pc'[c] \in {"mail", "done", "dropped"}
                                    /\ Kind(c)' \in {"register", "forgot", "change"}
    BY DEF Sets, Effect, CallEffect, Kind
  <2>4. setters' \subseteq Calls
    BY DEF TypeOK
  <2> QED
    BY <2>1, <2>2, <2>3, <2>4, SettersEffect DEF SetOnce
<1>2. HasSet'
  <2>1. \A c \in Calls : c \in setters => c \in setters'
    BY SettersEffect
  <2>2. \A c \in Calls : Sets(c) => c \in setters'
    BY DEF Sets
  <2> QED
    BY <2>1, <2>2 DEF HasSet, Effect, MailEffect
<1>3. EarlierDone'
    BY DEF EarlierDone, Effect, CallEffect, TypeOK
<1> QED
    BY <1>1, <1>2, <1>3

\* Each call that sets the password comes after all that have set it.
LEMMA StepOrdered ==
    ASSUME IInv, Effect, TypeOK'
    PROVE  Ordered' /\ LastInForce'
<1> USE DEF IInv
<1>1. ASSUME NEW c \in Calls, Sets(c) PROVE Ordered' /\ LastInForce'
  <2>a. /\ setters' = setters \cup {c} /\ before'[c] = setters
        /\ account'.password = New(c) /\ pc[c] # "new"
    BY <1>1 DEF Sets, TypeOK
  <2>b. New(c)' = New(c) /\ earlier'[c] = earlier[c]
    BY <2>a DEF Effect, CallEffect, New, Kind
  <2>c. c \notin setters
    BY <1>1, SettersEffect
  <2>1. /\ setters' = setters \cup {c} /\ c \notin setters
        /\ before'[c] = setters /\ New(c)' = New(c) /\ earlier'[c] = earlier[c]
        /\ account'.password = New(c)
    BY <2>a, <2>b, <2>c
  <2>2. \A d \in setters : c \notin earlier[d]
    BY <1>1 DEF Sets, EarlierDone, TypeOK
  <2>3. Ordered'
    <3>1. c \notin earlier[c]
      BY <1>1 DEF Sets, EarlierDone
    <3>2. ASSUME NEW w \in setters
          PROVE  /\ before'[w] = before[w] /\ earlier'[w] = earlier[w]
                 /\ before[w] \subseteq setters \ {w}
                 /\ earlier[w] \cap setters \subseteq before[w]
                 /\ \A d \in setters \ {w} : w \in before[d] <=> d \notin before[w]
      BY SettersEffect DEF Ordered
    <3> QED
      BY <2>1, <2>2, <3>1, <3>2 DEF Ordered
  <2>4. LastInForce'
    BY <2>1 DEF LastInForce
  <2> QED
    BY <2>3, <2>4
<1>2. ASSUME \A c \in Calls : ~ Sets(c) PROVE Ordered' /\ LastInForce'
  <2>1. setters' = setters
    BY <1>2, SettersEffect
  <2>2. Ordered'
    BY <2>1, SettersEffect DEF Ordered
  <2>3. setters # {} => account'.password = account.password
    BY <1>2 DEF Effect, RowEffect, Ages
  <2>4. LastInForce'
    BY <2>1, <2>3, SettersEffect DEF LastInForce
  <2> QED
    BY <2>2, <2>4
<1> QED
    BY <1>1, <1>2

\* The password in force was set with that of any call that has set one, or after
\* it, and by none that had succeeded before that call arrived.
LEMMA InForceSince ==
    ASSUME TypeOK, Ordered, LastInForce, NEW c \in setters
    PROVE  \E w \in SetSince(c) : account.password = New(w)
<1>1. PICK w \in setters : before[w] = setters \ {w} /\ account.password = New(w)
    BY DEF LastInForce
<1>2. w \notin before[c]
    BY <1>1 DEF Ordered
<1>3. w \notin earlier[c]
    BY <1>2 DEF Ordered
<1> QED
    BY <1>1, <1>2, <1>3 DEF SetSince

\* Who is let in shows the password in force, which is no older.
LEMMA StepShown ==
    ASSUME IInv, Effect, TypeOK'
    PROVE  ShownSince'
<1> USE DEF IInv
<1> SUFFICES ASSUME NEW c \in Calls, NEW d \in Calls,
                    admits'[c], d \in earlier'[c], d \in setters'
             PROVE  \E w \in SetSince(d)' : Secret(c)' = New(w)'
    BY DEF ShownSince
<1>1. pc[c] # "new" /\ Secret(c)' = Secret(c) /\ d \in earlier[c]
    BY DEF Effect, CallEffect, Secret
<1>2. pc[d] = "done" /\ d \in setters
  <2>1. pc[d] = "done"
    BY <1>1 DEF EarlierDone
  <2> QED
    BY <2>1 DEF Effect, RowEffect, Ages, Sets
<1>3. \E w \in SetSince(d) : Secret(c) = New(w)
  <2>1. CASE admits[c]
    BY <1>1, <1>2, <2>1 DEF ShownSince
  <2>2. CASE ~ admits[c]
    BY <1>2, <2>2, InForceSince DEF Effect, CallEffect, LetsIn, Matches
  <2> QED
    BY <2>1, <2>2
<1>4. PICK w \in SetSince(d) : Secret(c) = New(w)
    BY <1>3
<1>5. /\ w \in setters' /\ New(w)' = New(w)
      /\ before'[d] = before[d] /\ earlier'[d] = earlier[d]
    BY <1>2, SettersEffect DEF SetSince
<1>6. w \in SetSince(d)'
    BY <1>5 DEF SetSince
<1> QED
    BY <1>1, <1>4, <1>5, <1>6

\* The mailbox has been shown, or a change that was let in overwrote a reset.
LEMMA StepMailbox ==
    ASSUME IInv, Effect, TypeOK'
    PROVE  Mailbox'
<1> USE DEF IInv
<1>h. (proved => proved') /\ (overtaken => overtaken')
    BY DEF Effect, RowEffect
<1>1. ASSUME account' # None, account'.verified
      PROVE  proved' \/ overtaken' \/ account'.password \in Calls
  <2>1. CASE Ages \/ UNCHANGED <<account, setters, before>>
    BY <1>h, <1>1, <2>1 DEF Ages, Mailbox
  <2>2. ASSUME NEW c \in Calls, Sets(c)
        PROVE  proved' \/ overtaken' \/ account'.password \in Calls
    <3>1. account'.password = New(c) /\ pc[c] = "write"
      BY <2>2 DEF Sets
    <3>2. CASE Kind(c) = "register"
      BY <1>1, <2>2, <3>2 DEF Sets
    <3>3. CASE Kind(c) = "forgot"
      BY <3>1, <3>3 DEF New
    <3>4. CASE Kind(c) = "change"
      <4>1. account # None /\ account.verified
        BY <1>1, <2>2, <3>4 DEF Sets
      <4>2. CASE proved \/ overtaken
        BY <1>h, <4>2
      <4>3. CASE account.password \in Calls
        <5>1. CASE account.password = Secret(c)
          BY <1>h, <3>1, <3>4, <4>3, <5>1 DEF Waiting, Mailbox
        <5>2. CASE account.password # Secret(c)
          BY <2>2, <3>4, <4>3, <5>2 DEF Sets, Overtakes
        <5> QED
          BY <5>1, <5>2
      <4> QED
        BY <4>1, <4>2, <4>3 DEF Mailbox
    <3> QED
      BY <2>2, <3>2, <3>3, <3>4 DEF Sets
  <2> QED
    BY <2>1, <2>2 DEF Effect, RowEffect
<1>2. ASSUME NEW c \in Calls, admits'[c]
      PROVE  /\ Kind(c)' \in {"login", "change"}
             /\ Kind(c)' = "login" => proved' \/ overtaken'
             /\ Secret(c)' \in Calls => proved'
  <2>1. Kind(c)' = Kind(c) /\ Secret(c)' = Secret(c)
    BY <1>2 DEF Kind, Secret, Effect, CallEffect
  <2>2. CASE admits[c]
    BY <1>h, <2>1, <2>2 DEF Mailbox
  <2>3. CASE LetsIn(c)
    BY <1>h, <2>1, <2>3 DEF Mailbox, LetsIn, Matches
  <2> QED
    BY <1>2, <2>2, <2>3 DEF Effect, CallEffect
<1> QED
    BY <1>1, <1>2 DEF Mailbox

\* The row stays that of the registration that inserted it.
LEMMA StepOwner ==
    ASSUME IInv, Effect, TypeOK'
    PROVE  Owner'
<1> USE DEF IInv
<1>1. ASSUME NEW c \in Calls,
             (answer[c] = "created" \/ (pc[c] = "mail" /\ Kind(c) = "register"))'
      PROVE  account' # None /\ account'.owner = c
  <2>1. CASE answer[c] = "created" \/ (pc[c] = "mail" /\ Kind(c) = "register")
    BY <2>1 DEF Owner, Effect, RowEffect, Ages, Sets
  <2>2. CASE Sets(c) /\ Kind(c) = "register"
    BY <2>2 DEF Sets
  <2> QED
    BY <1>1, <2>1, <2>2 DEF Effect, MailEffect, CallEffect, Kind, Sets
<1> QED
    BY <1>1 DEF Owner

\* The owner can get in, or a mail was lost, or the token expired.
LEMMA StepLockout ==
    ASSUME IInv, Effect, TypeOK'
    PROVE  LockoutHasACause'
<1> USE DEF IInv
<1> DEFINE Coming == Told \cup lost
<1>1. Coming \subseteq Coming' /\ Coming \subseteq Calls
    BY DEF Effect, MailEffect, TypeOK, Told
<1>2. \A c \in Calls : Sets(c) /\ Mails(c) => c \in Coming'
    BY DEF Sets, Told
<1>3. \A c \in Calls : Sets(c) => New(c) \in Passwords \cup Coming'
  <2> TAKE c \in Calls
  <2> HAVE Sets(c)
  <2>1. CASE Kind(c) = "forgot"
    BY <1>2, <2>1 DEF New, Mails
  <2>2. CASE Kind(c) \in {"register", "change"}
    BY <1>1, <2>2 DEF Chosen, Sets, New, Told
  <2> QED
    BY <2>1, <2>2 DEF Sets
<1> HIDE DEF Coming
<1>4. ASSUME account' # None
      PROVE  \/ account'.password \in Passwords \cup Coming'
             \/ account'.password = None /\ account'.owner = None
  <2>1. ASSUME NEW c \in Calls, Sets(c)
        PROVE  account'.password \in Passwords \cup Coming'
    BY <1>3, <2>1 DEF Sets
  <2>2. CASE Ages \/ UNCHANGED <<account, setters, before>>
    <3>1. /\ account # None
          /\ account'.password = account.password /\ account'.owner = account.owner
      BY <1>4, <2>2 DEF Ages
    <3>2. \/ account.password \in Passwords \cup Coming
          \/ account.password = None /\ account.owner = None
      BY <3>1 DEF LockoutHasACause, Coming
    <3> QED
      BY <1>1, <3>1, <3>2
  <2> QED
    BY <2>1, <2>2 DEF Effect, RowEffect
<1>5. ASSUME account' # None
      PROVE  \/ account'.verified
             \/ /\ (setters \cap Of("forgot"))' = {}
                /\ account'.expired \/ account'.token \in Coming'
  <2>1. \A w \in setters : w \in Of("forgot")' => w \in Of("forgot")
    BY SettersEffect DEF SetOnce, Of
  <2>2. account # None => \/ account.verified
                          \/ /\ setters \cap Of("forgot") = {}
                             /\ account.expired \/ account.token \in Coming
    BY DEF LockoutHasACause, Coming
  <2>3. CASE UNCHANGED <<account, setters, before>>
    BY <1>1, <1>5, <2>1, <2>2, <2>3
  <2>4. CASE Ages
    BY <2>1, <2>2, <2>4 DEF Ages
  <2>5. ASSUME NEW c \in Calls, Sets(c)
        PROVE  \/ account'.verified
               \/ /\ (setters \cap Of("forgot"))' = {}
                  /\ account'.expired \/ account'.token \in Coming'
    <3>1. Kind(c)' = Kind(c) /\ setters' = setters \cup {c}
      BY <2>5 DEF Sets, Effect, CallEffect, Kind
    <3>2. CASE Kind(c) = "register"
      <4>1. setters = {}
        BY <2>5, <3>2 DEF Sets, SetOnce
      <4>2. account'.token \in Coming'
        BY <1>2, <2>5, <3>2 DEF Sets, Mails
      <4> QED
        BY <3>1, <3>2, <4>1, <4>2 DEF Of
    <3>3. CASE Kind(c) = "forgot"
      BY <2>5, <3>3 DEF Sets
    <3>4. CASE Kind(c) = "change"
      <4>1. c \notin Of("forgot")'
        BY <3>1, <3>4 DEF Of
      <4>2. /\ account # None /\ account'.verified = account.verified
            /\ account'.expired = account.expired /\ account'.token = account.token
        BY <2>5, <3>4 DEF Sets, Effect, TypeOK, Row
      <4> QED
        BY <1>1, <2>1, <2>2, <3>1, <4>1, <4>2
    <3> QED
      BY <2>5, <3>2, <3>3, <3>4 DEF Sets
  <2> QED
    BY <2>3, <2>4, <2>5 DEF Effect, RowEffect
<1> QED
    BY <1>4, <1>5 DEF LockoutHasACause, Coming

-----------------------------------------------------------------------------
(* The theorems *)

\* The invariant is inductive.
LEMMA StepIInv == IInv /\ [Next]_vars => IInv'
<1> SUFFICES ASSUME IInv, [Next]_vars PROVE IInv'
    OBVIOUS
<1>1. TypeOK' /\ Effect /\ Waiting' /\ Answered' /\ Chosen'
    BY StepType, StepEffect, StepWaiting DEF IInv
<1> QED
    BY <1>1, StepSetOnce, StepOrdered, StepShown, StepMailbox, StepOwner,
       StepLockout DEF IInv

\* It holds in every reachable state.
THEOREM Invariance == Spec => []IInv
BY InitIInv, StepIInv, PTL DEF Spec

\* Every variable keeps its type in every reachable state.
THEOREM TypeCorrect == Spec => []TypeOK
<1>1. IInv => TypeOK
    BY DEF IInv
<1> QED
    BY Invariance, <1>1, PTL

\* A password that an answered change or a mailed reset replaced lets nobody in
\* who comes later, unless it was chosen again (auth.rs:534-556, 565-609).
THEOREM ReplacedCorrect == Spec => []ReplacedPasswordStaysOut
<1>1. IInv => ReplacedPasswordStaysOut
    BY DEF IInv, HasSet, ShownSince, Announced, ReplacedPasswordStaysOut
<1> QED
    BY Invariance, <1>1, PTL

\* No session before somebody has shown to read the address's mail, or a change
\* overwrote a reset (auth.rs:205, 535, 595).
THEOREM MailboxCorrect == Spec => []SessionNeedsMailbox
<1>1. IInv => SessionNeedsMailbox
    BY DEF IInv, Answered, Mailbox, SessionNeedsMailbox
<1> QED
    BY Invariance, <1>1, PTL

\* The registration that is answered with credentials owns the row
\* (auth.rs:142-168).
THEOREM OwnerCorrect == Spec => []CreatedOwnsAccount
<1>1. IInv => CreatedOwnsAccount
    BY DEF IInv, Owner, CreatedOwnsAccount
<1> QED
    BY Invariance, <1>1, PTL

\* An announced password is never undone by a call that had succeeded before
\* (auth.rs:534-556, 595-609).
THEOREM AnnouncedCorrect == Spec => []AnnouncedPasswordHolds
<1>1. IInv => AnnouncedPasswordHolds
  <2> SUFFICES ASSUME IInv, NEW c \in Calls, Announced(c)
               PROVE  \E w \in SetSince(c) : account.password = New(w)
    BY DEF AnnouncedPasswordHolds
  <2>1. c \in setters
    BY DEF IInv, HasSet, Announced
  <2> QED
    BY <2>1, InForceSince DEF IInv
<1> QED
    BY Invariance, <1>1, PTL

\* Only a mail that was lost, or a token that expired before any reset, locks the
\* owner out (auth.rs:143-164, 496, 534-556).
THEOREM LockoutCorrect == Spec => []LockoutHasACause
<1>1. IInv => LockoutHasACause
    BY DEF IInv
<1> QED
    BY Invariance, <1>1, PTL

=============================================================================
