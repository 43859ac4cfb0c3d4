---------------------------- MODULE SessionsProofs ----------------------------
(***************************************************************************)
(* What holds of website sessions for any number of users, requests and    *)
(* seconds. The inductive invariant says of every token where it can be:   *)
(* one that was revoked has a revoked row until it has run out; one in the *)
(* hands of a client or a request was issued after a proof of identity at  *)
(* the time it carries; one a suspension is to end is live, ended or past. *)
(***************************************************************************)
EXTENDS Sessions, TLAPS

Past(t) == t.exp <= now
Gone(t) == t \in ended \/ Past(t)

Acting == {"act", "write", "reread", "sweep"}

\* A revoked session keeps its row while the token runs, and no other row is
\* revoked.
EndedStayRevoked ==
    /\ \A t \in ended : t \in revoked \/ Past(t)
    /\ revoked \subseteq ended

\* A request has a cookie only when its session had not ended or it is for
\* favorites, which it only admits and changes; what acts, issues a token by
\* itself or replaces one has a cookie.
ActsWithCookie ==
    \A r \in Requests :
        /\ req[r].cookie # NoToken => ~req[r].late \/ req[r].kind = "favorite"
        /\ req[r].step \in Acting \cup {"replace"} => req[r].cookie # NoToken
        /\ req[r].step = "register" /\ req[r].cookie = NoToken =>
              req[r].kind = "login"
        /\ req[r].kind = "favorite" => req[r].step \in {"admit", "act"}
        /\ req[r].step \in {"lookup", "issue"} => req[r].kind = "login"

\* Where a token may be, its user has proved their identity when it says.
Proved(t) == <<t.uid, t.reauth>> \in proofs
TokensAreProved ==
    /\ \A t \in live \cup held : Proved(t)
    /\ \A r \in Requests :
         /\ req[r].cookie # NoToken => Proved(req[r].cookie)
         /\ req[r].issued # NoToken => Proved(req[r].issued)

\* A token that was answered, is about to be, or is to be swept has a row or
\* has ended.
TokensAreKnown ==
    /\ \A t \in held : t \in live \/ Gone(t)
    /\ \A t \in swept : Gone(t)
    /\ \A r \in Requests :
         /\ \A t \in req[r].dooms : t.uid = req[r].user
                                    /\ (t \in live \/ Gone(t))
         /\ req[r].step \in {"register", "replace"} => req[r].issued # NoToken
         /\ req[r].step = "replace" =>
              req[r].issued \in live \/ Gone(req[r].issued)

IInv ==
    /\ TypeOK /\ EndedStayRevoked /\ ActsWithCookie /\ TokensAreProved
    /\ TokensAreKnown

USE UserAssumption, TimeAssumption, SentinelAssumption

\* Before any request, the invariant holds.
LEMMA InitEstablishesIInv == Init => IInv
<1> SUFFICES ASSUME Init PROVE IInv
  OBVIOUS
<1> PICK editors \in {{}} \cup {{u} : u \in Users \ {SystemUser}} :
      /\ users = [u \in Users |->
                    IF u = SystemUser THEN Active("manager")
                    ELSE IF u \in editors THEN Active("editor") ELSE NoRow]
      /\ live = {NewToken(u, 0, 0, "user") : u \in editors \cup {SystemUser}}
      /\ held = live
      /\ proofs = {<<u, 0>> : u \in editors \cup {SystemUser}}
  BY DEF Init
<1>1. editors \cup {SystemUser} \subseteq Users
  OBVIOUS
<1>2. live \subseteq Token /\ \A t \in live : <<t.uid, t.reauth>> \in proofs
  BY <1>1 DEF NewToken, Token, Time
<1>3. users \in [Users -> Row]
  BY <1>1 DEF Row, NoRow, Active
<1>4. proofs \subseteq Users \X Time
  BY <1>1 DEF Time
<1>5. req = [r \in Requests |-> Free]
  BY DEF Init
<1>6. TypeOK
  BY <1>2, <1>3, <1>4, <1>5
     DEF Init, TypeOK, Free, Opened, Steps, Kinds, Row, NoRow, Asks, NoAsk, Time
<1>7. EndedStayRevoked /\ ActsWithCookie /\ TokensAreProved /\ TokensAreKnown
  BY <1>2, <1>5 DEF Init, EndedStayRevoked, ActsWithCookie, TokensAreProved,
     TokensAreKnown, Proved, Free, Opened, Acting
<1> QED
  BY <1>3, <1>6, <1>7 DEF IInv

\* The types of a step that changes no table and one request at most.
Requesting == [step : Steps, kind : Kinds, cookie : Token \cup {NoToken},
               late : BOOLEAN, user : Users, saw : Row, asks : Asks,
               issued : Token \cup {NoToken}, dooms : SUBSET Token]

LEMMA FreeIsTyped == Free \in Requesting
  BY DEF Requesting, Free, Opened, Steps, Kinds, Row, NoRow, Asks, NoAsk

\* Two fields of a request change.
LEMMA IssuingIsTyped ==
    ASSUME NEW q \in Requesting, NEW s \in Steps, NEW t \in Token
    PROVE  [q EXCEPT !.step = s, !.issued = t] \in Requesting
  BY DEF Requesting

LEMMA DoomingIsTyped ==
    ASSUME NEW q \in Requesting, NEW s \in Steps, NEW d \in SUBSET Token
    PROVE  [q EXCEPT !.step = s, !.dooms = d] \in Requesting
  BY DEF Requesting

\* Each step keeps the types of the variables.
LEMMA TypeCorrect == IInv /\ [Next]_vars => TypeOK'
<1> SUFFICES ASSUME TypeOK, TokensAreKnown, ActsWithCookie, [Next]_vars
             PROVE  TypeOK'
  BY DEF IInv
<1> USE FreeIsTyped DEF TypeOK, tables, history
<1>0. req \in [Requests -> Requesting]
  BY DEF Requesting
<1>1. ASSUME NEW r \in Requests, NEW kind \in Kinds \ {"none"},
             NEW token \in held \cup {NoToken}, NEW user \in Users,
             NEW asks \in Asks, Arrive(r, kind, token, user, asks)
      PROVE  TypeOK'
  <2>1. FirstStep(kind) \in Steps
    BY DEF FirstStep, Steps, Kinds
  <2> DEFINE kept == IF token # NoToken /\ (PastBoundary(kind) \/ IsLive(token))
                     THEN token ELSE NoToken
             q == Opened(FirstStep(kind), kind, kept, token \in ended, user,
                         asks)
  <2>2. kept \in Token \cup {NoToken}
    OBVIOUS
  <2> HIDE DEF kept
  <2>3. q \in Requesting
    BY <2>1, <2>2 DEF Opened, Requesting, Row, NoRow
  <2>4. req' = [req EXCEPT ![r] = q]
    BY <1>1 DEF Arrive, kept
  <2> HIDE DEF q
  <2>5. req' \in [Requests -> Requesting]
    BY <1>0, <2>3, <2>4
  <2> QED
    BY <1>1, <2>5 DEF Arrive, Requesting
<1>2. ASSUME NEW r \in Requests,
             Admit(r) \/ Act(r) \/ Refuse(r) \/ Lookup(r) \/ Read(r)
             \/ Reread(r) \/ Die(r)
      PROVE  TypeOK'
  BY <1>2 DEF Requesting, Admit, Act, Refuse, Lookup, Read, Reread, Die, Step,
              Finish, Steps
<1>3. ASSUME NEW r \in Requests, IssueSystem(r) PROVE TypeOK'
  <2>1. NewToken(req[r].cookie.uid, now, SystemReauth(r), "system") \in Token
    BY <1>3 DEF IssueSystem, Authorized, HasActor, NewToken, SystemReauth,
                Token, Time
  <2>2. req' \in [Requests -> Requesting]
    BY <1>0, <1>3, <2>1, IssuingIsTyped DEF IssueSystem, Steps
  <2> QED
    BY <1>3, <2>2 DEF IssueSystem, Requesting
<1>4. ASSUME NEW r \in Requests, Issue(r) PROVE TypeOK'
  <2> DEFINE mode == IF req[r].cookie # NoToken /\ req[r].cookie.exp > now
                        /\ req[r].cookie.mode = "system"
                        /\ req[r].user = SystemUser THEN "system" ELSE "user"
  <2>1. NewToken(req[r].user, now, now, mode) \in Token
    BY DEF NewToken, Token, Time
  <2>2. req' \in [Requests -> Requesting]
    BY <1>0, <1>4, <2>1, IssuingIsTyped DEF Issue, Steps
  <2>3. users' \in [Users -> Row]
    BY <1>4 DEF Issue, Greeted, Active, Row
  <2> QED
    BY <1>4, <2>2, <2>3 DEF Issue, Requesting
<1>5. ASSUME NEW r \in Requests, Write(r) PROVE TypeOK'
  <2>1. req[r].saw \in Row /\ req[r].asks \in Asks
    BY <1>0 DEF Requesting
  <2>2. Asked(req[r].asks.role, req[r].saw.role)
          \in {"viewer", "editor", "manager"}
    BY <2>1 DEF Asked, Asks, NoAsk, Row
  <2>3. Asked(req[r].asks.status, req[r].saw.status)
          \in {"active", "disabled"}
    BY <2>1 DEF Asked, Asks, NoAsk, Row
  <2>4. Written(r) \in Row
    BY <2>2, <2>3 DEF Written, Active, Row
  <2>5. req' \in [Requests -> Requesting]
    BY <1>0, <1>5, DoomingIsTyped DEF Write, Steps
  <2> QED
    BY <1>5, <2>4, <2>5 DEF Write, Requesting
<1>6. ASSUME NEW r \in Requests, Register(r) PROVE TypeOK'
  BY <1>6 DEF Requesting, Register, Inserted, Step, Finish, Steps, TokensAreKnown
<1>7. ASSUME NEW r \in Requests, Replace(r) PROVE TypeOK'
  BY <1>7 DEF Requesting, Replace, Revoke, Finish, TokensAreKnown
<1>8. ASSUME NEW r \in Requests, Clear(r) \/ Sweep(r) PROVE TypeOK'
  BY <1>8 DEF Requesting, Clear, Sweep, Suspended, Revoke, Finish
<1>9. ASSUME CleanUp \/ Tick PROVE TypeOK'
  BY <1>9 DEF CleanUp, Tick, Time
<1>10. CASE UNCHANGED vars
  BY <1>10 DEF vars
<1> QED
  BY <1>1, <1>2, <1>3, <1>4, <1>5, <1>6, <1>7, <1>8, <1>9, <1>10 DEF Next

\* The actions of a request that change nothing but the request itself, short of
\* those that issue a token.
Quiet(r) == Admit(r) \/ Act(r) \/ Refuse(r) \/ Lookup(r) \/ Read(r)
            \/ Reread(r) \/ Die(r)

Kept(q) == /\ req'[q].cookie = req[q].cookie /\ req'[q].late = req[q].late
           /\ req'[q].user = req[q].user /\ req'[q].issued = req[q].issued
           /\ req'[q].dooms = req[q].dooms /\ req'[q].kind = req[q].kind
Freed(q) == /\ req'[q].step = "free" /\ req'[q].cookie = NoToken
            /\ req'[q].kind = "none"
            /\ req'[q].issued = NoToken /\ req'[q].dooms = {}

\* What becomes of the requests when one goes on, or is through.
LEMMA Stepped ==
    ASSUME TypeOK, NEW r \in Requests, NEW s, Step(r, s)
    PROVE  \A q \in Requests :
             Kept(q) /\ req'[q].step = IF q = r THEN s ELSE req[q].step
  BY DEF TypeOK, Step, Kept

LEMMA Finished ==
    ASSUME TypeOK, NEW r \in Requests, Finish(r)
    PROVE  \A q \in Requests :
             IF q = r THEN Freed(q) ELSE Kept(q) /\ req'[q].step = req[q].step
  BY DEF TypeOK, Finish, Kept, Freed, Free, Opened

\* A quiet step ends its request or takes it to a step with no new token; it
\* acts only for a live cookie.
LEMMA QuietKeeps ==
    ASSUME TypeOK, NEW r \in Requests, Quiet(r)
    PROVE  /\ UNCHANGED <<now, live, revoked, held, history, users>>
           /\ \A q \in Requests :
                \/ Freed(q)
                \/ Kept(q) /\ req'[q].step = req[q].step
                \/ Kept(q) /\ req'[q].step \in Acting \cup {"issue"}
                   /\ (req'[q].step \in Acting =>
                        req[q].step \in Acting \/ req[q].cookie # NoToken)
                   /\ (req'[q].step = "issue" => req[q].step = "lookup")
                   /\ (req[q].kind = "favorite" =>
                        req'[q].step = "act" \/ req[q].step = "lookup")
<1> DEFINE Goal ==
      /\ UNCHANGED <<now, live, revoked, held, history, users>>
      /\ \A q \in Requests :
           \/ Freed(q)
           \/ Kept(q) /\ req'[q].step = req[q].step
           \/ Kept(q) /\ req'[q].step \in Acting \cup {"issue"}
              /\ (req'[q].step \in Acting =>
                   req[q].step \in Acting \/ req[q].cookie # NoToken)
              /\ (req'[q].step = "issue" => req[q].step = "lookup")
              /\ (req[q].kind = "favorite" =>
                   req'[q].step = "act" \/ req[q].step = "lookup")
<1> USE DEF tables, Acting
<1>1. ASSUME Admit(r) PROVE Goal
  BY <1>1, Stepped DEF Admit, Authorized, HasActor
<1>2. ASSUME Act(r) \/ Refuse(r) \/ Die(r) PROVE Goal
  BY <1>2, Finished DEF Act, Refuse, Die
<1>3. ASSUME Lookup(r) \/ Read(r) PROVE Goal
  BY <1>3 DEF Lookup, Read, Authorized, HasActor, TypeOK, Kept
<1>4. ASSUME Reread(r) PROVE Goal
  BY <1>4, Finished, Stepped DEF Reread
<1> QED
  BY <1>1, <1>2, <1>3, <1>4 DEF Quiet

\* Each step keeps the row of a revoked session while its token runs.
LEMMA EndedStaysRevoked == IInv /\ [Next]_vars => EndedStayRevoked'
<1> SUFFICES ASSUME TypeOK, EndedStayRevoked, [Next]_vars
             PROVE  EndedStayRevoked'
  BY DEF IInv
<1> USE DEF EndedStayRevoked, Past, tables, history
<1>1. ASSUME NEW r \in Requests,
             Replace(r) \/ Clear(r) \/ Sweep(r)
      PROVE  EndedStayRevoked'
  BY <1>1 DEF Replace, Clear, Sweep, Suspended, Revoke
<1>2. ASSUME CleanUp PROVE EndedStayRevoked'
  BY <1>2 DEF CleanUp, Removable
<1>3. ASSUME Tick PROVE EndedStayRevoked'
  BY <1>3 DEF Tick, TypeOK, Time, Token
<1>4. ASSUME NEW r \in Requests, Quiet(r) PROVE EndedStayRevoked'
  BY <1>4, QuietKeeps
<1>5. ASSUME NEW r \in Requests,
             IssueSystem(r) \/ Issue(r) \/ Write(r) \/ Register(r)
      PROVE  EndedStayRevoked'
  BY <1>5 DEF IssueSystem, Issue, Write, Register
<1>6. ASSUME NEW r \in Requests, NEW kind \in Kinds \ {"none"},
             NEW token \in held \cup {NoToken}, NEW user \in Users,
             NEW asks \in Asks, Arrive(r, kind, token, user, asks)
      PROVE  EndedStayRevoked'
  BY <1>6 DEF Arrive
<1>7. CASE UNCHANGED vars
  BY <1>7 DEF vars
<1> QED
  BY <1>1, <1>2, <1>3, <1>4, <1>5, <1>6, <1>7 DEF Next, Quiet

\* Each step keeps that who acts has a cookie, of a session that had not ended
\* except for favorites.
LEMMA ActingHasCookie == IInv /\ [Next]_vars => ActsWithCookie'
<1> SUFFICES ASSUME TypeOK, EndedStayRevoked, ActsWithCookie, [Next]_vars
             PROVE  ActsWithCookie'
  BY DEF IInv
<1> USE DEF ActsWithCookie, Acting
<1>1. ASSUME NEW r \in Requests, NEW kind \in Kinds \ {"none"},
             NEW token \in held \cup {NoToken}, NEW user \in Users,
             NEW asks \in Asks, Arrive(r, kind, token, user, asks)
      PROVE  ActsWithCookie'
  <2>1. token # NoToken /\ IsLive(token) => token \notin ended
    BY DEF IsLive, EndedStayRevoked, Past, Token, TypeOK, Time
  <2>2. /\ FirstStep(kind) \in {"lookup", "clear", "admit"}
        /\ FirstStep(kind) = "lookup" => kind = "login"
        /\ kind = "favorite" => FirstStep(kind) = "admit"
    BY DEF FirstStep
  <2>3. PICK kept : /\ kept # NoToken => token \notin ended \/ kind = "favorite"
                    /\ req' = [req EXCEPT ![r] =
                                 Opened(FirstStep(kind), kind, kept,
                                        token \in ended, user, asks)]
    BY <1>1, <2>1 DEF Arrive, PastBoundary
  <2> QED
    BY <2>2, <2>3 DEF TypeOK, Opened
<1>2. ASSUME NEW r \in Requests, Quiet(r) PROVE ActsWithCookie'
  BY <1>2, QuietKeeps DEF Freed, Kept
<1>3. ASSUME NEW r \in Requests, Replace(r) \/ Clear(r) \/ Sweep(r)
      PROVE  ActsWithCookie'
  BY <1>3, Finished DEF Replace, Clear, Sweep, Freed, Kept
<1>4. ASSUME NEW r \in Requests, Register(r) PROVE ActsWithCookie'
  BY <1>4, Finished, Stepped DEF Register, Freed, Kept
<1>5. ASSUME NEW r \in Requests, IssueSystem(r) \/ Issue(r)
      PROVE  ActsWithCookie'
  BY <1>5 DEF IssueSystem, Issue, TypeOK, Authorized, HasActor
<1>6. ASSUME NEW r \in Requests, Write(r) PROVE ActsWithCookie'
  BY <1>6 DEF Write, TypeOK
<1>7. ASSUME UNCHANGED req PROVE ActsWithCookie'
  BY <1>7
<1> QED
  BY <1>1, <1>2, <1>3, <1>4, <1>5, <1>6, <1>7 DEF Next, Quiet, vars, CleanUp, Tick

\* Each step keeps that tokens carry the time of a proof of identity.
LEMMA TokensStayProved == IInv /\ [Next]_vars => TokensAreProved'
<1> SUFFICES ASSUME TypeOK, TokensAreKnown, TokensAreProved, [Next]_vars
             PROVE  TokensAreProved'
  BY DEF IInv
<1> USE DEF TokensAreProved, Proved, tables, history
<1>1. ASSUME NEW r \in Requests, NEW kind \in Kinds \ {"none"},
             NEW token \in held \cup {NoToken}, NEW user \in Users,
             NEW asks \in Asks, Arrive(r, kind, token, user, asks)
      PROVE  TokensAreProved'
  BY <1>1 DEF Arrive, Opened, TypeOK
<1>2. ASSUME NEW r \in Requests, Quiet(r) PROVE TokensAreProved'
  BY <1>2, QuietKeeps DEF Freed, Kept
<1>3. ASSUME NEW r \in Requests, Write(r) PROVE TokensAreProved'
  BY <1>3 DEF Write, TypeOK
<1>4. ASSUME NEW r \in Requests, IssueSystem(r) PROVE TokensAreProved'
  BY <1>4 DEF IssueSystem, Authorized, HasActor, NewToken, SystemReauth, TypeOK
<1>5. ASSUME NEW r \in Requests, Issue(r) PROVE TokensAreProved'
  <2>1. proofs' = proofs \cup {<<req[r].user, now>>}
        /\ UNCHANGED <<live, held>>
    BY <1>5 DEF Issue
  <2>2. PICK mode : req' = [req EXCEPT ![r].step = "register",
             ![r].issued = NewToken(req[r].user, now, now, mode)]
    BY <1>5 DEF Issue
  <2> DEFINE t == NewToken(req[r].user, now, now, mode)
  <2>3. <<t.uid, t.reauth>> \in proofs'
    BY <2>1 DEF NewToken
  <2> HIDE DEF t
  <2>4. \A q \in Requests :
          /\ req'[q].cookie = req[q].cookie
          /\ req'[q].issued = IF q = r THEN t ELSE req[q].issued
    BY <2>2 DEF TypeOK, t
  <2> QED
    BY <2>1, <2>3, <2>4
<1>6. ASSUME NEW r \in Requests, Register(r) PROVE TokensAreProved'
  <2>1. live' \subseteq live \cup {req[r].issued} /\ UNCHANGED proofs
        /\ held' \subseteq held \cup {req[r].issued}
        /\ Proved(req[r].issued)
    BY <1>6 DEF Register, Inserted, TokensAreKnown
  <2> QED
    BY <1>6, <2>1, Finished, Stepped DEF Register, Freed, Kept
<1>7. ASSUME NEW r \in Requests, Replace(r) \/ Clear(r) \/ Sweep(r)
      PROVE  TokensAreProved'
  <2>1. live' \subseteq live /\ UNCHANGED proofs /\ Finish(r)
        /\ \/ held' = held
           \/ /\ held' = held \cup {req[r].issued}
              /\ Proved(req[r].issued)
    <3>1. CASE Replace(r)
      BY <3>1 DEF Replace, Revoke, TokensAreKnown
    <3>2. CASE Clear(r)
      BY <3>2 DEF Clear, Revoke
    <3>3. CASE Sweep(r)
      BY <3>3 DEF Sweep, Revoke
    <3> QED
      BY <1>7, <3>1, <3>2, <3>3
  <2> QED
    BY <2>1, Finished DEF Freed, Kept
<1>8. ASSUME CleanUp \/ Tick \/ UNCHANGED vars PROVE TokensAreProved'
  BY <1>8 DEF CleanUp, Tick, vars
<1> QED
  BY <1>1, <1>2, <1>3, <1>4, <1>5, <1>6, <1>7, <1>8 DEF Next, Quiet

\* A session leaves the live rows only by ending or running out, and neither is
\* ever undone.
LEMMA LiveOrGone ==
    ASSUME TypeOK, [Next]_vars
    PROVE  /\ live \subseteq live' \cup ended' \cup {t \in Token : t.exp <= now}
           /\ ended \subseteq ended'
           /\ now <= now' /\ now' \in Nat
<1> USE DEF TypeOK, tables, history, Time
<1>1. ASSUME NEW r \in Requests, Replace(r) \/ Clear(r) \/ Sweep(r)
      PROVE  /\ live \subseteq live' \cup ended' /\ ended \subseteq ended'
             /\ now' = now
  BY <1>1 DEF Replace, Clear, Sweep, Revoke
<1>2. ASSUME CleanUp
      PROVE  /\ live \subseteq live' \cup {t \in Token : t.exp <= now}
             /\ UNCHANGED <<now, ended>>
  BY <1>2 DEF CleanUp, Removable
<1>3. ASSUME Tick PROVE UNCHANGED <<live, ended>> /\ now' = now + 1
  BY <1>3 DEF Tick
<1>4. ASSUME NEW r \in Requests, Quiet(r) PROVE UNCHANGED <<live, ended, now>>
  BY <1>4, QuietKeeps
<1>5. ASSUME NEW r \in Requests,
             IssueSystem(r) \/ Issue(r) \/ Write(r) \/ Register(r)
      PROVE  live \subseteq live' /\ UNCHANGED <<ended, now>>
  BY <1>5 DEF IssueSystem, Issue, Write, Register
<1>6. ASSUME NEW r \in Requests, NEW kind \in Kinds \ {"none"},
             NEW token \in held \cup {NoToken}, NEW user \in Users,
             NEW asks \in Asks, Arrive(r, kind, token, user, asks)
      PROVE  UNCHANGED <<live, ended, now>>
  BY <1>6 DEF Arrive
<1>7. ASSUME UNCHANGED vars PROVE UNCHANGED <<live, ended, now>>
  BY <1>7 DEF vars
<1> DEFINE Goal ==
      /\ live \subseteq live' \cup ended' \cup {t \in Token : t.exp <= now}
      /\ ended \subseteq ended'
      /\ now <= now' /\ now' \in Nat
<1>8. ASSUME NEW r \in Requests, Replace(r) \/ Clear(r) \/ Sweep(r) PROVE Goal
  BY <1>1, <1>8
<1>9. ASSUME CleanUp \/ Tick \/ UNCHANGED vars PROVE Goal
  BY <1>2, <1>3, <1>7, <1>9
<1>10. ASSUME NEW r \in Requests,
              Quiet(r) \/ IssueSystem(r) \/ Issue(r) \/ Write(r) \/ Register(r)
       PROVE  Goal
  BY <1>4, <1>5, <1>10
<1>11. ASSUME NEW r \in Requests, NEW kind \in Kinds \ {"none"},
              NEW token \in held \cup {NoToken}, NEW user \in Users,
              NEW asks \in Asks, Arrive(r, kind, token, user, asks)
       PROVE  Goal
  BY <1>6, <1>11
<1> HIDE DEF Goal
<1>12. Goal
  BY <1>8, <1>9, <1>10, <1>11 DEF Next, Quiet
<1> QED
  BY <1>12 DEF Goal

\* Each step keeps that answered and doomed sessions are accounted for.
LEMMA TokensStayKnown == IInv /\ [Next]_vars => TokensAreKnown'
<1> SUFFICES ASSUME TypeOK, TokensAreKnown, EndedStayRevoked, [Next]_vars
             PROVE  TokensAreKnown'
  BY DEF IInv
<1>0. /\ \A t \in Token : t \in live \/ Gone(t) => (t \in live \/ Gone(t))'
      /\ \A t \in Token : Gone(t) => Gone(t)'
  BY LiveOrGone DEF Gone, Past, Token, TypeOK, Time
<1>00. /\ held \subseteq Token /\ swept \subseteq Token
       /\ \A q \in Requests : req[q].dooms \subseteq Token
                             /\ req[q].issued \in Token \cup {NoToken}
  BY DEF TypeOK
<1> USE <1>0, <1>00 DEF TokensAreKnown, tables, history
<1>1. ASSUME NEW r \in Requests, NEW kind \in Kinds \ {"none"},
             NEW token \in held \cup {NoToken}, NEW user \in Users,
             NEW asks \in Asks, Arrive(r, kind, token, user, asks)
      PROVE  TokensAreKnown'
  BY <1>1 DEF Arrive, Opened, FirstStep, TypeOK
<1>2. ASSUME NEW r \in Requests, Quiet(r) PROVE TokensAreKnown'
  BY <1>2, QuietKeeps DEF Freed, Kept, Acting
<1>3. ASSUME NEW r \in Requests, Write(r) PROVE TokensAreKnown'
  BY <1>3 DEF Write, TypeOK
<1>4. ASSUME NEW r \in Requests, IssueSystem(r) \/ Issue(r)
      PROVE  TokensAreKnown'
  <2>1. PICK t \in Token : req' = [req EXCEPT ![r].step = "register",
                                             ![r].issued = t]
    BY <1>4 DEF IssueSystem, Issue, Authorized, HasActor, NewToken, Token,
                SystemReauth, TypeOK, Time
  <2> QED
    BY <1>4, <2>1 DEF IssueSystem, Issue, TypeOK
<1>5. ASSUME NEW r \in Requests, Register(r) PROVE TokensAreKnown'
  <2>0. PICK t \in Token : t = req[r].issued
    BY <1>5 DEF Register
  <2>1. t \in live' \/ Gone(t)'
    BY <1>5, <2>0 DEF Register, Inserted, EndedStayRevoked, Gone
  <2>2. UNCHANGED swept /\ held' \subseteq held \cup {t}
    BY <1>5, <2>0 DEF Register
  <2>3. \A q \in Requests :
          \/ Freed(q)
          \/ Kept(q) /\ req'[q].step = req[q].step
          \/ Kept(q) /\ q = r /\ req'[q].step = "replace"
    <3>1. CASE Finish(r)
      BY <3>1, Finished
    <3>2. CASE Step(r, "replace")
      BY <3>2, Stepped
    <3> QED
      BY <1>5, <3>1, <3>2 DEF Register
  <2>4. \A q \in Requests : req'[q].step = "replace" =>
          req'[q].issued = t \/ (Kept(q) /\ req[q].step = "replace")
    BY <2>0, <2>3 DEF Freed, Kept
  <2>5. \A q \in Requests : req'[q].step \in {"register", "replace"} =>
          req'[q].issued # NoToken
    BY <1>5, <2>3 DEF Freed, Kept, Register
  <2> QED
    BY <2>1, <2>2, <2>3, <2>4, <2>5 DEF Freed, Kept
<1>6. ASSUME NEW r \in Requests, Replace(r) \/ Clear(r) PROVE TokensAreKnown'
  BY <1>6, Finished DEF Replace, Clear, Freed, Kept
<1>7. ASSUME NEW r \in Requests, Sweep(r) PROVE TokensAreKnown'
  <2>1. \A t \in req[r].dooms : Gone(t)'
    BY <1>7 DEF Sweep, Suspended, Revoke, Gone
  <2> QED
    BY <1>7, <2>1, Finished DEF Sweep, Freed, Kept
<1>8. ASSUME CleanUp \/ Tick \/ UNCHANGED vars PROVE TokensAreKnown'
  BY <1>8 DEF CleanUp, Tick, vars
<1> QED
  BY <1>1, <1>2, <1>3, <1>4, <1>5, <1>6, <1>7, <1>8 DEF Next, Quiet

\* The invariant holds in every reachable state.
THEOREM InvariantHolds == Spec => []IInv
<1>1. IInv /\ [Next]_vars => IInv'
  BY TypeCorrect, EndedStaysRevoked, ActingHasCookie, TokensStayProved,
     TokensStayKnown DEF IInv
<1> QED
  BY <1>1, InitEstablishesIInv, PTL DEF Spec

\* The variables keep their types.
THEOREM TypesHold == Spec => []TypeOK
<1>1. IInv => TypeOK
  BY DEF IInv
<1> QED
  BY <1>1, InvariantHolds, PTL

\* A revoked session is never live again while its token runs.
THEOREM Revocation == Spec => []RevocationIsFinal
<1>1. IInv => RevocationIsFinal
  BY DEF IInv, TypeOK, EndedStayRevoked, Past, RevocationIsFinal
<1> QED
  BY <1>1, InvariantHolds, PTL

\* A request with the cookie of a session that had ended reaches nothing but its
\* user's favorites.
THEOREM RevokedReach == Spec => []RevokedCookieReachesOnlyFavorites
<1>1. IInv => RevokedCookieReachesOnlyFavorites
  BY DEF IInv, ActsWithCookie, Acting, RevokedCookieReachesOnlyFavorites
<1> QED
  BY <1>1, InvariantHolds, PTL

\* An answered session is live, unless its token was revoked or has run out.
THEOREM AnsweredWork == Spec => []AnsweredSessionsWork
<1>1. IInv => AnsweredSessionsWork
  BY DEF IInv, TypeOK, TokensAreKnown, Gone, Past, AnsweredSessionsWork, Token,
         Time
<1> QED
  BY <1>1, InvariantHolds, PTL

\* A suspension that was answered has ended the sessions of its user for good.
THEOREM SuspendedDead == Spec => []SuspendedSessionsStayDead
<1>1. IInv => SuspendedSessionsStayDead
  BY DEF IInv, TypeOK, EndedStayRevoked, TokensAreKnown, Gone, Past,
         SuspendedSessionsStayDead
<1> QED
  BY <1>1, InvariantHolds, PTL

\* The site is reset only by a user who proved their identity in the window.
THEOREM ResetRecent == Spec => ResetNeedsRecentLogin
<1>1. IInv /\ [Next]_vars =>
        [\A r \in Requests :
           Act(r) /\ req[r].kind = "reset" =>
             \E p \in proofs : p[1] = req[r].cookie.uid
                               /\ now - p[2] <= ReauthWindow]_vars
  <2> SUFFICES ASSUME IInv, NEW r \in Requests, Act(r), req[r].kind = "reset"
               PROVE  \E p \in proofs : p[1] = req[r].cookie.uid
                                        /\ now - p[2] <= ReauthWindow
    OBVIOUS
  <2>1. Proved(req[r].cookie) /\ Fresh(r)
    BY DEF IInv, TokensAreProved, Act, Authorized, HasActor, OnAdmission
  <2>2. <<req[r].cookie.uid, req[r].cookie.reauth>> \in proofs
    BY <2>1 DEF Proved
  <2> WITNESS <<req[r].cookie.uid, req[r].cookie.reauth>> \in proofs
  <2> QED
    BY <2>1 DEF Fresh
<1> QED
  BY <1>1, InvariantHolds, PTL DEF Spec, ResetNeedsRecentLogin

\* Nothing but a team change ends a suspension.
THEOREM SuspensionLasts == Spec => SuspensionOutlastsLogins
<1>1. TypeOK /\ [Next]_vars =>
        [\A u \in Users :
           IsDisabled(users[u]) /\ ~IsDisabled(users'[u]) =>
             \E r \in Requests :
               /\ req[r].step = "write" /\ req[r].user = u
               /\ \/ req[r].kind = "invite"
                  \/ req[r].asks.status = "active"
                  \/ ~IsDisabled(req[r].saw)]_vars
  <2> SUFFICES ASSUME TypeOK, Next, NEW u \in Users, IsDisabled(users[u]),
                      ~IsDisabled(users'[u])
               PROVE  \E r \in Requests :
                        /\ req[r].step = "write" /\ req[r].user = u
                        /\ \/ req[r].kind = "invite"
                           \/ req[r].asks.status = "active"
                           \/ ~IsDisabled(req[r].saw)
    OBVIOUS
  <2>1. ASSUME NEW r \in Requests, Issue(r) PROVE FALSE
    BY <2>1 DEF Issue, Greeted, IsDisabled, TypeOK
  <2>2. ASSUME NEW r \in Requests, Write(r)
        PROVE  /\ req[r].step = "write" /\ req[r].user = u
               /\ \/ req[r].kind = "invite"
                  \/ req[r].asks.status = "active"
                  \/ ~IsDisabled(req[r].saw)
    <3>1. req[r].step = "write" /\ req[r].user = u /\ users'[u] = Written(r)
      BY <2>2 DEF Write, TypeOK
    <3>2. req[r].asks.status \in {Keep, "active", "disabled"}
      BY DEF TypeOK, Asks, NoAsk
    <3>3. Written(r).status # "disabled" \/ ~Written(r).known
      BY <3>1 DEF IsDisabled
    <3>4. CASE req[r].kind # "invite"
      <4>1. Asked(req[r].asks.status, req[r].saw.status) # "disabled"
        BY <3>3, <3>4 DEF Written
      <4>2. req[r].asks.status = "active" \/ req[r].saw.status # "disabled"
        BY <3>2, <4>1 DEF Asked
      <4> QED
        BY <3>1, <4>2 DEF IsDisabled
    <3> QED
      BY <3>1, <3>4
  <2>3. ASSUME NEW r \in Requests, Quiet(r) PROVE FALSE
    BY <2>3, QuietKeeps
  <2>4. ASSUME NEW r \in Requests, NEW kind, NEW token, NEW user, NEW asks,
               Arrive(r, kind, token, user, asks)
        PROVE  FALSE
    BY <2>4 DEF Arrive, tables
  <2>5. ASSUME NEW r \in Requests,
               IssueSystem(r) \/ Register(r) \/ Replace(r) \/ Clear(r) \/ Sweep(r)
        PROVE  FALSE
    BY <2>5 DEF IssueSystem, Register, Replace, Clear, Sweep, tables
  <2>6. ~CleanUp /\ ~Tick
    BY DEF CleanUp, Tick, tables
  <2> QED
    BY <2>1, <2>2, <2>3, <2>4, <2>5, <2>6 DEF Next, Quiet
<1> QED
  BY <1>1, TypesHold, PTL DEF Spec, SuspensionOutlastsLogins
=============================================================================
