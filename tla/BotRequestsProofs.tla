--------------------------- MODULE BotRequestsProofs ---------------------------
(***************************************************************************)
(* What holds of the bot's requests for any number of them, of calls under *)
(* way, of staff and of seconds.                                           *)
(*                                                                         *)
(* The inductive invariant follows a nonce: its row is kept for as long as *)
(* a call may still bring it, so that at most one call is ever past        *)
(* authentication with it. Since a challenge is named after the nonce of   *)
(* the request that made it, a challenge is made once, and what was spent  *)
(* cannot be made anew. A verified challenge has the proof it was verified *)
(* with.                                                                   *)
(***************************************************************************)
EXTENDS BotRequests, TLAPS

\* The call has passed authentication.
Past(c) == call[c].step \notin {"free", "nonce", "verify"}

\* The operations whose calls come to a step after authentication.
OpsAt(step) ==
    CASE step = "actor" -> Ops
      [] step = "sync" -> {"sync"}
      [] step = "create" -> {"challenge"}
      [] step \in {"look", "expire"} -> {"look"}
      [] step = "consume" -> {"revert"}
      [] OTHER -> Ops

\* The last time at which a call may still insert the nonce.
LastCall(n) == sent[n].ts + Skew + Latency

\* Clocks are not ahead of time, and a call that waits to insert its nonce was
\* made in its request's window.
CallsAreTimely ==
    \A c \in Calls :
        /\ call[c].at <= now
        /\ call[c].step = "nonce" =>
             /\ sent[call[c].nonce] # Unsent
             /\ call[c].at <= sent[call[c].nonce].ts + Skew
             /\ sent[call[c].nonce].ts <= call[c].at + Skew

\* A nonce that was admitted keeps its row until no call can bring it again.
NoncesAreKept ==
    /\ \A row \in nonces :
         sent[row.nonce] # Unsent /\ row.ends > LastCall(row.nonce)
    /\ \A n \in Nonces :
         \/ admitted[n] = 0
         \/ /\ admitted[n] = 1 /\ sent[n] # Unsent
            /\ Seen(n) \/ now > LastCall(n)

\* One call at most is past authentication with a nonce, at a step for its
\* operation.
CallsAreDistinct ==
    /\ \A c \in Calls :
         Past(c) => /\ sent[call[c].nonce] # Unsent
                    /\ admitted[call[c].nonce] = 1
                    /\ Msg(c).op \in OpsAt(call[c].step)
    /\ \A c, d \in Calls :
         Past(c) /\ Past(d) /\ call[c].nonce = call[d].nonce => c = d

\* The request that names a challenge is over when there is a row, or a revert
\* spent it: nothing can make the challenge again.
Made(k) == challenges[k].status # "none" \/ \E s \in spent : s.challenge = k
ChallengesAreMadeOnce ==
    \A k \in Nonces : Made(k) =>
        /\ admitted[k] = 1
        /\ \A c \in Calls : Past(c) => call[c].nonce # k

\* What was spent is consumed, or forgotten.
SpentStaySpent ==
    \A s \in spent : challenges[s.challenge].status \in {"none", "consumed"}

\* A challenge ends within its time, counted from a proof if it is verified.
Proof(k, p) == /\ p.challenge = k /\ p.who = challenges[k].actor
               /\ challenges[k].ends <= p.at + ChallengeTTL
VerifiedAreProved ==
    \A k \in Nonces :
        /\ challenges[k].status # "none" =>
             challenges[k].ends <= now + ChallengeTTL
        /\ challenges[k].status = "verified" => \E p \in proofs : Proof(k, p)

IInv ==
    /\ TypeOK
    /\ CallsAreTimely
    /\ NoncesAreKept
    /\ CallsAreDistinct
    /\ ChallengesAreMadeOnce
    /\ SpentStaySpent
    /\ VerifiedAreProved
    /\ VerificationUsedOnce
    /\ RevertsWereVerified
    /\ DelegatedSessionIsOwn

USE DurationAssumption, NonceAssumption, WantedAssumption, SentinelAssumption

\* Before any request, the invariant holds.
LEMMA InitEstablishesIInv == Init => IInv
<1> SUFFICES ASSUME Init PROVE IInv
  OBVIOUS
<1>1. TypeOK
  BY DEF Init, TypeOK, Time, Free, Challenge, NoChallenge, Status
<1>2. \A c \in Calls : call[c] = Free /\ ~Past(c)
  BY DEF Init, Past, Free
<1>3. CallsAreTimely
  BY <1>2 DEF CallsAreTimely, Init, Free
<1>4. NoncesAreKept /\ CallsAreDistinct
  BY <1>2 DEF NoncesAreKept, CallsAreDistinct, Init
<1>5. ChallengesAreMadeOnce /\ SpentStaySpent /\ VerifiedAreProved
  BY DEF ChallengesAreMadeOnce, SpentStaySpent, VerifiedAreProved, Made, Init,
         NoChallenge
<1>6. VerificationUsedOnce /\ RevertsWereVerified /\ DelegatedSessionIsOwn
  BY <1>2 DEF VerificationUsedOnce, RevertsWereVerified, DelegatedSessionIsOwn,
     Init, Free
<1> QED
  BY <1>1, <1>3, <1>4, <1>5, <1>6 DEF IInv

-----------------------------------------------------------------------------
(* Calls.                                                                  *)

\* A call that is under way has a nonce, a person and a time.
LEMMA CallTypes ==
    ASSUME TypeOK, NEW c \in Calls, call[c].step # "free"
    PROVE  call[c] \in CallRecord
  BY DEF TypeOK, Free

\* The request of a call past authentication was sent.
LEMMA RequestTypes ==
    ASSUME TypeOK, CallsAreTimely, CallsAreDistinct, NEW c \in Calls,
           Past(c) \/ call[c].step = "nonce"
    PROVE  Msg(c) \in Request
<1>1. call[c].nonce \in Nonces
  BY CallTypes DEF CallRecord, Past
<1> QED
  BY <1>1 DEF TypeOK, Msg, CallsAreTimely, CallsAreDistinct

\* Going on changes the step, and at times the time.
LEMMA Goes ==
    ASSUME TypeOK, NEW c \in Calls, call[c].step # "free",
           NEW step \in Steps \ {"free"}, Step(c, step) \/ StepAt(c, step)
    PROVE  /\ call'[c] \in CallRecord
           /\ call'[c].step = step
           /\ call'[c].nonce = call[c].nonce /\ call'[c].who = call[c].who
           /\ call'[c].at \in {call[c].at, now}
           /\ Step(c, step) => call'[c].at = call[c].at
           /\ \A d \in Calls : d # c => call'[d] = call[d]
           /\ call' \in [Calls -> CallRecord \cup {Free}]
<1>1. call[c] \in CallRecord
  BY CallTypes
<1>2. CASE Step(c, step)
  BY <1>1, <1>2 DEF TypeOK, Step, CallRecord
<1>3. CASE StepAt(c, step)
  BY <1>1, <1>3 DEF TypeOK, Step, StepAt, CallRecord
<1> QED
  BY <1>2, <1>3

\* Finishing frees the call.
LEMMA Finishes ==
    ASSUME TypeOK, NEW c \in Calls, Finish(c)
    PROVE  /\ call'[c] = Free
           /\ \A d \in Calls : d # c => call'[d] = call[d]
           /\ call' \in [Calls -> CallRecord \cup {Free}]
  BY DEF TypeOK, Finish

\* Coming in makes a call.
LEMMA ComesIn ==
    ASSUME TypeOK, NEW c \in Calls, NEW step \in Steps \ {"free"},
           NEW n \in Nonces, NEW who \in Actors,
           call' = [call EXCEPT ![c] = NewCall(step, n, who)]
    PROVE  /\ call'[c] = NewCall(step, n, who)
           /\ \A d \in Calls : d # c => call'[d] = call[d]
           /\ call' \in [Calls -> CallRecord \cup {Free}]
  BY DEF TypeOK, NewCall, CallRecord

\* What the bot may have signed is a request.
LEMMA SignedTypes ==
    ASSUME TypeOK, NEW n \in Nonces, NEW m \in Signed(n)
    PROVE  m \in Request /\ (sent[n] # Unsent => m = sent[n])
<1>1. CASE sent[n] # Unsent
  BY <1>1 DEF TypeOK, Signed
<1>2. CASE sent[n] = Unsent
  <2>1. Wanted[n] \subseteq Ops
    OBVIOUS
  <2>2. m \in [ts : Time, actor : Actors, op : Wanted[n], challenge : Nonces]
    BY <1>2 DEF Signed
  <2> QED
    BY <1>2, <2>1, <2>2 DEF Request
<1> QED
  BY <1>1, <1>2

\* Each step keeps the types of the variables.
LEMMA TypeCorrect ==
    TypeOK /\ CallsAreTimely /\ CallsAreDistinct /\ [Next]_vars => TypeOK'
<1> SUFFICES ASSUME TypeOK, CallsAreTimely, CallsAreDistinct, [Next]_vars
             PROVE  TypeOK'
  OBVIOUS
<1> DEFINE Moving == call' \in [Calls -> CallRecord \cup {Free}]
<1> USE DEF tables, history
<1>1. ASSUME NEW c \in Calls, NEW n \in Nonces, NEW m \in Signed(n),
             Receive(c, n, m)
      PROVE  TypeOK'
  <2>1. m \in Request
    BY SignedTypes
  <2>2. Moving
    BY <1>1, <2>1, ComesIn DEF Receive, Steps, Request
  <2>3. sent' \in [Nonces -> Request \cup {Unsent}]
    BY <1>1, <2>1 DEF Receive, TypeOK
  <2> QED
    BY <1>1, <2>2, <2>3 DEF Receive, TypeOK
<1>2. ASSUME NEW c \in Calls, NEW k \in Nonces, NEW who \in Actors,
             Callback(c, k, who)
      PROVE  TypeOK'
  <2>1. Moving
    BY <1>2, ComesIn DEF Callback, Steps
  <2> QED
    BY <1>2, <2>1 DEF Callback, TypeOK
<1>3. ASSUME NEW c \in Calls,
             \/ \E role \in Roles : LoadActor(c, role) \/ Perform(c, role)
             \/ RefuseNonce(c) \/ Sync(c) \/ LookAtChallenge(c) \/ Die(c)
      PROVE  TypeOK'
  <2>1. \A op : FirstStep(op) \in Steps \ {"free"}
    BY DEF FirstStep, Steps
  <2>2. call[c].step # "free"
    BY <1>3 DEF LoadActor, Perform, RefuseNonce, Sync, LookAtChallenge, Die
  <2>3. Moving
    <3>1. \/ Finish(c)
          \/ \E step \in Steps \ {"free"} : Step(c, step) \/ StepAt(c, step)
      BY <1>3, <2>1 DEF LoadActor, Perform, RefuseNonce, Sync, LookAtChallenge,
         Die, Steps
    <3> QED
      BY <2>2, <3>1, Finishes, Goes
  <2> QED
    BY <1>3, <2>3 DEF LoadActor, Perform, RefuseNonce, Sync, LookAtChallenge,
       Die, TypeOK
<1>4. ASSUME NEW c \in Calls, ConsumeNonce(c) PROVE TypeOK'
  <2>1. call[c] \in CallRecord /\ call[c].nonce \in Nonces
    BY <1>4, CallTypes DEF ConsumeNonce, CallRecord
  <2>2. Moving
    BY <1>4, Goes DEF ConsumeNonce, Steps
  <2>3. nonces' \subseteq NonceRow
    BY <1>4, <2>1 DEF ConsumeNonce, TypeOK, NonceRow, NonceEnds, CallRecord, Time
  <2>4. admitted' \in [Nonces -> Nat]
    BY <1>4, <2>1 DEF ConsumeNonce, TypeOK
  <2> QED
    BY <1>4, <2>2, <2>3, <2>4 DEF ConsumeNonce, TypeOK
<1>5. ASSUME NEW c \in Calls, CreateChallenge(c) \/ ExpireChallenge(c)
      PROVE  TypeOK'
  <2>1. Msg(c) \in Request /\ call[c] \in CallRecord
    BY <1>5, RequestTypes, CallTypes DEF CreateChallenge, ExpireChallenge, Past
  <2>2. Moving
    BY <1>5, Finishes DEF CreateChallenge, ExpireChallenge
  <2>3. challenges' \in [Nonces -> Challenge]
    BY <1>5, <2>1 DEF CreateChallenge, ExpireChallenge, TypeOK, Challenge, Status,
       Request, CallRecord, Actor, Time
  <2> QED
    BY <1>5, <2>2, <2>3 DEF CreateChallenge, ExpireChallenge, TypeOK
<1>6. ASSUME NEW c \in Calls, ConsumeChallenge(c) PROVE TypeOK'
  <2>1. Msg(c) \in Request /\ call[c] \in CallRecord
    BY <1>6, RequestTypes, CallTypes DEF ConsumeChallenge, Past
  <2>2. Moving
    BY <1>6, Finishes, Goes DEF ConsumeChallenge, Steps
  <2>3. challenges' \in [Nonces -> Challenge]
    BY <1>6, <2>1 DEF ConsumeChallenge, TypeOK, Challenge, Status, Request
  <2>4. spent' \subseteq [challenge : Nonces, nonce : Nonces, actor : Actors,
                          at : Time]
    BY <1>6, <2>1 DEF ConsumeChallenge, TypeOK, Request, CallRecord, Actor
  <2> QED
    BY <1>6, <2>2, <2>3, <2>4 DEF ConsumeChallenge, TypeOK
<1>7. ASSUME NEW c \in Calls, Verify(c) PROVE TypeOK'
  <2>1. call[c] \in CallRecord
    BY <1>7, CallTypes DEF Verify
  <2>2. Moving
    BY <1>7, Finishes DEF Verify
  <2>3. challenges' \in [Nonces -> Challenge]
    BY <1>7, <2>1 DEF Verify, TypeOK, Challenge, Status, CallRecord
  <2>4. proofs' \subseteq [challenge : Nonces, who : Actors, at : Time]
    BY <1>7, <2>1 DEF Verify, TypeOK, CallRecord
  <2> QED
    BY <1>7, <2>2, <2>3, <2>4 DEF Verify, TypeOK
<1>8. ASSUME NEW c \in Calls, OpenSession(c) \/ CloseSession(c) PROVE TypeOK'
  <2>1. Msg(c) \in Request /\ call[c] \in CallRecord
    BY <1>8, RequestTypes, CallTypes DEF OpenSession, CloseSession, Past
  <2>2. TokenOf(c) \in Token
    BY <2>1 DEF TokenOf, Token, Request, CallRecord, Actor
  <2>3. Moving
    BY <1>8, Finishes, Goes DEF OpenSession, CloseSession, Steps
  <2>4. live' \subseteq Token /\ dead' \subseteq Token /\ live' \cap dead' = {}
    BY <1>8, <2>2 DEF OpenSession, CloseSession, Insertable, TypeOK
  <2> QED
    BY <1>8, <2>3, <2>4 DEF OpenSession, CloseSession, TypeOK
<1>9. ASSUME NEW row \in nonces, ForgetNonces(row) PROVE TypeOK'
  BY <1>9 DEF ForgetNonces, TypeOK
<1>10. ASSUME NEW k \in Nonces, ForgetChallenge(k) PROVE TypeOK'
  BY <1>10 DEF ForgetChallenge, TypeOK, Challenge, NoChallenge, Status
<1>11. ASSUME NEW t \in live \cup dead, ForgetSession(t) PROVE TypeOK'
  BY <1>11 DEF ForgetSession, TypeOK
<1>12. CASE Tick
  BY <1>12 DEF Tick, TypeOK, Time
<1>13. CASE UNCHANGED vars
  BY <1>13 DEF vars, TypeOK
<1> QED
  BY <1>1, <1>2, <1>3, <1>4, <1>5, <1>6, <1>7, <1>8, <1>9, <1>10, <1>11,
     <1>12, <1>13 DEF Next

\* A request that was signed stays what it is.
LEMMA SentStays ==
    TypeOK /\ [Next]_vars =>
        /\ sent' \in [Nonces -> Request \cup {Unsent}]
        /\ \A n \in Nonces : sent[n] # Unsent => sent'[n] = sent[n]
<1> SUFFICES ASSUME TypeOK, [Next]_vars
             PROVE  /\ sent' \in [Nonces -> Request \cup {Unsent}]
                    /\ \A n \in Nonces : sent[n] # Unsent => sent'[n] = sent[n]
  OBVIOUS
<1>1. CASE UNCHANGED sent
  BY <1>1 DEF TypeOK
<1>2. ASSUME NEW c \in Calls, NEW n \in Nonces, NEW m \in Signed(n),
             Receive(c, n, m)
      PROVE  /\ sent' \in [Nonces -> Request \cup {Unsent}]
             /\ \A k \in Nonces : sent[k] # Unsent => sent'[k] = sent[k]
  BY <1>2, SignedTypes DEF Receive, TypeOK
<1>3. UNCHANGED sent
      \/ \E c \in Calls, n \in Nonces : \E m \in Signed(n) : Receive(c, n, m)
  BY DEF Next, vars, Callback, LoadActor, Perform, ConsumeNonce, RefuseNonce, Sync,
     CreateChallenge, LookAtChallenge, ExpireChallenge, ConsumeChallenge, Verify,
     OpenSession, CloseSession, Die, ForgetNonces, ForgetChallenge, ForgetSession,
     Tick
<1> QED
  BY <1>1, <1>2, <1>3

\* A call past authentication goes on to a step for its operation, or over it.
GoesOn(c) ==
    /\ Past(c) /\ Past(c)'
    /\ call'[c].nonce = call[c].nonce /\ call'[c].at \in {call[c].at, now}
    /\ Msg(c).op \in OpsAt(call'[c].step)
    /\ now' = now

\* What a step does to any one call.
CallMoves(c) ==
    \/ call'[c] = call[c]
    \/ call'[c] = Free
    \/ \E n \in Nonces : \E m \in Signed(n) :
         Receive(c, n, m) /\ call'[c] = NewCall("nonce", n, m.actor)
    \/ \E k \in Nonces, who \in Actors : call'[c] = NewCall("verify", k, who)
    \/ ConsumeNonce(c) /\ Past(c)' /\ call'[c].nonce = call[c].nonce
       /\ call'[c].at = call[c].at /\ Msg(c).op \in OpsAt(call'[c].step)
    \/ GoesOn(c)

\* No step does anything else to a call.
LEMMA AnyCallMoves ==
    TypeOK /\ CallsAreTimely /\ CallsAreDistinct /\ [Next]_vars =>
        \A c \in Calls : CallMoves(c)
<1> SUFFICES ASSUME TypeOK, CallsAreTimely, CallsAreDistinct, [Next]_vars,
                    NEW d \in Calls
             PROVE  CallMoves(d)
  OBVIOUS
<1> USE DEF CallMoves
<1>1. ASSUME NEW c \in Calls, NEW n \in Nonces, NEW m \in Signed(n),
             Receive(c, n, m)
      PROVE  CallMoves(d)
  <2>1. m \in Request
    BY SignedTypes
  <2> QED
    BY <1>1, <2>1, ComesIn DEF Receive, Steps, Request
<1>2. ASSUME NEW c \in Calls, NEW k \in Nonces, NEW who \in Actors,
             Callback(c, k, who)
      PROVE  CallMoves(d)
  BY <1>2, ComesIn DEF Callback, Steps
<1>3. ASSUME NEW c \in Calls, Finish(c) PROVE CallMoves(d)
  BY <1>3, Finishes
<1>4. ASSUME NEW c \in Calls, ConsumeNonce(c) PROVE CallMoves(d)
  <2>1. Msg(c) \in Request
    BY <1>4, RequestTypes DEF ConsumeNonce
  <2> DEFINE next == IF Msg(c).op = "sync" THEN "sync" ELSE "actor"
  <2>2. next \in Steps \ {"free", "nonce", "verify"} /\ Msg(c).op \in OpsAt(next)
    BY <2>1 DEF Steps, OpsAt, Request
  <2>3. Step(c, next) /\ call[c].step # "free"
    BY <1>4 DEF ConsumeNonce
  <2> HIDE DEF next
  <2>4. call'[c].step = next /\ call'[c].nonce = call[c].nonce
        /\ call'[c].at = call[c].at
        /\ \A e \in Calls : e # c => call'[e] = call[e]
    BY <2>2, <2>3, Goes
  <2> QED
    BY <1>4, <2>2, <2>4 DEF Past
<1>5. ASSUME NEW c \in Calls, Past(c), UNCHANGED now,
             NEW step \in Steps \ {"free", "nonce", "verify"},
             Step(c, step) \/ StepAt(c, step), Msg(c).op \in OpsAt(step)
      PROVE  CallMoves(d)
  <2>1. call'[c].step = step /\ call'[c].nonce = call[c].nonce
        /\ call'[c].at \in {call[c].at, now}
        /\ \A e \in Calls : e # c => call'[e] = call[e]
    BY <1>5, Goes DEF Past
  <2> QED
    BY <1>5, <2>1 DEF Past, GoesOn
<1>6. ASSUME NEW c \in Calls, NEW role \in Roles,
             LoadActor(c, role) \/ Perform(c, role)
      PROVE  CallMoves(d)
  <2>1. Msg(c) \in Request /\ Past(c)
    BY <1>6, RequestTypes DEF LoadActor, Perform, Past
  <2>2. FirstStep(Msg(c).op) \in Steps \ {"free", "nonce", "verify"}
        /\ Msg(c).op \in OpsAt(FirstStep(Msg(c).op))
    BY <2>1 DEF FirstStep, OpsAt, Steps, Request, Ops
  <2>3. Msg(c).op \in OpsAt("close")
    BY <2>1 DEF OpsAt, Request
  <2> QED
    BY <1>3, <1>5, <1>6, <2>1, <2>2, <2>3 DEF LoadActor, Perform, Steps
<1>7. ASSUME NEW c \in Calls,
             LookAtChallenge(c) \/ ConsumeChallenge(c) \/ OpenSession(c)
      PROVE  CallMoves(d)
  <2>1. Msg(c) \in Request /\ Past(c) /\ Msg(c).op \in OpsAt(call[c].step)
    BY <1>7, RequestTypes DEF LookAtChallenge, ConsumeChallenge, OpenSession, Past,
       CallsAreDistinct
  <2>2. Msg(c).op \in OpsAt("open") /\ Msg(c).op \in OpsAt("base")
    BY <2>1 DEF OpsAt, Request
  <2>3. LookAtChallenge(c) => Msg(c).op \in OpsAt("expire")
    BY <2>1 DEF OpsAt, LookAtChallenge
  <2> QED
    BY <1>3, <1>5, <1>7, <2>1, <2>2, <2>3
       DEF LookAtChallenge, ConsumeChallenge, OpenSession, Steps
<1>8. ASSUME NEW c \in Calls,
             \/ RefuseNonce(c) \/ Sync(c) \/ CreateChallenge(c)
             \/ ExpireChallenge(c) \/ Verify(c) \/ CloseSession(c) \/ Die(c)
      PROVE  CallMoves(d)
  BY <1>3, <1>8 DEF RefuseNonce, Sync, CreateChallenge, ExpireChallenge, Verify,
     CloseSession, Die
<1>9. ASSUME UNCHANGED call PROVE CallMoves(d)
  BY <1>9
<1> HIDE DEF CallMoves
<1> QED
  BY <1>1, <1>2, <1>4, <1>6, <1>7, <1>8, <1>9 DEF Next, vars, ForgetNonces,
     ForgetChallenge, ForgetSession, Tick

\* Time does not go back, and while it passes nothing else happens.
LEMMA TimeGrows ==
    TypeOK /\ [Next]_vars =>
        /\ now' \in Int /\ now \in Int /\ now <= now'
        /\ now' = now \/ Tick
<1> SUFFICES ASSUME TypeOK, [Next]_vars
             PROVE  /\ now' \in Int /\ now \in Int /\ now <= now'
                    /\ now' = now \/ Tick
  OBVIOUS
<1>1. UNCHANGED now \/ Tick
  BY DEF Next, vars, Receive, Callback, LoadActor, Perform, ConsumeNonce,
     RefuseNonce, Sync, CreateChallenge, LookAtChallenge, ExpireChallenge,
     ConsumeChallenge, Verify, OpenSession, CloseSession, Die, ForgetNonces,
     ForgetChallenge, ForgetSession
<1> QED
  BY <1>1 DEF TypeOK, Time, Tick

-----------------------------------------------------------------------------
(* Authentication.                                                         *)

\* Each step keeps the clocks of the calls in time.
LEMMA TimelyStays == IInv /\ [Next]_vars => CallsAreTimely'
<1> SUFFICES ASSUME TypeOK, CallsAreTimely, CallsAreDistinct, [Next]_vars,
                    NEW c \in Calls
             PROVE  (/\ call[c].at <= now
                     /\ call[c].step = "nonce" =>
                          /\ sent[call[c].nonce] # Unsent
                          /\ call[c].at <= sent[call[c].nonce].ts + Skew
                          /\ sent[call[c].nonce].ts <= call[c].at + Skew)'
  BY DEF IInv, CallsAreTimely
<1>1. CallMoves(c)
  BY AnyCallMoves
<1>2. now <= now' /\ now' \in Int /\ now \in Int /\ 0 <= now'
  BY TimeGrows DEF TypeOK, Time
<1>3. CASE call'[c] = call[c]
  <2>1. call[c].at <= now /\ call[c].at \in Int
    <3>1. call[c] \in CallRecord \cup {Free}
      BY DEF TypeOK
    <3> QED
      BY <3>1 DEF CallsAreTimely, CallRecord, Time, Free
  <2>2. ASSUME call[c].step = "nonce" PROVE sent'[call[c].nonce] = sent[call[c].nonce]
    <3>1. call[c].nonce \in Nonces
      BY <2>2, CallTypes DEF CallRecord
    <3> QED
      BY <2>2, <3>1, SentStays DEF CallsAreTimely
  <2> QED
    BY <1>2, <1>3, <2>1, <2>2 DEF CallsAreTimely
<1>4. CASE call'[c] = Free
  BY <1>2, <1>4 DEF Free
<1>5. ASSUME NEW n \in Nonces, NEW m \in Signed(n), Receive(c, n, m),
             call'[c] = NewCall("nonce", n, m.actor)
      PROVE  (/\ call[c].at <= now
              /\ call[c].step = "nonce" =>
                   /\ sent[call[c].nonce] # Unsent
                   /\ call[c].at <= sent[call[c].nonce].ts + Skew
                   /\ sent[call[c].nonce].ts <= call[c].at + Skew)'
  <2>1. m \in Request
    BY SignedTypes
  <2>2. sent'[n] = m /\ m # Unsent
    BY <1>5, <2>1 DEF Receive, TypeOK
  <2> QED
    BY <1>2, <1>5, <2>1, <2>2 DEF Receive, InTime, NewCall, Request, Time
<1>6. ASSUME NEW k \in Nonces, NEW who \in Actors,
             call'[c] = NewCall("verify", k, who)
      PROVE  call'[c].at <= now' /\ call'[c].step # "nonce"
  BY <1>2, <1>6 DEF NewCall
<1>7. CASE ConsumeNonce(c) /\ Past(c)' /\ call'[c].at = call[c].at
  BY <1>2, <1>7 DEF Past, CallsAreTimely, ConsumeNonce
<1>8. CASE GoesOn(c)
  BY <1>2, <1>8 DEF GoesOn, Past, CallsAreTimely
<1> QED
  BY <1>1, <1>3, <1>4, <1>5, <1>6, <1>7, <1>8 DEF CallMoves

\* A call that inserts its nonce is in time for it.
LEMMA AdmittedInTime ==
    ASSUME TypeOK, CallsAreTimely, NEW c \in Calls, ConsumeNonce(c)
    PROVE  /\ call[c].nonce \in Nonces /\ sent[call[c].nonce] \in Request
           /\ now <= LastCall(call[c].nonce)
           /\ NonceEnds(call[c].at) > LastCall(call[c].nonce)
<1>1. call[c] \in CallRecord /\ call[c].step = "nonce"
  BY CallTypes DEF ConsumeNonce
<1>2. sent[call[c].nonce] \in Request
  BY <1>1 DEF CallsAreTimely, TypeOK, CallRecord
<1>3. {now, call[c].at, sent[call[c].nonce].ts} \subseteq Int
  BY <1>1, <1>2 DEF TypeOK, CallRecord, Request, Time
<1>4. now - call[c].at <= Latency
  BY DEF ConsumeNonce
<1>5. /\ call[c].at <= sent[call[c].nonce].ts + Skew
      /\ sent[call[c].nonce].ts <= call[c].at + Skew
  BY <1>1 DEF CallsAreTimely
<1> QED
  BY <1>1, <1>2, <1>3, <1>4, <1>5 DEF LastCall, NonceEnds, CallRecord

\* A nonce whose row is gone, or was never there, was not admitted when a call may
\* insert it.
LEMMA FirstAdmission ==
    ASSUME TypeOK, CallsAreTimely, NoncesAreKept, NEW c \in Calls,
           ConsumeNonce(c)
    PROVE  admitted[call[c].nonce] = 0
<1>1. call[c].nonce \in Nonces /\ now <= LastCall(call[c].nonce)
      /\ sent[call[c].nonce] \in Request
  BY AdmittedInTime
<1>2. now \in Int /\ LastCall(call[c].nonce) \in Int
  BY <1>1 DEF TypeOK, LastCall, Request, Time
<1>3. ~Seen(call[c].nonce)
  BY DEF ConsumeNonce
<1> QED
  BY <1>1, <1>2, <1>3 DEF NoncesAreKept

\* Each step keeps the rows of the nonces that may come again.
LEMMA NoncesStayKept == IInv /\ [Next]_vars => NoncesAreKept'
<1> SUFFICES ASSUME TypeOK, CallsAreTimely, CallsAreDistinct, NoncesAreKept,
                    [Next]_vars
             PROVE  NoncesAreKept'
  BY DEF IInv
<1> USE DEF tables, history
<1> DEFINE Kept == \A row \in nonces :
                     sent[row.nonce] # Unsent /\ row.ends > LastCall(row.nonce)
           Counted(n) == \/ admitted[n] = 0
                         \/ /\ admitted[n] = 1 /\ sent[n] # Unsent
                            /\ Seen(n) \/ now > LastCall(n)
<1>1. \A n \in Nonces : sent[n] # Unsent =>
         /\ sent'[n] # Unsent /\ LastCall(n)' = LastCall(n)
         /\ LastCall(n) \in Int
  <2> SUFFICES ASSUME NEW n \in Nonces, sent[n] # Unsent
               PROVE  /\ sent'[n] # Unsent /\ LastCall(n)' = LastCall(n)
                      /\ LastCall(n) \in Int
    OBVIOUS
  <2>1. sent[n] \in Request /\ sent'[n] = sent[n]
    BY SentStays DEF TypeOK
  <2> QED
    BY <2>1 DEF LastCall, Request, Time
<1>2. now \in Int /\ now' \in Int /\ now <= now'
  BY TimeGrows
<1>3. \A row \in nonces : row.nonce \in Nonces /\ row.ends \in Int
  BY DEF TypeOK, NonceRow
<1>4. CASE UNCHANGED <<nonces, admitted>>
  BY <1>1, <1>2, <1>3, <1>4 DEF NoncesAreKept, Seen
<1>5. ASSUME NEW c \in Calls, ConsumeNonce(c) PROVE NoncesAreKept'
  <2> DEFINE k == call[c].nonce
             new == [nonce |-> k, ends |-> NonceEnds(call[c].at)]
  <2>1. k \in Nonces /\ sent[k] \in Request /\ sent[k] # Unsent
        /\ NonceEnds(call[c].at) > LastCall(k) /\ admitted[k] = 0
    BY <1>5, AdmittedInTime, FirstAdmission
  <2>2. nonces' = nonces \cup {new} /\ admitted' = [admitted EXCEPT ![k] = @ + 1]
    BY <1>5 DEF ConsumeNonce
  <2>3. Kept'
    BY <1>1, <1>3, <2>1, <2>2 DEF NoncesAreKept
  <2>4. ASSUME NEW n \in Nonces, Seen(n) \/ n = k PROVE Seen(n)'
    <3>1. new \in nonces' /\ new.nonce = k
      BY <2>2
    <3>2. nonces \subseteq nonces'
      BY <2>2
    <3> HIDE DEF new
    <3> QED
      BY <2>4, <3>1, <3>2 DEF Seen
  <2>5. ASSUME NEW n \in Nonces PROVE Counted(n)'
    <3>1. CASE n = k
      BY <1>1, <2>1, <2>2, <2>4, <3>1 DEF TypeOK
    <3>2. CASE n # k
      BY <1>1, <1>2, <2>2, <2>4, <3>2 DEF TypeOK, NoncesAreKept
    <3> QED
      BY <3>1, <3>2
  <2> QED
    BY <2>3, <2>5 DEF NoncesAreKept
<1>6. ASSUME NEW row \in nonces, ForgetNonces(row) PROVE NoncesAreKept'
  <2>1. nonces' = nonces \ {row} /\ row.ends <= now /\ admitted' = admitted
        /\ now' = now /\ sent' = sent
    BY <1>6 DEF ForgetNonces
  <2>2. now > LastCall(row.nonce)
    BY <1>1, <1>2, <1>3, <2>1 DEF NoncesAreKept
  <2>3. \A n \in Nonces : Seen(n) => Seen(n)' \/ n = row.nonce
    BY <2>1 DEF Seen
  <2>4. Kept'
    BY <1>1, <1>3, <2>1 DEF NoncesAreKept
  <2>5. ASSUME NEW n \in Nonces PROVE Counted(n)'
    BY <1>1, <2>1, <2>2, <2>3 DEF NoncesAreKept
  <2> QED
    BY <2>4, <2>5 DEF NoncesAreKept
<1> QED
  BY <1>4, <1>5, <1>6 DEF Next, vars, Receive, Callback, LoadActor, Perform,
     RefuseNonce, Sync, CreateChallenge, LookAtChallenge, ExpireChallenge,
     ConsumeChallenge, Verify, OpenSession, CloseSession, Die, ForgetChallenge,
     ForgetSession, Tick

\* A nonce that was admitted once stays so.
LEMMA AdmittedStays ==
    ASSUME TypeOK, CallsAreTimely, NoncesAreKept, [Next]_vars, NEW n \in Nonces,
           admitted[n] = 1
    PROVE  admitted'[n] = 1
<1>1. ASSUME NEW c \in Calls, ConsumeNonce(c) PROVE admitted'[n] = 1
  <2>1. call[c].nonce # n
    BY <1>1, FirstAdmission
  <2> QED
    BY <1>1, <2>1 DEF ConsumeNonce, TypeOK
<1>2. UNCHANGED admitted \/ \E c \in Calls : ConsumeNonce(c)
  BY DEF Next, vars, history, Receive, Callback, LoadActor, Perform, RefuseNonce,
     Sync, CreateChallenge, LookAtChallenge, ExpireChallenge, ConsumeChallenge,
     Verify, OpenSession, CloseSession, Die, ForgetNonces, ForgetChallenge,
     ForgetSession, Tick
<1> QED
  BY <1>1, <1>2

\* Whatever inserts its nonce leaves the other calls as they are.
LEMMA OthersStay ==
    ASSUME TypeOK, NEW c \in Calls, ConsumeNonce(c), NEW d \in Calls, d # c
    PROVE  call'[d] = call[d]
  BY DEF ConsumeNonce, Step, TypeOK

\* The past of a call past authentication: it was, or has just inserted its nonce.
LEMMA PastCalls ==
    ASSUME TypeOK, CallsAreTimely, CallsAreDistinct, [Next]_vars,
           NEW c \in Calls, Past(c)'
    PROVE  /\ call'[c].nonce = call[c].nonce /\ call[c].nonce \in Nonces
           /\ sent[call[c].nonce] # Unsent /\ Msg(c)' = Msg(c)
           /\ Past(c) \/ ConsumeNonce(c)
           /\ Msg(c).op \in OpsAt(call'[c].step)
<1>1. CallMoves(c)
  BY AnyCallMoves
<1>2. /\ call'[c].nonce = call[c].nonce
      /\ Past(c) \/ ConsumeNonce(c)
      /\ Msg(c).op \in OpsAt(call'[c].step)
  <2>1. CASE call'[c] = call[c]
    BY <2>1 DEF Past, CallsAreDistinct
  <2>2. call'[c].step \notin {"free", "nonce", "verify"}
    BY DEF Past
  <2>3. call'[c] # Free
    BY <2>2 DEF Free
  <2>4. \A step \in {"nonce", "verify"} : \A n, who : call'[c] # NewCall(step, n, who)
    BY <2>2 DEF NewCall
  <2> QED
    BY <1>1, <2>1, <2>3, <2>4 DEF CallMoves, GoesOn
<1>3. call[c].nonce \in Nonces
  BY <1>2, CallTypes DEF Past, ConsumeNonce, CallRecord
<1>4. sent[call[c].nonce] # Unsent
  BY <1>2 DEF CallsAreDistinct, CallsAreTimely, ConsumeNonce
<1> QED
  BY <1>2, <1>3, <1>4, SentStays DEF Msg

\* Each step keeps one call at most past authentication with a nonce.
LEMMA DistinctStays == IInv /\ [Next]_vars => CallsAreDistinct'
<1> SUFFICES ASSUME TypeOK, CallsAreTimely, CallsAreDistinct, NoncesAreKept,
                    [Next]_vars
             PROVE  CallsAreDistinct'
  BY DEF IInv
<1>1. ASSUME NEW c \in Calls, ConsumeNonce(c)
      PROVE  /\ admitted[call[c].nonce] = 0
             /\ admitted'[call[c].nonce] = 1
  <2>1. call[c].nonce \in Nonces /\ admitted[call[c].nonce] = 0
    BY <1>1, FirstAdmission, AdmittedInTime
  <2> QED
    BY <1>1, <2>1 DEF ConsumeNonce, TypeOK
<1>2. ASSUME NEW c \in Calls, Past(c)'
      PROVE  (/\ sent[call[c].nonce] # Unsent
              /\ admitted[call[c].nonce] = 1
              /\ Msg(c).op \in OpsAt(call[c].step))'
  <2>1. /\ call'[c].nonce = call[c].nonce /\ call[c].nonce \in Nonces
        /\ sent[call[c].nonce] # Unsent /\ Msg(c)' = Msg(c)
        /\ Past(c) \/ ConsumeNonce(c)
        /\ Msg(c).op \in OpsAt(call'[c].step)
    BY <1>2, PastCalls
  <2>2. sent'[call[c].nonce] # Unsent
    BY <2>1, SentStays
  <2>3. admitted'[call[c].nonce] = 1
    BY <1>1, <2>1, AdmittedStays DEF CallsAreDistinct
  <2> QED
    BY <2>1, <2>2, <2>3 DEF OpsAt
<1>3. ASSUME NEW c \in Calls, NEW d \in Calls, Past(c)', Past(d)',
             call'[c].nonce = call'[d].nonce
      PROVE  c = d
  <2>1. /\ Past(c) \/ ConsumeNonce(c)
        /\ Past(d) \/ ConsumeNonce(d)
        /\ call[c].nonce = call[d].nonce
    BY <1>3, PastCalls
  <2>2. CASE Past(c) /\ Past(d)
    BY <2>1, <2>2 DEF CallsAreDistinct
  <2>3. ASSUME c # d, ConsumeNonce(c) \/ ConsumeNonce(d) PROVE FALSE
    <3>1. Past(c) \/ Past(d)
      BY <1>3, <2>3, OthersStay DEF Past
    <3>2. ~ConsumeNonce(c) /\ ~ConsumeNonce(d)
      BY <1>1, <2>1, <3>1 DEF CallsAreDistinct
    <3> QED
      BY <2>3, <3>2
  <2> QED
    BY <2>1, <2>2, <2>3
<1> QED
  BY <1>2, <1>3 DEF CallsAreDistinct

-----------------------------------------------------------------------------
(* Challenges.                                                             *)

\* What a step does to the row of a challenge.
Makes(c, k) ==
    /\ CreateChallenge(c) /\ call[c].nonce = k /\ challenges[k].status = "none"
    /\ challenges'[k] = [status |-> "pending", actor |-> Actor(c),
                         ends |-> call[c].at + ChallengeTTL]
Spends(c, k) ==
    /\ ConsumeChallenge(c) /\ Msg(c).challenge = k
    /\ Spendable(challenges[k], Actor(c), call[c].at)
    /\ challenges'[k] = [challenges[k] EXCEPT !.status = "consumed"]
    /\ spent' = spent \cup {[challenge |-> k, nonce |-> call[c].nonce,
                             actor |-> Actor(c), at |-> call[c].at]}
Verifies(c, k) ==
    /\ Verify(c) /\ call[c].nonce = k /\ Verifiable(k)
    /\ challenges'[k] = [challenges[k] EXCEPT !.status = "verified"]
    /\ proofs' = proofs \cup {[challenge |-> k, who |-> call[c].who, at |-> now]}
Expires(k) ==
    /\ challenges[k].status \in {"pending", "verified"}
    /\ challenges'[k] = [challenges[k] EXCEPT !.status = "expired"]

RowMoves(k) ==
    \/ challenges'[k] = challenges[k] /\ spent' = spent /\ proofs \subseteq proofs'
    \/ challenges'[k] = NoChallenge /\ spent' = spent /\ proofs' = proofs
    \/ Expires(k) /\ spent' = spent /\ proofs' = proofs
    \/ \E c \in Calls : Makes(c, k) /\ spent' = spent /\ proofs' = proofs
    \/ \E c \in Calls : Spends(c, k) /\ proofs' = proofs
    \/ \E c \in Calls : Verifies(c, k) /\ spent' = spent
    \/ \E c \in Calls, j \in Nonces \ {k} :
         challenges'[k] = challenges[k] /\ Spends(c, j) /\ proofs' = proofs

\* No step does anything else to a challenge, or to what was spent and proved.
LEMMA AnyRowMoves ==
    TypeOK /\ CallsAreTimely /\ CallsAreDistinct /\ [Next]_vars =>
        \A k \in Nonces : RowMoves(k)
<1> SUFFICES ASSUME TypeOK, CallsAreTimely, CallsAreDistinct, [Next]_vars,
                    NEW k \in Nonces
             PROVE  RowMoves(k)
  OBVIOUS
<1> USE DEF tables, history
<1>1. CASE UNCHANGED <<challenges, spent, proofs>>
  BY <1>1 DEF RowMoves
<1>2. ASSUME NEW c \in Calls, CreateChallenge(c) PROVE RowMoves(k)
  BY <1>2 DEF CreateChallenge, RowMoves, Makes, TypeOK
<1>3. ASSUME NEW j \in Nonces, ForgetChallenge(j) PROVE RowMoves(k)
  BY <1>3 DEF ForgetChallenge, RowMoves, TypeOK
<1>4. ASSUME NEW c \in Calls, ExpireChallenge(c) PROVE RowMoves(k)
  <2>1. Msg(c).challenge \in Nonces
    BY <1>4, RequestTypes DEF ExpireChallenge, Past, Request
  <2> DEFINE j == Msg(c).challenge
  <2>2. CASE j = k
    BY <1>4, <2>1, <2>2 DEF ExpireChallenge, RowMoves, Expires, TypeOK, Challenge
  <2>3. CASE j # k
    BY <1>4, <2>1, <2>3 DEF ExpireChallenge, RowMoves, TypeOK
  <2> QED
    BY <2>2, <2>3
<1>5. ASSUME NEW c \in Calls, ConsumeChallenge(c) PROVE RowMoves(k)
  <2>1. Msg(c).challenge \in Nonces
    BY <1>5, RequestTypes DEF ConsumeChallenge, Past, Request
  <2>2. CASE Spendable(challenges[Msg(c).challenge], Actor(c), call[c].at)
    <3>1. Spends(c, Msg(c).challenge) /\ UNCHANGED proofs
      BY <1>5, <2>1, <2>2 DEF ConsumeChallenge, Spends, TypeOK
    <3>2. Msg(c).challenge # k => challenges'[k] = challenges[k]
      BY <1>5, <2>1, <2>2 DEF ConsumeChallenge, TypeOK
    <3> QED
      BY <2>1, <3>1, <3>2 DEF RowMoves
  <2>3. CASE ~Spendable(challenges[Msg(c).challenge], Actor(c), call[c].at)
    BY <1>5, <2>3 DEF ConsumeChallenge, RowMoves
  <2> QED
    BY <2>2, <2>3
<1>6. ASSUME NEW c \in Calls, Verify(c) PROVE RowMoves(k)
  <2>1. call[c].nonce \in Nonces
    BY <1>6, CallTypes DEF Verify, CallRecord
  <2>2. CASE call[c].nonce = k /\ Verifiable(k)
    BY <1>6, <2>2 DEF Verify, RowMoves, Verifies, TypeOK
  <2>3. CASE ~(call[c].nonce = k /\ Verifiable(k))
    BY <1>6, <2>1, <2>3 DEF Verify, RowMoves, TypeOK
  <2> QED
    BY <2>2, <2>3
<1> QED
  BY <1>1, <1>2, <1>3, <1>4, <1>5, <1>6 DEF Next, vars, Receive, Callback,
     LoadActor, Perform, ConsumeNonce, RefuseNonce, Sync, LookAtChallenge,
     OpenSession, CloseSession, Die, ForgetNonces, ForgetSession, Tick

\* Each step leaves a challenge to the one request that makes it.
LEMMA MadeOnceStays == IInv /\ [Next]_vars => ChallengesAreMadeOnce'
<1> SUFFICES ASSUME IInv, [Next]_vars, NEW k \in Nonces, Made(k)'
             PROVE  /\ admitted'[k] = 1
                    /\ \A c \in Calls : Past(c)' => call'[c].nonce # k
  BY DEF ChallengesAreMadeOnce
<1> USE DEF IInv, tables, history
<1>1. CASE Made(k)
  <2>1. admitted[k] = 1 /\ \A c \in Calls : Past(c) => call[c].nonce # k
    BY <1>1 DEF ChallengesAreMadeOnce
  <2>2. ASSUME NEW c \in Calls, Past(c)', call'[c].nonce = k PROVE FALSE
    <3>1. call[c].nonce = k /\ (Past(c) \/ ConsumeNonce(c))
      BY <2>2, PastCalls
    <3> QED
      BY <2>1, <3>1, FirstAdmission
  <2> QED
    BY <2>1, <2>2, AdmittedStays
<1>2. ASSUME NEW c \in Calls, CreateChallenge(c), k = call[c].nonce
      PROVE  /\ admitted'[k] = 1
             /\ \A d \in Calls : Past(d)' => call'[d].nonce # k
  <2>1. Past(c) /\ admitted[k] = 1 /\ admitted' = admitted
    BY <1>2 DEF CreateChallenge, Past, CallsAreDistinct
  <2>2. call'[c] = Free /\ \A d \in Calls : d # c => call'[d] = call[d]
    BY <1>2, Finishes DEF CreateChallenge
  <2>3. ASSUME NEW d \in Calls, Past(d)', call'[d].nonce = k PROVE FALSE
    <3>1. d # c /\ Past(d) /\ call[d].nonce = k
      BY <2>2, <2>3 DEF Past, Free
    <3> QED
      BY <1>2, <2>1, <3>1 DEF CallsAreDistinct
  <2> QED
    BY <2>1, <2>3
<1>3. Made(k) \/ \E c \in Calls : Makes(c, k)
  <2>1. RowMoves(k)
    BY AnyRowMoves
  <2>2. CASE challenges[k].status # "none"
    BY <2>2 DEF Made
  <2>3. CASE challenges[k].status = "none" /\ challenges'[k].status = "none"
    <3> \A c \in Calls : ~Spends(c, k)
      BY <2>3 DEF Spends, Spendable
    <3>1. spent' = spent \/ \E c \in Calls, j \in Nonces \ {k} : Spends(c, j)
      BY <2>1 DEF RowMoves
    <3>2. PICK s \in spent' : s.challenge = k
      BY <2>3 DEF Made
    <3>3. ASSUME NEW c \in Calls, NEW j \in Nonces \ {k}, Spends(c, j)
          PROVE  s \in spent
      <4>1. spent' = spent \cup {[challenge |-> j, nonce |-> call[c].nonce,
                                  actor |-> Actor(c), at |-> call[c].at]}
        BY <3>3 DEF Spends
      <4> QED
        BY <3>2, <4>1
    <3>4. s \in spent
      BY <3>1, <3>2, <3>3
    <3> QED
      BY <3>2, <3>4 DEF Made
  <2>4. CASE challenges[k].status = "none" /\ challenges'[k].status # "none"
    <3>1. challenges'[k] # challenges[k] /\ challenges'[k] # NoChallenge
      BY <2>4 DEF NoChallenge
    <3>2. ~Expires(k) /\ \A c \in Calls : ~Spends(c, k) /\ ~Verifies(c, k)
      BY <2>4 DEF Expires, Spends, Verifies, Spendable, Verifiable
    <3> QED
      BY <2>1, <3>1, <3>2 DEF RowMoves
  <2> QED
    BY <2>2, <2>3, <2>4
<1> QED
  BY <1>1, <1>2, <1>3 DEF Makes

\* What comes to be spent is spent by a call that finds it verified.
LEMMA NewlySpent ==
    ASSUME TypeOK, CallsAreTimely, CallsAreDistinct, [Next]_vars,
           NEW s \in spent', s \notin spent
    PROVE  \E c \in Calls, k \in Nonces :
             /\ Spends(c, k)
             /\ s = [challenge |-> k, nonce |-> call[c].nonce,
                     actor |-> Actor(c), at |-> call[c].at]
<1>1. spent' # spent
  OBVIOUS
<1>2. ASSUME NEW c \in Calls, NEW k \in Nonces, Spends(c, k)
      PROVE  s = [challenge |-> k, nonce |-> call[c].nonce,
                  actor |-> Actor(c), at |-> call[c].at]
  <2>1. spent' = spent \cup {[challenge |-> k, nonce |-> call[c].nonce,
                              actor |-> Actor(c), at |-> call[c].at]}
    BY <1>2 DEF Spends
  <2> QED
    BY <2>1
<1>3. \E c \in Calls, k \in Nonces : Spends(c, k)
  <2>1. s.challenge \in Nonces
    BY TypeCorrect DEF TypeOK
  <2>2. RowMoves(s.challenge)
    BY <2>1, AnyRowMoves
  <2> QED
    BY <1>1, <2>1, <2>2 DEF RowMoves
<1> QED
  BY <1>2, <1>3

\* Each step leaves what was spent consumed or forgotten.
LEMMA SpentStays == IInv /\ [Next]_vars => SpentStaySpent'
<1> SUFFICES ASSUME TypeOK, CallsAreTimely, CallsAreDistinct,
                    ChallengesAreMadeOnce, SpentStaySpent, [Next]_vars,
                    NEW s \in spent'
             PROVE  challenges'[s.challenge].status \in {"none", "consumed"}
  BY DEF IInv, SpentStaySpent
<1>1. CASE s \in spent
  <2> DEFINE k == s.challenge
  <2>1. k \in Nonces /\ challenges[k].status \in {"none", "consumed"}
    BY <1>1 DEF TypeOK, SpentStaySpent
  <2>2. RowMoves(k)
    BY <2>1, AnyRowMoves
  <2>3. ~Expires(k) /\ \A c \in Calls : ~Spends(c, k) /\ ~Verifies(c, k)
    BY <2>1 DEF Expires, Spends, Verifies, Spendable, Verifiable
  <2>4. \A c \in Calls : ~Makes(c, k)
    BY <1>1, <2>1 DEF Makes, CreateChallenge, Past, ChallengesAreMadeOnce, Made
  <2>5. challenges'[k] \in {challenges[k], NoChallenge}
    BY <2>2, <2>3, <2>4 DEF RowMoves
  <2> QED
    BY <2>1, <2>5 DEF NoChallenge
<1>2. CASE s \notin spent
  <2>1. PICK c \in Calls, k \in Nonces : Spends(c, k) /\ s.challenge = k
    BY <1>2, NewlySpent
  <2>2. challenges'[k].status = "consumed"
    BY <2>1 DEF Spends, TypeOK, Challenge
  <2> QED
    BY <2>1, <2>2
<1> QED
  BY <1>1, <1>2

\* Each step leaves a verification to one revert.
LEMMA UsedOnceStays == IInv /\ [Next]_vars => VerificationUsedOnce'
<1> SUFFICES ASSUME TypeOK, CallsAreTimely, CallsAreDistinct, SpentStaySpent,
                    VerificationUsedOnce, [Next]_vars,
                    NEW s \in spent', NEW t \in spent', s.challenge = t.challenge
             PROVE  s = t
  BY DEF IInv, VerificationUsedOnce
<1>1. CASE s \in spent /\ t \in spent
  BY <1>1 DEF VerificationUsedOnce
<1>2. ASSUME NEW a \in spent', NEW b \in spent', a.challenge = b.challenge,
             a \notin spent
      PROVE  a = b
  <2>1. PICK c \in Calls, k \in Nonces :
          /\ Spends(c, k)
          /\ a = [challenge |-> k, nonce |-> call[c].nonce,
                  actor |-> Actor(c), at |-> call[c].at]
    BY <1>2, NewlySpent
  <2>2. spent' = spent \cup {a} /\ challenges[k].status = "verified"
    BY <2>1 DEF Spends, Spendable
  <2>3. b \notin spent
    BY <1>2, <2>1, <2>2 DEF SpentStaySpent
  <2> QED
    BY <2>2, <2>3
<1> QED
  BY <1>1, <1>2

\* Each step keeps the proofs of the challenges that are verified.
LEMMA ProvedStays == IInv /\ [Next]_vars => VerifiedAreProved'
<1> SUFFICES ASSUME TypeOK, CallsAreTimely, CallsAreDistinct, VerifiedAreProved,
                    [Next]_vars, NEW k \in Nonces
             PROVE  /\ challenges'[k].status # "none" =>
                         challenges'[k].ends <= now' + ChallengeTTL
                    /\ challenges'[k].status = "verified" =>
                         \E p \in proofs' : /\ p.challenge = k
                                            /\ p.who = challenges'[k].actor
                                            /\ challenges'[k].ends <= p.at + ChallengeTTL
  BY DEF IInv, VerifiedAreProved, Proof
<1> DEFINE Ending(row) == row.status # "none" => row.ends <= now + ChallengeTTL
           Witnessed(row, set) == row.status = "verified" =>
              \E p \in set : /\ p.challenge = k /\ p.who = row.actor
                             /\ row.ends <= p.at + ChallengeTTL
<1>1. RowMoves(k)
  BY AnyRowMoves
<1>2. challenges[k] \in Challenge /\ Ending(challenges[k])
      /\ Witnessed(challenges[k], proofs)
  BY DEF TypeOK, VerifiedAreProved, Proof
<1>3. now \in Int /\ now' \in Int /\ now <= now'
  BY TimeGrows
<1>4. Ending(challenges'[k]) /\ Witnessed(challenges'[k], proofs')
  <2>1. CASE challenges'[k] = challenges[k] /\ proofs \subseteq proofs'
    BY <1>2, <2>1
  <2>2. CASE challenges'[k] = NoChallenge
    BY <2>2 DEF NoChallenge
  <2>3. CASE Expires(k)
    BY <1>2, <2>3 DEF Expires, Challenge
  <2>4. ASSUME NEW c \in Calls, Makes(c, k)
        PROVE  Ending(challenges'[k]) /\ Witnessed(challenges'[k], proofs')
    <3>1. call[c] \in CallRecord /\ call[c].at <= now
      BY <2>4, CallTypes DEF Makes, CreateChallenge, CallsAreTimely
    <3>2. challenges'[k].ends = call[c].at + ChallengeTTL
          /\ challenges'[k].status = "pending"
      BY <2>4 DEF Makes
    <3> QED
      BY <1>3, <3>1, <3>2 DEF CallRecord, Time
  <2>5. ASSUME NEW c \in Calls, Spends(c, k)
        PROVE  Ending(challenges'[k]) /\ Witnessed(challenges'[k], proofs')
    <3>1. challenges'[k].status = "consumed" /\ challenges'[k].ends = challenges[k].ends
          /\ challenges[k].status = "verified"
      BY <1>2, <2>5 DEF Spends, Spendable, Challenge
    <3> QED
      BY <1>2, <3>1
  <2>6. ASSUME NEW c \in Calls, Verifies(c, k)
        PROVE  Ending(challenges'[k]) /\ Witnessed(challenges'[k], proofs')
    <3> DEFINE p == [challenge |-> k, who |-> call[c].who, at |-> now]
    <3>1. p \in proofs' /\ call[c].who = challenges[k].actor
      BY <2>6 DEF Verifies, Verify
    <3>2. challenges[k].status = "pending"
          /\ challenges'[k].ends = challenges[k].ends
          /\ challenges'[k].actor = challenges[k].actor
      BY <1>2, <2>6 DEF Verifies, Verifiable, Challenge
    <3>3. p.challenge = k /\ p.who = challenges'[k].actor
          /\ challenges'[k].ends <= p.at + ChallengeTTL
      BY <1>2, <3>1, <3>2
    <3> HIDE DEF p
    <3> QED
      BY <1>2, <3>1, <3>2, <3>3
  <2> HIDE DEF Ending, Witnessed
  <2> QED
    BY <1>1, <2>1, <2>2, <2>3, <2>4, <2>5, <2>6 DEF RowMoves
<1>5. challenges'[k].ends \in Int
  BY TypeCorrect DEF TypeOK, Challenge
<1> QED
  BY <1>3, <1>4, <1>5

\* Each step keeps the reverts that were let through verified.
LEMMA VerifiedStays == IInv /\ [Next]_vars => RevertsWereVerified'
<1> SUFFICES ASSUME TypeOK, CallsAreTimely, CallsAreDistinct, VerifiedAreProved,
                    RevertsWereVerified, [Next]_vars, NEW s \in spent'
             PROVE  \E p \in proofs' : /\ p.challenge = s.challenge
                                       /\ p.who = s.actor
                                       /\ s.at - p.at < ChallengeTTL
  BY DEF IInv, RevertsWereVerified
<1>1. CASE s \in spent
  <2>1. s.challenge \in Nonces
    BY <1>1 DEF TypeOK
  <2>2. proofs \subseteq proofs'
    BY <2>1, AnyRowMoves DEF RowMoves, Verifies
  <2> QED
    BY <1>1, <2>2 DEF RevertsWereVerified
<1>2. CASE s \notin spent
  <2>1. PICK c \in Calls, k \in Nonces :
          /\ Spends(c, k)
          /\ s = [challenge |-> k, nonce |-> call[c].nonce,
                  actor |-> Actor(c), at |-> call[c].at]
    BY <1>2, NewlySpent
  <2>2. /\ challenges[k].status = "verified" /\ challenges[k].actor = s.actor
        /\ s.challenge = k /\ challenges[k].ends > s.at
        /\ proofs' = proofs
    BY <2>1 DEF Spends, Spendable, ConsumeChallenge
  <2>3. PICK p \in proofs : Proof(k, p)
    BY <2>2 DEF VerifiedAreProved
  <2>4. p.at \in Int /\ challenges[k].ends \in Int /\ s.at \in Int
    BY TypeCorrect DEF TypeOK, Challenge, Time
  <2>5. s.at - p.at < ChallengeTTL
    BY <2>2, <2>3, <2>4 DEF Proof
  <2> QED
    BY <2>2, <2>3, <2>5 DEF Proof
<1> QED
  BY <1>1, <1>2

-----------------------------------------------------------------------------
(* Delegation.                                                             *)

Delegated(c) == call[c].step \in {"base", "close"}

\* A call with a session had it, or has just inserted it.
LEMMA DelegatedCalls ==
    ASSUME TypeOK, CallsAreTimely, CallsAreDistinct, [Next]_vars,
           NEW c \in Calls, Delegated(c)'
    PROVE  /\ TokenOf(c)' = TokenOf(c)
           /\ \/ Delegated(c)
              \/ /\ OpenSession(c) /\ TokenOf(c) \notin live \cup dead
                 /\ \A d \in Calls : d # c => call'[d] = call[d]
<1>1. call'[c].step \in {"base", "close"}
  BY DEF Delegated
<1> DEFINE Goal ==
      \/ call'[c] = call[c]
      \/ call'[c].at = call[c].at /\ Delegated(c)
      \/ /\ call'[c].at = call[c].at
         /\ OpenSession(c) /\ TokenOf(c) \notin live \cup dead
         /\ \A d \in Calls : d # c => call'[d] = call[d]
<1>2. ASSUME NEW e \in Calls, Finish(e) PROVE call'[c] = call[c]
  BY <1>1, <1>2, Finishes DEF Free
<1>3. ASSUME NEW e \in Calls, call[e].step # "free",
             NEW step \in Steps \ {"free", "base", "close"},
             Step(e, step) \/ StepAt(e, step)
      PROVE  call'[c] = call[c]
  BY <1>1, <1>3, Goes
<1>4. ASSUME NEW e \in Calls, NEW n \in Nonces, NEW m \in Signed(n),
             Receive(e, n, m)
      PROVE  Goal
  <2>1. m.actor \in Actors
    BY SignedTypes DEF Request
  <2>2. call'[e] = NewCall("nonce", n, m.actor)
        /\ \A d \in Calls : d # e => call'[d] = call[d]
    BY <1>4, <2>1, ComesIn DEF Receive, Steps
  <2> QED
    BY <1>1, <2>2 DEF NewCall
<1>5. ASSUME NEW e \in Calls, NEW k \in Nonces, NEW who \in Actors,
             Callback(e, k, who)
      PROVE  Goal
  <2>1. call'[e] = NewCall("verify", k, who)
        /\ \A d \in Calls : d # e => call'[d] = call[d]
    BY <1>5, ComesIn DEF Callback, Steps
  <2> QED
    BY <1>1, <2>1 DEF NewCall
<1>6. ASSUME NEW e \in Calls, NEW role \in Roles, LoadActor(e, role) PROVE Goal
  <2>1. \A op : FirstStep(op) \in Steps \ {"free", "base", "close"}
    BY DEF FirstStep, Steps
  <2> QED
    BY <1>2, <1>3, <1>6, <2>1 DEF LoadActor
<1>7. ASSUME NEW e \in Calls, NEW role \in Roles, Perform(e, role) PROVE Goal
  <2>1. call'[e].at = call[e].at /\ Delegated(e)
        /\ \A d \in Calls : d # e => call'[d] = call[d]
    BY <1>7, Goes DEF Perform, Steps, Delegated
  <2> QED
    BY <2>1
<1>8. ASSUME NEW e \in Calls,
             ConsumeNonce(e) \/ LookAtChallenge(e) \/ ConsumeChallenge(e)
      PROVE  Goal
  BY <1>2, <1>3, <1>8 DEF ConsumeNonce, LookAtChallenge, ConsumeChallenge, Steps
<1>9. ASSUME NEW e \in Calls,
             \/ RefuseNonce(e) \/ Sync(e) \/ CreateChallenge(e)
             \/ ExpireChallenge(e) \/ Verify(e) \/ CloseSession(e) \/ Die(e)
      PROVE  Goal
  BY <1>2, <1>9 DEF RefuseNonce, Sync, CreateChallenge, ExpireChallenge, Verify,
     CloseSession, Die
<1>10. ASSUME NEW e \in Calls, OpenSession(e) PROVE Goal
  <2>1. CASE TokenOf(e) \in live \cup dead
    BY <1>2, <1>10, <2>1 DEF OpenSession, Insertable
  <2>2. CASE TokenOf(e) \notin live \cup dead
    <3>1. call'[e].at = call[e].at
          /\ \A d \in Calls : d # e => call'[d] = call[d]
      BY <1>10, <2>2, Goes DEF OpenSession, Insertable, Steps
    <3> QED
      BY <1>10, <2>2, <3>1
  <2> QED
    BY <2>1, <2>2
<1>11. Goal
  <2>1. CASE UNCHANGED call
    BY <2>1
  <2> HIDE DEF Goal
  <2> QED
    BY <2>1, <1>4, <1>5, <1>6, <1>7, <1>8, <1>9, <1>10 DEF Next, vars,
       ForgetNonces, ForgetChallenge, ForgetSession, Tick
<1>12. Msg(c)' = Msg(c)
  BY <1>1, PastCalls DEF Past
<1> QED
  BY <1>1, <1>11, <1>12 DEF TokenOf, Actor, Delegated

\* What a step takes from the sessions: the one of a call that closes, and those
\* that have ended.
LEMMA SessionsGone ==
    ASSUME TypeOK, [Next]_vars, NEW t \in live, t \notin live'
    PROVE  Ends(t) <= now
           \/ \E c \in Calls : CloseSession(c) /\ t = TokenOf(c) /\ Delegated(c)
                               /\ call'[c] = Free
<1>1. ASSUME NEW c \in Calls, CloseSession(c)
      PROVE  t = TokenOf(c) /\ Delegated(c) /\ call'[c] = Free
  BY <1>1, Finishes DEF CloseSession, Delegated
<1>2. ASSUME NEW u \in live \cup dead, ForgetSession(u) PROVE Ends(t) <= now
  BY <1>2 DEF ForgetSession
<1>3. ASSUME NEW c \in Calls, OpenSession(c) PROVE FALSE
  BY <1>3 DEF OpenSession
<1>4. live' # live
  OBVIOUS
<1> QED
  BY <1>1, <1>2, <1>3, <1>4 DEF Next, vars, tables, Receive, Callback, LoadActor,
     Perform, ConsumeNonce, RefuseNonce, Sync, CreateChallenge, LookAtChallenge,
     ExpireChallenge, ConsumeChallenge, Verify, Die, ForgetNonces,
     ForgetChallenge, Tick

\* Each step leaves a request that still runs its session.
LEMMA SessionStays == IInv /\ [Next]_vars => DelegatedSessionIsOwn'
<1> SUFFICES ASSUME TypeOK, CallsAreTimely, CallsAreDistinct,
                    DelegatedSessionIsOwn, [Next]_vars,
                    NEW c \in Calls, Delegated(c)', (Ends(TokenOf(c)) > now)'
             PROVE  (/\ TokenOf(c) \in live
                     /\ \A d \in Calls \ {c} :
                          Delegated(d) => TokenOf(d) # TokenOf(c))'
  BY DEF IInv, DelegatedSessionIsOwn, Delegated
<1> DEFINE t == TokenOf(c)
<1>1. /\ TokenOf(c)' = t
      /\ \/ Delegated(c)
         \/ /\ OpenSession(c) /\ t \notin live \cup dead
            /\ \A d \in Calls : d # c => call'[d] = call[d]
  BY DelegatedCalls
<1>2. Ends(t) > now
  <2>1. Ends(TokenOf(c)') > now'
    BY DEF Ends
  <2>2. now \in Int /\ now' \in Int /\ now <= now'
    BY TimeGrows
  <2>3. Ends(t) \in Int
    <3>1. call[c].step # "free"
      BY <1>1 DEF Delegated, OpenSession
    <3> QED
      BY <3>1, CallTypes DEF Ends, TokenOf, CallRecord, Time
  <2> QED
    BY <1>1, <2>1, <2>2, <2>3
<1>3. \A d \in Calls : Delegated(d) /\ TokenOf(d) = t => t \in live
  BY <1>2 DEF DelegatedSessionIsOwn, Delegated
<1>4. \A d \in Calls \ {c} : Delegated(d) /\ Delegated(c) => TokenOf(d) # t
  BY <1>2 DEF DelegatedSessionIsOwn, Delegated
<1>5. t \in live'
  <2>1. CASE Delegated(c)
    <3>1. t \in live
      BY <1>3, <2>1
    <3>2. ASSUME NEW d \in Calls, Delegated(d), t = TokenOf(d), call'[d] = Free
          PROVE  FALSE
      <4>1. d = c
        BY <1>4, <2>1, <3>2
      <4> QED
        BY <3>2, <4>1 DEF Delegated, Free
    <3>3. ~(Ends(t) <= now)
      <4>1. Ends(t) \in Int /\ now \in Int
        BY <3>1 DEF TypeOK, Token, Ends, Time
      <4> QED
        BY <1>2, <4>1
    <3> QED
      BY <3>1, <3>2, <3>3, SessionsGone
  <2>2. CASE OpenSession(c) /\ t \notin live \cup dead
    BY <2>2 DEF OpenSession, Insertable
  <2> QED
    BY <1>1, <2>1, <2>2
<1>6. ASSUME NEW d \in Calls \ {c}, Delegated(d)' PROVE TokenOf(d)' # t
  <2>1. /\ TokenOf(d)' = TokenOf(d)
        /\ \/ Delegated(d)
           \/ /\ OpenSession(d) /\ TokenOf(d) \notin live \cup dead
              /\ \A e \in Calls : e # d => call'[e] = call[e]
    BY <1>6, DelegatedCalls
  <2>2. CASE Delegated(c) /\ Delegated(d)
    BY <1>4, <2>1, <2>2
  <2>3. CASE Delegated(c) /\ ~Delegated(d)
    BY <1>3, <2>1, <2>3
  <2>4. CASE ~Delegated(c)
    <3>1. t \notin live /\ Delegated(d)
      BY <1>1, <1>6, <2>4 DEF Delegated
    <3> QED
      BY <1>3, <2>1, <3>1
  <2> QED
    BY <2>2, <2>3, <2>4
<1> QED
  BY <1>1, <1>5, <1>6

-----------------------------------------------------------------------------
(* What the invariant says of every execution.                             *)

\* Each step keeps the invariant.
LEMMA StepKeepsIInv == IInv /\ [Next]_vars => IInv'
  BY TypeCorrect, TimelyStays, NoncesStayKept, DistinctStays, MadeOnceStays,
     SpentStays, ProvedStays, UsedOnceStays, VerifiedStays, SessionStays
     DEF IInv

\* Whatever the network delivers, and in whatever order, the invariant holds.
THEOREM InvariantHolds == Spec => []IInv
<1>1. IInv /\ UNCHANGED vars => IInv'
  BY StepKeepsIInv
<1> QED
  BY InitEstablishesIInv, StepKeepsIInv, PTL DEF Spec

\* The variables keep their types.
THEOREM TypesHold == Spec => []TypeOK
<1>1. IInv => TypeOK
  BY DEF IInv
<1> QED
  BY <1>1, InvariantHolds, PTL

\* However often a signed request is delivered, it passes authentication once:
\* its nonce is kept for as long as its clock is accepted (auth.js, consumeNonce).
THEOREM RequestsActOnce == Spec => []SignedRequestActsOnce
<1>1. IInv => SignedRequestActsOnce
  BY DEF IInv, NoncesAreKept, SignedRequestActsOnce
<1> QED
  BY <1>1, InvariantHolds, PTL

\* One verification in the browser lets one revert through (reauth.js).
THEOREM VerificationsAreUsedOnce == Spec => []VerificationUsedOnce
<1>1. IInv => VerificationUsedOnce
  BY DEF IInv
<1> QED
  BY <1>1, InvariantHolds, PTL

\* A revert is let through for the person whom Discord confirmed for it, within
\* the time of its challenge (reauth.js).
THEOREM RevertsAreVerified == Spec => []RevertsWereVerified
<1>1. IInv => RevertsWereVerified
  BY DEF IInv
<1> QED
  BY <1>1, InvariantHolds, PTL

\* A delegated request that still runs has its session to itself
\* (session-bridge.js).
THEOREM SessionsAreTheirOwn == Spec => []DelegatedSessionIsOwn
<1>1. IInv => DelegatedSessionIsOwn
  BY DEF IInv
<1> QED
  BY <1>1, InvariantHolds, PTL
=============================================================================
