------------------------------ MODULE BotRequests ------------------------------
(***************************************************************************)
(* The private API of the Discord bot. The bot signs each request with a   *)
(* nonce and its clock; the network may deliver a request late, or several *)
(* times. The API takes a request whose clock is close and whose nonce it  *)
(* has not seen (auth.js), reads the staff member it acts for, and hands   *)
(* the operation on to the website's own worker under a session of two     *)
(* minutes made for that one request (session-bridge.js). A revert also    *)
(* spends a challenge, which its actor has verified by signing in to       *)
(* Discord in a browser (reauth.js).                                       *)
(*                                                                         *)
(* What the website's worker does for a delegated request is in the other  *)
(* modules. There is one client. Rate limits and the reading of the body   *)
(* are left out: both only refuse, or take time.                           *)
(***************************************************************************)
EXTENDS Integers, FiniteSets

CONSTANTS
    Actors,
    Nonces,          \* bound: the requests the bot signs; a nonce names one
    Wanted,          \* bound: the operations a request may be for
    Nobody, Unsent,
    Calls,           \* bound: calls of the API under way at a time
    Skew,            \* CLOCK_SKEW_SECONDS
    NonceTTL,        \* NONCE_TTL_SECONDS
    Latency,         \* the longest a call may take from reading the clock to
                     \* its nonce's insert
    ChallengeTTL,    \* CHALLENGE_TTL_SECONDS
    SessionTTL,      \* SESSION_TTL_SECONDS
    MaxTime          \* bound on the clock

ASSUME DurationAssumption ==
    /\ {Skew, Latency, MaxTime} \subseteq Nat
    /\ {NonceTTL, ChallengeTTL, SessionTTL} \subseteq Nat \ {0}
\* A nonce is kept until the last time its request could still be taken.
ASSUME NonceAssumption == 2 * Skew + Latency < NonceTTL

VARIABLES
    now,
    sent,         \* the requests the bot signed
    nonces,       \* the table bot_request_nonces
    challenges,   \* the table bot_reauth_challenges; a challenge is named
                  \* after the request that made it
    live, dead,   \* sessions of delegated requests, and those revoked
    call,         \* the calls under way
    admitted,     \* history: how often each request passed authentication
    proofs,       \* history: identities Discord confirmed for a challenge
    spent         \* history: challenges a revert was let through with

vars == <<now, sent, nonces, challenges, live, dead, call,
          admitted, proofs, spent>>
tables == <<nonces, challenges, live, dead>>
history == <<admitted, proofs, spent>>

Time == 0..MaxTime
\* "none": no active row, a role the bot gives nothing, or no website login
\* within seven days.
Roles == {"none", "editor", "developer"}
Ops == {"challenge", "look", "revert", "change", "sync"}
Request == [ts : Time, actor : Actors, op : Ops, challenge : Nonces]
ASSUME WantedAssumption == Wanted \in [Nonces -> SUBSET Ops]
ASSUME SentinelAssumption ==
    Unsent \notin Request /\ Nobody \notin Actors /\ Nobody \notin Nonces
NonceRow == [nonce : Nonces, ends : Nat]
Status == {"none", "pending", "verified", "consumed", "expired"}
Challenge == [status : Status, actor : Actors \cup {Nobody}, ends : Nat]
NoChallenge == [status |-> "none", actor |-> Nobody, ends |-> 0]
Token == [actor : Actors, iat : Time, fresh : BOOLEAN]
Ends(token) == token.iat + SessionTTL

(* A call carries the request, or for a callback its challenge and the     *)
(* person in the browser; the clock it last read; and its session.         *)
Steps == {"free", "nonce", "actor", "create", "look", "expire", "consume",
          "sync", "open", "base", "close", "verify"}
NewCall(step, nonce, who) ==
    [step |-> step, nonce |-> nonce, who |-> who, at |-> now]
Free == [step |-> "free", nonce |-> Nobody, who |-> Nobody, at |-> 0]
CallRecord == [step : Steps \ {"free"}, nonce : Nonces, who : Actors, at : Time]

TypeOK ==
    /\ now \in Time
    /\ sent \in [Nonces -> Request \cup {Unsent}]
    /\ nonces \subseteq NonceRow
    /\ challenges \in [Nonces -> Challenge]
    /\ live \subseteq Token /\ dead \subseteq Token /\ live \cap dead = {}
    /\ call \in [Calls -> CallRecord \cup {Free}]
    /\ admitted \in [Nonces -> Nat]
    /\ proofs \subseteq [challenge : Nonces, who : Actors, at : Time]
    /\ spent \subseteq [challenge : Nonces, nonce : Nonces, actor : Actors,
                        at : Time]

Init ==
    /\ now = 0
    /\ sent = [n \in Nonces |-> Unsent]
    /\ nonces = {}
    /\ challenges = [n \in Nonces |-> NoChallenge]
    /\ live = {} /\ dead = {}
    /\ call = [c \in Calls |-> Free]
    /\ admitted = [n \in Nonces |-> 0]
    /\ proofs = {} /\ spent = {}

Msg(c) == sent[call[c].nonce]
Actor(c) == Msg(c).actor
Step(c, step) == call' = [call EXCEPT ![c].step = step]
\* Goes on to a step that uses the time at which it begins.
StepAt(c, step) == call' = [call EXCEPT ![c].step = step, ![c].at = now]
Finish(c) == call' = [call EXCEPT ![c] = Free]

-----------------------------------------------------------------------------
(* Authentication (auth.js).                                               *)

\* What the bot may have signed with a nonce.
Signed(n) ==
    IF sent[n] # Unsent THEN {sent[n]}
    ELSE [ts : Time, actor : Actors, op : Wanted[n], challenge : Nonces]

InTime(ts) == ts - now <= Skew /\ now - ts <= Skew

\* A request arrives for the first time, or again. One that is about no challenge
\* names its own.
Receive(c, n, m) ==
    /\ call[c].step = "free"
    /\ InTime(m.ts)
    /\ IF m.op \in {"look", "revert"} THEN "challenge" \in Wanted[m.challenge]
       ELSE m.challenge = n
    /\ sent' = [sent EXCEPT ![n] = m]
    /\ call' = [call EXCEPT ![c] = NewCall("nonce", n, m.actor)]
    /\ UNCHANGED <<now, tables, history>>

\* Mutant: the nonce expires with the request's window.
NonceEnds_Early(at) == at + Skew
NonceEnds(at) == at + NonceTTL

Seen(n) == \E row \in nonces : row.nonce = n

\* consumeNonce; the primary key refuses a nonce that is there.
ConsumeNonce(c) ==
    LET n == call[c].nonce
    IN /\ call[c].step = "nonce" /\ now - call[c].at <= Latency
       /\ ~Seen(n)
       /\ nonces' = nonces \cup {[nonce |-> n, ends |-> NonceEnds(call[c].at)]}
       /\ admitted' = [admitted EXCEPT ![n] = @ + 1]
       /\ Step(c, IF Msg(c).op = "sync" THEN "sync" ELSE "actor")
       /\ UNCHANGED <<now, sent, challenges, live, dead, proofs,
                      spent>>

RefuseNonce(c) ==
    /\ call[c].step = "nonce" /\ Seen(call[c].nonce)
    /\ Finish(c)
    /\ UNCHANGED <<now, sent, tables, history>>

\* By one request in sixteen, and by the scheduled cleanup; LIMIT may leave some.
ForgetNonces(row) ==
    /\ row \in nonces /\ row.ends <= now
    /\ nonces' = nonces \ {row}
    /\ UNCHANGED <<now, sent, challenges, live, dead, call, history>>

-----------------------------------------------------------------------------
(* Dispatch (router.js).                                                   *)

FirstStep(op) ==
    CASE op = "challenge" -> "create" [] op = "look" -> "look"
      [] op = "revert" -> "consume" [] OTHER -> "open"

HasCapability(r, op) == r = "developer" \/ (r = "editor" /\ op = "change")

\* The users' rows may change at any time, so that what is read is any role.
LoadActor(c, role) ==
    /\ call[c].step = "actor"
    /\ IF HasCapability(role, Msg(c).op)
       THEN StepAt(c, FirstStep(Msg(c).op)) ELSE Finish(c)
    /\ UNCHANGED <<now, sent, tables, history>>

\* The sync of names and avatars acts for the service, on columns that carry no
\* rights.
Sync(c) ==
    /\ call[c].step = "sync"
    /\ Finish(c)
    /\ UNCHANGED <<now, sent, tables, history>>

-----------------------------------------------------------------------------
(* Challenges (reauth.js).                                                 *)

CreateChallenge(c) ==
    LET n == call[c].nonce
    IN /\ call[c].step = "create" /\ challenges[n].status = "none"
       /\ challenges' = [challenges EXCEPT ![n] =
            [status |-> "pending", actor |-> Actor(c),
             ends |-> call[c].at + ChallengeTTL]]
       /\ Finish(c)
       /\ UNCHANGED <<now, sent, nonces, live, dead, history>>

\* cleanupChallenges when one is created, and the scheduled cleanup.
ForgetChallenge(k) ==
    /\ \/ challenges[k].status \in {"consumed", "expired"}
       \/ challenges[k].status # "none" /\ challenges[k].ends <= now
    /\ challenges' = [challenges EXCEPT ![k] = NoChallenge]
    /\ UNCHANGED <<now, sent, nonces, live, dead, call, history>>

\* getReauthChallenge: the read, and the update that follows from it.
LookAtChallenge(c) ==
    LET row == challenges[Msg(c).challenge]
    IN /\ call[c].step = "look"
       /\ IF /\ row.status \notin {"none", "consumed"}
             /\ row.actor = Actor(c) /\ row.ends <= call[c].at
          THEN Step(c, "expire") ELSE Finish(c)
       /\ UNCHANGED <<now, sent, tables, history>>

ExpireChallenge(c) ==
    LET k == Msg(c).challenge
    IN /\ call[c].step = "expire"
       /\ challenges' = [challenges EXCEPT ![k].status =
                           IF @ \in {"pending", "verified"} THEN "expired" ELSE @]
       /\ Finish(c)
       /\ UNCHANGED <<now, sent, nonces, live, dead, history>>

\* Mutant: whoever holds a verified challenge may spend it.
Spendable_ByAnyone(row, actor, at) == row.status = "verified" /\ row.ends > at
Spendable(row, actor, at) ==
    row.status = "verified" /\ row.actor = actor /\ row.ends > at

\* consumeReauthChallenge, one statement; the revert is delegated after it.
ConsumeChallenge(c) ==
    LET k == Msg(c).challenge
    IN /\ call[c].step = "consume"
       /\ IF Spendable(challenges[k], Actor(c), call[c].at)
          THEN /\ challenges' = [challenges EXCEPT ![k].status = "consumed"]
               /\ spent' = spent \cup
                    {[challenge |-> k, nonce |-> call[c].nonce,
                      actor |-> Actor(c), at |-> call[c].at]}
               /\ StepAt(c, "open")
          ELSE Finish(c) /\ UNCHANGED <<challenges, spent>>
       /\ UNCHANGED <<now, sent, nonces, live, dead, admitted, proofs>>

\* handleReauthCallback: a browser comes back from Discord with the state of a
\* challenge. The row is read; whoever sits there signs in.
Callback(c, k, who) ==
    /\ call[c].step = "free"
    /\ challenges[k].status = "pending" /\ challenges[k].ends > now
    /\ call' = [call EXCEPT ![c] = NewCall("verify", k, who)]
    /\ UNCHANGED <<now, sent, tables, history>>

\* Mutant: whatever the row is by now.
Verifiable_Always(k) == challenges[k].status # "none"
Verifiable(k) == challenges[k].status = "pending"

\* Discord has answered; another person than the actor is refused. The update is
\* for a pending row, which may have ended by now.
Verify(c) ==
    LET k == call[c].nonce
    IN /\ call[c].step = "verify" /\ call[c].who = challenges[k].actor
       /\ IF Verifiable(k)
          THEN /\ challenges' = [challenges EXCEPT ![k].status = "verified"]
               /\ proofs' = proofs \cup
                    {[challenge |-> k, who |-> call[c].who, at |-> now]}
          ELSE UNCHANGED <<challenges, proofs>>
       /\ Finish(c)
       /\ UNCHANGED <<now, sent, nonces, live, dead, admitted, spent>>

-----------------------------------------------------------------------------
(* Delegation (session-bridge.js).                                         *)

TokenOf(c) == [actor |-> Actor(c), iat |-> call[c].at,
               fresh |-> Msg(c).op = "revert"]

\* Mutant: INSERT OR IGNORE.
Insertable_Always(t) == TRUE
Insertable(t) == t \notin live \cup dead

\* createSession: the token of one actor and second is the same token, and its
\* row is there once.
OpenSession(c) ==
    /\ call[c].step = "open"
    /\ IF Insertable(TokenOf(c))
       THEN live' = live \cup {TokenOf(c)} /\ Step(c, "base")
       ELSE Finish(c) /\ UNCHANGED live
    /\ UNCHANGED <<now, sent, nonces, challenges, dead, history>>

\* The website's worker finds the session, and the user's rights once more.
Perform(c, role) ==
    /\ call[c].step = "base"
    /\ TokenOf(c) \in live /\ Ends(TokenOf(c)) > now
    /\ HasCapability(role, Msg(c).op)
    /\ Step(c, "close")
    /\ UNCHANGED <<now, sent, tables, history>>

\* The finally clause.
CloseSession(c) ==
    /\ call[c].step \in {"base", "close"}
    /\ live' = live \ {TokenOf(c)}
    /\ dead' = dead \cup ({TokenOf(c)} \cap live)
    /\ Finish(c)
    /\ UNCHANGED <<now, sent, nonces, challenges, history>>

ForgetSession(t) ==
    /\ t \in live \cup dead /\ Ends(t) <= now
    /\ live' = live \ {t} /\ dead' = dead \ {t}
    /\ UNCHANGED <<now, sent, nonces, challenges, call, history>>

-----------------------------------------------------------------------------

Die(c) ==
    /\ call[c].step # "free"
    /\ Finish(c)
    /\ UNCHANGED <<now, sent, tables, history>>

Tick ==
    /\ now < MaxTime
    /\ now' = now + 1
    /\ UNCHANGED <<sent, tables, call, history>>

Next ==
    \/ \E c \in Calls :
        \/ \E n \in Nonces : \E m \in Signed(n) : Receive(c, n, m)
        \/ \E k \in Nonces, who \in Actors : Callback(c, k, who)
        \/ \E role \in Roles : LoadActor(c, role) \/ Perform(c, role)
        \/ ConsumeNonce(c) \/ RefuseNonce(c) \/ Sync(c)
        \/ CreateChallenge(c) \/ LookAtChallenge(c) \/ ExpireChallenge(c)
        \/ ConsumeChallenge(c) \/ Verify(c)
        \/ OpenSession(c)  \/ CloseSession(c)
        \/ Die(c)
    \/ \E row \in nonces : ForgetNonces(row)
    \/ \E k \in Nonces : ForgetChallenge(k)
    \/ \E t \in live \cup dead : ForgetSession(t)
    \/ Tick

Spec == Init /\ [][Next]_vars

-----------------------------------------------------------------------------
(* Properties.                                                             *)

\* However often a signed request is delivered, it acts once: its nonce is not
\* forgotten while its clock would still be accepted (auth.js:68).
SignedRequestActsOnce == \A n \in Nonces : admitted[n] <= 1

\* One verification in the browser lets one revert through, also when two
\* browsers, two requests and a cleanup cross (reauth.js:117, reauth.js:152).
VerificationUsedOnce ==
    \A s, t \in spent : s.challenge = t.challenge => s = t

\* A revert is let through for the person whom Discord confirmed for it, no
\* longer before than a challenge lasts (reauth.js:150).
RevertsWereVerified ==
    \A s \in spent : \E p \in proofs :
        /\ p.challenge = s.challenge /\ p.who = s.actor
        /\ s.at - p.at < ChallengeTTL

\* A delegated request that still runs has its session to itself: no other
\* request of the same actor and second uses it or ends it
\* (session-bridge.js:48).
DelegatedSessionIsOwn ==
    \A c \in Calls :
        call[c].step \in {"base", "close"} /\ Ends(TokenOf(c)) > now =>
            /\ TokenOf(c) \in live
            /\ \A d \in Calls \ {c} :
                 call[d].step \in {"base", "close"} =>
                     TokenOf(d) # TokenOf(c)
=============================================================================
