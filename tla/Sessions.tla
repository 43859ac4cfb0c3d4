------------------------------- MODULE Sessions -------------------------------
(***************************************************************************)
(* Website sessions. A session cookie is a signed token: its user, the     *)
(* second it was issued, when it ends, when its user last proved their     *)
(* Discord identity, and whether it acts for the system account. A row of  *)
(* the table sessions, keyed by the token's hash, says whether it is live  *)
(* or revoked.                                                             *)
(*                                                                         *)
(* A request passes the session boundary (session-boundary.js), which      *)
(* takes a cookie without a live row away; then its handler, which trusts  *)
(* the signature alone; then the boundary again, which records a token the *)
(* handler issued and revokes those a login, a logout or a suspension      *)
(* ends. Requests for favorites are answered before the boundary           *)
(* (worker-entry.js:86). Requests interleave at every database call, take  *)
(* any time, and may die anywhere. Tokens are copied: whoever was ever     *)
(* answered a cookie may present it in any later request.                  *)
(*                                                                         *)
(* Beside logins this covers the requests whose rights depend on a session *)
(* (card commits, other card routes, the reset, team changes) as far as    *)
(* those rights go. The fallback for a database without the table is left  *)
(* out, as are origin checks and rate limits.                              *)
(***************************************************************************)
EXTENDS Integers, FiniteSets

CONSTANTS
    Users,
    SystemUser,      \* SYSTEM_DISCORD_USER_ID
    Requests,        \* bound: requests under way at a time
    NoToken, Keep,
    Lifetime,        \* SESSION_LIFETIME_SECONDS
    ReauthWindow,    \* REAUTH_WINDOW_SECONDS
    MaxTime,         \* bound on the clock
    MaxServed        \* bound on the requests in all

ASSUME UserAssumption == SystemUser \in Users
ASSUME TimeAssumption ==
    /\ Lifetime \in Nat \ {0} /\ ReauthWindow \in Nat
    /\ MaxTime \in Nat /\ MaxServed \in Nat

Time == 0..MaxTime
Token == [uid : Users, iat : Time, exp : Nat, reauth : Time,
          mode : {"user", "system"}]
ASSUME SentinelAssumption ==
    NoToken \notin Token /\ Keep \notin {"viewer", "editor", "manager"}
                         /\ Keep \notin {"active", "disabled"}

VARIABLES
    now,
    users,      \* the table users: whether there is a row, its role, status
    live,       \* the table sessions: rows with revoked_at NULL, and others
    revoked,
    held,       \* history: tokens answered to a client, all of which may be
                \* presented again
    ended,      \* history: tokens revoked at some time
    proofs,     \* history: Discord identities proved, with the time
    swept,      \* history: sessions live when a suspension was written that
                \* has been answered since
    req,        \* the requests under way
    served

vars == <<now, users, live, revoked, held, ended, proofs, swept, req, served>>
tables == <<users, live, revoked>>
history == <<ended, proofs, swept>>

Row == [known : BOOLEAN, role : {"viewer", "editor", "manager"},
        status : {"active", "disabled"}]
NoRow == [known |-> FALSE, role |-> "viewer", status |-> "active"]
Active(role) == [known |-> TRUE, role |-> role, status |-> "active"]
IsDisabled(row) == row.known /\ row.status = "disabled"

(* A request: the cookie the boundary has left it, whether that session    *)
(* had been ended before it arrived, the user it is about, the row it read *)
(* of them, what a PATCH asks, the token it issues.                        *)
NoAsk == [role |-> Keep, status |-> Keep]
Asks == {NoAsk, [role |-> Keep, status |-> "disabled"],
         [role |-> Keep, status |-> "active"],
         [role |-> "viewer", status |-> Keep]}
Opened(step, kind, cookie, late, user, asks) ==
    [step |-> step, kind |-> kind, cookie |-> cookie, late |-> late,
     user |-> user, saw |-> NoRow, asks |-> asks, issued |-> NoToken,
     dooms |-> {}]
Free == Opened("free", "none", NoToken, FALSE, SystemUser, NoAsk)
Steps == {"free", "lookup", "issue", "admit", "act", "write", "reread",
          "register", "replace", "clear", "sweep"}
Kinds == {"none", "login", "logout", "system", "commit", "route", "reset",
          "patch", "invite", "favorite"}

TypeOK ==
    /\ now \in Time
    /\ users \in [Users -> Row]
    /\ live \subseteq Token /\ revoked \subseteq Token
    /\ live \cap revoked = {}
    /\ held \subseteq Token /\ ended \subseteq Token /\ swept \subseteq Token
    /\ proofs \subseteq Users \X Time
    /\ req \in [Requests ->
         [step : Steps, kind : Kinds, cookie : Token \cup {NoToken},
          late : BOOLEAN, user : Users, saw : Row, asks : Asks,
          issued : Token \cup {NoToken}, dooms : SUBSET Token]]
    /\ served \in 0..MaxServed

\* issueSessionCookie
NewToken(u, t, reauth, mode) ==
    [uid |-> u, iat |-> t, exp |-> t + Lifetime, reauth |-> reauth,
     mode |-> mode]
\* Two people have signed in: a manager, who may use the system account, and an
\* editor. Of anybody else there is no row.
Init ==
    \E editors \in {{}} \cup {{u} : u \in Users \ {SystemUser}} :
        /\ now = 0
        /\ users = [u \in Users |->
                      IF u = SystemUser THEN Active("manager")
                      ELSE IF u \in editors THEN Active("editor")
                      ELSE NoRow]
        /\ live = {NewToken(u, 0, 0, "user") : u \in editors \cup {SystemUser}}
        /\ revoked = {}
        /\ held = live
        /\ ended = {}
        /\ proofs = {<<u, 0>> : u \in editors \cup {SystemUser}}
        /\ swept = {}
        /\ req = [r \in Requests |-> Free]
        /\ served = 0

-----------------------------------------------------------------------------
(* The boundary, before the handler.                                       *)

IsLive(t) == t \in live /\ t.exp > now

FirstStep(kind) ==
    IF kind = "login" THEN "lookup"
    ELSE IF kind = "logout" THEN "clear" ELSE "admit"

\* Mutant: the cards' routes are answered before the boundary, too.
PastBoundary_Routes(kind) == kind \in {"favorite", "route"}
\* worker-entry.js hands these to their handler with the cookie as it came.
PastBoundary(kind) == kind = "favorite"

\* A login may come with the cookie of another user, or none; other requests
\* that never had one are refused and left out, and so are changes of the system
\* account.
Arrive(r, kind, token, user, asks) ==
    /\ req[r].step = "free" /\ served < MaxServed
    /\ token = NoToken => kind = "login"
    /\ kind # "patch" => asks = NoAsk
    /\ kind \in {"patch", "invite"} => user # SystemUser
    /\ kind \notin {"patch", "invite", "login"} => user = SystemUser
    /\ LET kept == IF token # NoToken /\ (PastBoundary(kind) \/ IsLive(token))
                   THEN token ELSE NoToken
       IN req' = [req EXCEPT ![r] = Opened(FirstStep(kind), kind, kept,
                                           token \in ended, user, asks)]
    /\ served' = served + 1
    /\ UNCHANGED <<now, tables, held, history>>

-----------------------------------------------------------------------------
(* Who a request acts for.                                                 *)

\* readSession and getActorFromRequest: the token still runs, its user has a
\* row and is not suspended.
HasActor(r) ==
    LET t == req[r].cookie
    IN /\ t # NoToken /\ t.exp > now
       /\ users[t.uid].known /\ ~IsDisabled(users[t.uid])

ActorRole(r) ==
    LET t == req[r].cookie
    IN IF t.mode = "system" /\ t.uid = SystemUser THEN "manager"
       ELSE users[t.uid].role

Permits(role, kind) ==
    \/ role = "manager"
    \/ kind = "commit" /\ role = "editor"
    \/ kind \in {"system", "favorite"}

\* isFreshReauth, requireFreshReauth
Fresh(r) == now - req[r].cookie.reauth <= ReauthWindow

Authorized(r) ==
    /\ HasActor(r)
    /\ Permits(ActorRole(r), req[r].kind)
    /\ req[r].kind = "system" => req[r].cookie.uid = SystemUser
    /\ req[r].kind = "reset" => Fresh(r)

Step(r, step) == req' = [req EXCEPT ![r].step = step]
Finish(r) == req' = [req EXCEPT ![r] = Free]

\* authorizeSiteStateMutation, before the wait for the lock; for favorites,
\* getSessionFavoriteActor.
Admit(r) ==
    /\ req[r].step = "admit"
    /\ req[r].kind \in {"commit", "route", "reset", "favorite"}
    /\ Authorized(r)
    /\ Step(r, "act")
    /\ UNCHANGED <<now, tables, held, history, served>>

OnAdmission(kind) == kind \in {"commit", "favorite"}

\* Under the lock, or on the favorites' rows. A card commit and a favorite rely
\* on their admission; other routes read the session and the user once more, and
\* the reset asks again for a fresh login.
Act(r) ==
    /\ req[r].step = "act"
    /\ OnAdmission(req[r].kind) \/ Authorized(r)
    /\ Finish(r)
    /\ UNCHANGED <<now, tables, held, history, served>>

Refuse(r) ==
    /\ \/ req[r].step = "admit"
       \/ req[r].step = "act" /\ ~OnAdmission(req[r].kind)
    /\ ~Authorized(r)
    /\ Finish(r)
    /\ UNCHANGED <<now, tables, held, history, served>>

\* The system account keeps the time its user last proved their identity.
SystemReauth(r) == req[r].cookie.reauth

IssueSystem(r) ==
    /\ req[r].step = "admit" /\ req[r].kind = "system" /\ Authorized(r)
    /\ req' = [req EXCEPT ![r].step = "register", ![r].issued =
                 NewToken(req[r].cookie.uid, now, SystemReauth(r), "system")]
    /\ UNCHANGED <<now, tables, held, history, served>>

-----------------------------------------------------------------------------
(* Logins.                                                                 *)

\* The identity is proved; its row is looked for.
Lookup(r) ==
    LET u == req[r].user
    IN /\ req[r].step = "lookup"
       /\ req' = [req EXCEPT ![r].step = "issue", ![r].saw = users[u]]
       /\ UNCHANGED <<now, tables, held, history, served>>

\* The profile's columns only; neither role nor status.
\* Mutant: the row is written whole.
Greeted_Afresh(u) == Active(users[u].role)
Greeted(u) == users[u]

Issue(r) ==
    LET u == req[r].user
        t == req[r].cookie
        mode == IF t # NoToken /\ t.exp > now /\ t.mode = "system"
                   /\ u = SystemUser THEN "system" ELSE "user"
    IN /\ req[r].step = "issue"
       /\ req[r].saw.known \/ ~users[u].known   \* else the insert fails
       /\ users' = [users EXCEPT ![u] =
                      IF req[r].saw.known THEN Greeted(u)
                      ELSE Active("viewer")]
       /\ proofs' = proofs \cup {<<u, now>>}
       /\ req' = [req EXCEPT ![r].step = "register",
                             ![r].issued = NewToken(u, now, now, mode)]
       /\ UNCHANGED <<now, live, revoked, held, ended, swept, served>>

-----------------------------------------------------------------------------
(* Team users.                                                             *)

\* The actor and the user to change are read.
Read(r) ==
    LET u == req[r].user
    IN /\ req[r].step = "admit" /\ req[r].kind \in {"patch", "invite"}
       /\ Authorized(r)
       /\ req[r].kind = "patch" => users[u].known
       /\ req' = [req EXCEPT ![r].step = "write", ![r].saw = users[u]]
       /\ UNCHANGED <<now, tables, held, history, served>>

Asked(value, stored) == IF value = Keep THEN stored ELSE value

\* PATCH writes what the body leaves out as it was read. POST inserts, or makes
\* an existing user active with the role asked for.
Written(r) ==
    LET ask == req[r].asks
        saw == req[r].saw
    IN IF req[r].kind = "invite"
       THEN Active("editor")
       ELSE [known |-> TRUE, role |-> Asked(ask.role, saw.role),
             status |-> Asked(ask.status, saw.status)]

Write(r) ==
    LET u == req[r].user
    IN /\ req[r].step = "write"
       /\ req[r].saw.known \/ ~users[u].known   \* else the insert fails
       /\ users' = [users EXCEPT ![u] = Written(r)]
       /\ req' = [req EXCEPT ![r].step = "reread",
                             ![r].dooms = {t \in live : t.uid = u}]
       /\ UNCHANGED <<now, live, revoked, held, history, served>>

\* The answer shows the row as it is now; only a PATCH is looked at by the
\* boundary.
Reread(r) ==
    LET u == req[r].user
    IN /\ req[r].step = "reread"
       /\ IF req[r].kind = "patch" /\ IsDisabled(users[u])
          THEN Step(r, "sweep") ELSE Finish(r)
       /\ UNCHANGED <<now, tables, held, history, served>>

-----------------------------------------------------------------------------
(* The boundary, after the handler.                                        *)

Revoke(tokens) ==
    /\ live' = live \ tokens
    /\ revoked' = revoked \cup (tokens \cap live)
    /\ ended' = ended \cup (tokens \cap live)

\* Mutant: INSERT OR REPLACE.
Inserted_Replacing(t) == {t}
\* The row may be there already, for a token of one user, second and mode is the
\* same token. A revoked row makes the insert fail.
Inserted(t) == {t} \ revoked

\* ensureSessionRegistered: an insert refused for its unique key names the table,
\* which counts as a missing table (session-boundary.js:86, 220), so the cookie
\* is answered all the same.
Register(r) ==
    LET t == req[r].issued
    IN /\ req[r].step = "register"
       /\ live' = live \cup Inserted(t)
       /\ IF req[r].cookie \notin {NoToken, t}
          THEN Step(r, "replace") /\ UNCHANGED held
          ELSE Finish(r) /\ held' = held \cup {t}
       /\ UNCHANGED <<now, users, revoked, history, served>>

Replace(r) ==
    /\ req[r].step = "replace"
    /\ Revoke({req[r].cookie})
    /\ held' = held \cup {req[r].issued}
    /\ Finish(r)
    /\ UNCHANGED <<now, users, proofs, swept, served>>

\* Logout answers an empty cookie.
Clear(r) ==
    /\ req[r].step = "clear"
    /\ Revoke({req[r].cookie} \ {NoToken})
    /\ Finish(r)
    /\ UNCHANGED <<now, users, held, proofs, swept, served>>

\* Mutant: the session the request came with.
Suspended_Own(r) == {req[r].cookie} \cap live
Suspended(r) == {t \in live : t.uid = req[r].user}

\* revokeDisabledUserSessions
Sweep(r) ==
    /\ req[r].step = "sweep"
    /\ Revoke(Suspended(r))
    /\ swept' = swept \cup req[r].dooms
    /\ Finish(r)
    /\ UNCHANGED <<now, users, held, proofs, served>>

-----------------------------------------------------------------------------

\* A statement fails, or the isolate goes away.
Die(r) ==
    /\ req[r].step # "free"
    /\ Finish(r)
    /\ UNCHANGED <<now, tables, held, history, served>>

\* Mutant: rows that still run.
Removable_Soon == {t \in live \cup revoked : t.exp <= now + 1}
Removable == {t \in live \cup revoked : t.exp <= now}

\* deleteExpiredSessions, in the maintenance.
CleanUp ==
    /\ Removable # {}
    /\ live' = live \ Removable
    /\ revoked' = revoked \ Removable
    /\ UNCHANGED <<now, users, held, history, req, served>>

Tick ==
    /\ now < MaxTime
    /\ now' = now + 1
    /\ UNCHANGED <<tables, held, history, req, served>>

Next ==
    \/ \E r \in Requests :
        \/ \E kind \in Kinds \ {"none"}, token \in held \cup {NoToken},
              user \in Users, asks \in Asks : Arrive(r, kind, token, user, asks)
        \/ Admit(r) \/ Act(r) \/ Refuse(r) \/ IssueSystem(r)
        \/ Lookup(r) \/ Issue(r) \/ Read(r) \/ Write(r) \/ Reread(r)
        \/ Register(r) \/ Replace(r) \/ Clear(r) \/ Sweep(r) \/ Die(r)
    \/ CleanUp
    \/ Tick

Spec == Init /\ [][Next]_vars

-----------------------------------------------------------------------------
(* Properties.                                                             *)

\* A session that has been revoked is never live again while it could still be
\* presented, although the same user may be issued the very same token once more
\* in that second (session-boundary.js:77).
RevocationIsFinal == \A t \in live \cap ended : t.exp <= now

\* A request that came with a session revoked before it arrived reaches nothing
\* but the favorites of its user: it changes neither cards nor team users, resets
\* nothing, and is issued no session of its own standing (session-boundary.js:26).
\* Favorites it does change, for their handler asks for the signature alone
\* (worker-entry.js:86, user-favorites.js:172).
RevokedCookieReachesOnlyFavorites ==
    \A r \in Requests :
        req[r].late =>
          /\ req[r].step \notin {"write", "reread", "sweep", "replace"}
          /\ req[r].step = "act" => req[r].kind = "favorite"
          /\ req[r].step = "register" => req[r].kind = "login"

\* No boundary, cleanup or other login takes a session away: while its token
\* runs, what a client was answered has a live row unless this very token has
\* been revoked. That may have been before this answer: a login, a logout and a
\* login within one second issue one token, whose second insert fails unnoticed
\* (session-boundary.js:86).
AnsweredSessionsWork ==
    \A t \in held : t.exp > now => t \in live \cup ended

\* Once a suspension has been answered, no session the user had when it was
\* written is live, whatever was registered or changed meanwhile
\* (session-boundary.js:171).
SuspendedSessionsStayDead == \A t \in live \cap swept : t.exp <= now

\* The site is reset only for a user who proved their Discord identity within
\* the window, also across the change to the system account (worker.js:1198).
ResetNeedsRecentLogin ==
    [][\A r \in Requests :
         Act(r) /\ req[r].kind = "reset" =>
           \E p \in proofs : p[1] = req[r].cookie.uid
                             /\ now - p[2] <= ReauthWindow]_vars

\* A suspension ends only by an invitation, by a PATCH that asks for it, or by a
\* PATCH that had read the user before (worker.js:1342); never by a login.
SuspensionOutlastsLogins ==
    [][\A u \in Users :
         IsDisabled(users[u]) /\ ~IsDisabled(users'[u]) =>
           \E r \in Requests :
             /\ req[r].step = "write" /\ req[r].user = u
             /\ \/ req[r].kind = "invite"
                \/ req[r].asks.status = "active"
                \/ ~IsDisabled(req[r].saw)]_vars
=============================================================================
