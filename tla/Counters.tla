--------------------------------- MODULE Counters ---------------------------------
(***************************************************************************)
(* The two kinds of counter in D1, each changed by one conditional upsert: *)
(* the fixed windows of the rate limits (rate-limit.js) and the monthly    *)
(* counters of bucket operations (r2-usage-boundary.js).                   *)
(*                                                                         *)
(* A request asks a chain of limits in turn: its user's and its network's  *)
(* (mutation-admission.js), two of its address (auth-rate-limit-           *)
(* boundary.js), or its bot's, its actor's and its operation's (auth.js).  *)
(* It brings the clock of its isolate, which it may have read up to Lag    *)
(* before its statement is applied. Rows are deleted by whichever isolate  *)
(* finds that due. What is admitted calls the buckets, and each call is    *)
(* reserved before.                                                        *)
(***************************************************************************)
EXTENDS Integers, Sequences

CONSTANTS
    Callers,         \* who asks: users, addresses, bots
    Slots,           \* the keys of the table: a limit's name and whom it counts
    Chain,           \* of each caller, the limits a request of his asks, in order
    Limit, Window,   \* of each slot
    Lag,             \* of the clocks
    Classes,         \* of bucket operations: A and B
    CallLimit,       \* of each class and month
    MaxTime, MaxAsked, MaxPeriod,    \* bounds
    None

ASSUME CountersAssumption ==
    /\ Chain \in [Callers -> Seq(Slots) \ {<<>>}]
    /\ Limit \in [Slots -> Nat \ {0}] /\ Window \in [Slots -> Nat \ {0}]
    /\ {Lag, MaxTime, MaxAsked, MaxPeriod} \subseteq Nat
    /\ CallLimit \in [Classes -> Nat]
    /\ None \notin [start : Nat, count : Nat, expires : Nat]

VARIABLES
    now,
    row,             \* the table request_rate_limits_v2
    asked,           \* requests that have come
    waiting,         \* of each caller, requests that have passed so many limits
    admitted,        \* requests that call the buckets
    window,          \* history: of each counter, its current window
    period,          \* the month
    count,           \* the table r2_usage_counters
    reserved,        \* operations reserved and still to be called
    calls            \* history: operations called, by the month of their reservation

limits == <<row, asked, waiting, window>>
operations == <<count, reserved, calls>>
countersVars == <<now, period, limits, admitted, operations>>

-----------------------------------------------------------------------------
Waits == UNION {{c} \X (1..(Len(Chain[c]) - 1)) : c \in Callers}
Periods == 0..MaxPeriod

\* When a window was opened, when the one before it was, and the requests that
\* each allowed.
NoWindow(s) ==
    [opened |-> 0 - Window[s], before |-> 0 - 2 * Window[s], allowed |-> 0]

CountersTypeOK ==
    /\ now \in Nat /\ period \in Periods
    /\ row \in [Slots -> [start : Nat, count : Nat, expires : Nat] \cup {None}]
    /\ asked \in Nat /\ admitted \in Nat
    /\ waiting \in [Waits -> Nat]
    /\ window \in [Slots -> [opened : Int, before : Int, allowed : Nat]]
    /\ count \in [Periods -> [Classes -> Nat]]
    /\ reserved \in [Periods -> [Classes -> Nat]]
    /\ calls \in [Periods -> [Classes -> Nat]]

CountersInit ==
    /\ now = 0 /\ period = 0
    /\ row = [s \in Slots |-> None]
    /\ asked = 0 /\ waiting = [w \in Waits |-> 0] /\ admitted = 0
    /\ window = [s \in Slots |-> NoWindow(s)]
    /\ count = [p \in Periods |-> [c \in Classes |-> 0]]
    /\ reserved = count /\ calls = count

-----------------------------------------------------------------------------
(* consumeAtomicRateLimit                                                  *)

\* A clock that was read at most Lag ago.
Clock == {at \in (now - Lag)..now : at >= 0}

\* Whether the statement opens a new window. Mutant: a window counts from its
\* last request.
Opens_FromNow(s, at) == row[s] = None \/ row[s].start < at
Opens(s, at) == row[s] = None \/ row[s].expires <= at

Fresh(s, at) == [start |-> at, count |-> 1, expires |-> at + Window[s]]
Counted(s, at) ==
    IF Opens(s, at) THEN Fresh(s, at)
    ELSE [start |-> row[s].start, count |-> row[s].count + 1,
          expires |-> row[s].expires]

Allowed(s, at) == Counted(s, at).count <= Limit[s]
One(s, at) == IF Allowed(s, at) THEN 1 ELSE 0

Observed(s, at) ==
    IF Opens(s, at)
    THEN [opened |-> now, before |-> window[s].opened, allowed |-> One(s, at)]
    ELSE [opened |-> window[s].opened, before |-> window[s].before,
          allowed |-> window[s].allowed + One(s, at)]

\* A request that is refused counts too.
Consume(s, at) ==
    /\ row' = [row EXCEPT ![s] = Counted(s, at)]
    /\ window' = [window EXCEPT ![s] = Observed(s, at)]

\* n requests of c (one or none) have passed the i-th limit of his chain.
Pass(c, i, n, others) ==
    IF i = Len(Chain[c])
    THEN /\ admitted' = admitted + n
         /\ waiting' = others
    ELSE /\ waiting' = [others EXCEPT ![<<c, i>>] = @ + n]
         /\ UNCHANGED admitted

\* A request that a limit refuses does not reach those after it.
AskFirst(c, at) ==
    LET s == Chain[c][1]
    IN /\ asked < MaxAsked
       /\ asked' = asked + 1
       /\ Consume(s, at)
       /\ Pass(c, 1, One(s, at), waiting)
       /\ UNCHANGED <<now, period, operations>>

AskNext(c, i, at) ==
    LET s == Chain[c][i + 1]
    IN /\ waiting[<<c, i>>] > 0
       /\ Consume(s, at)
       /\ Pass(c, i + 1, One(s, at), [waiting EXCEPT ![<<c, i>>] = @ - 1])
       /\ UNCHANGED <<now, period, asked, operations>>

\* cleanupExpiredRowsWhenDue, which is due for an isolate that has just started.
\* Mutant: rows go by the start of their window.
Stale_ByStart(s, at) == row[s] # None /\ row[s].start <= at
Stale(s, at) == row[s] # None /\ row[s].expires <= at

CleanUp(at) ==
    /\ row' = [s \in Slots |-> IF Stale(s, at) THEN None ELSE row[s]]
    /\ UNCHANGED <<now, period, asked, waiting, window, admitted, operations>>

-----------------------------------------------------------------------------
(* createTrackedR2Bucket                                                   *)

Add(table, p, c, n) == [table EXCEPT ![p][c] = @ + n]

\* reserveR2Operation. Mutant: only the first operation of a month is compared
\* with the limit.
Fits_Inserted(c) == count[period][c] > 0 \/ 1 <= CallLimit[c]
Fits(c) == count[period][c] + 1 <= CallLimit[c]

Reserve(c) ==
    /\ admitted > 0 /\ Fits(c)
    /\ admitted' = admitted - 1
    /\ count' = Add(count, period, c, 1)
    /\ reserved' = Add(reserved, period, c, 1)
    /\ UNCHANGED <<now, period, limits, calls>>

\* R2UsageQuotaError
RefuseCall(c) ==
    /\ admitted > 0 /\ ~Fits(c)
    /\ admitted' = admitted - 1
    /\ UNCHANGED <<now, period, limits, operations>>

\* The call itself; the month may have ended meanwhile.
Call(p, c) ==
    /\ reserved[p][c] > 0
    /\ reserved' = Add(reserved, p, c, -1)
    /\ calls' = Add(calls, p, c, 1)
    /\ UNCHANGED <<now, period, limits, admitted, count>>

\* The isolate ends between the reservation and the call.
Die(p, c) ==
    /\ reserved[p][c] > 0
    /\ reserved' = Add(reserved, p, c, -1)
    /\ UNCHANGED <<now, period, limits, admitted, count, calls>>

-----------------------------------------------------------------------------
Tick ==
    /\ now < MaxTime
    /\ now' = now + 1
    /\ UNCHANGED <<period, limits, admitted, operations>>

NextMonth ==
    /\ period < MaxPeriod
    /\ period' = period + 1
    /\ UNCHANGED <<now, limits, admitted, operations>>

CountersNext ==
    \/ \E at \in Clock : \/ CleanUp(at) \/ \E c \in Callers : AskFirst(c, at)
                        \/ \E w \in Waits : AskNext(w[1], w[2], at)
    \/ \E c \in Classes : \/ Reserve(c) \/ RefuseCall(c)
                          \/ \E p \in Periods : Call(p, c) \/ Die(p, c)
    \/ Tick \/ NextMonth

CountersSpec == CountersInit /\ [][CountersNext]_countersVars

-----------------------------------------------------------------------------
(* Properties.                                                             *)

\* However late clocks are and whenever rows are deleted, a window allows no more
\* than its limit, and the next one opens no sooner than its time less Lag after it:
\* any time shorter than that sees at most twice the limit (rate-limit.js:17).
WindowsHold ==
    \A s \in Slots :
        /\ window[s].allowed <= Limit[s]
        /\ window[s].opened - window[s].before >= Window[s] - Lag

\* All requests together call a bucket no more often than the month's limit
\* allows, each call having been counted before it (r2-usage-boundary.js:60).
CallsAreCounted ==
    \A p \in Periods, c \in Classes :
        /\ calls[p][c] + reserved[p][c] <= count[p][c]
        /\ count[p][c] <= CallLimit[c]
================================================================================
