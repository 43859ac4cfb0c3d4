---------------------------- MODULE SiteStateLock ----------------------------
(***************************************************************************)
(* The lease lock that serialises every write of __system/site-state.json *)
(* (security/state-coordinator.js): one D1 row names the owner of the lock *)
(* and the time its lease ends. Every Worker invocation that mutates the   *)
(* site is a request with an owner token of its own (a random UUID), so a  *)
(* request and its token are the same value here. The row lives in D1, the *)
(* object in R2, and neither knows of the other: what keeps a stale owner  *)
(* from writing is only the renewal each write performs first.             *)
(*                                                                         *)
(* A statement sent to D1 carries the clock value its sender read earlier, *)
(* so reading the clock and executing the statement are separate steps,    *)
(* and other requests run in between. A request may be evicted at any step *)
(* (Crash); its row then stays until the lease runs out. Any call may      *)
(* fail, with or without having taken effect.                              *)
(*                                                                         *)
(* Changes is what a request asks of the object: the k-th write of request *)
(* r is the change <<r, k>>, merged into the latest object (mergeSiteState *)
(* applies only the request's own difference to it).                      *)
(***************************************************************************)
EXTENDS Naturals

CONSTANTS
    Requests,      \* Worker invocations that want the lock, one token each
    NoOwner,       \* stands for the missing lock row
    LeaseMs,       \* DEFAULT_LOCK_LEASE_MS
    MaxAttempts,   \* DEFAULT_LOCK_MAX_ATTEMPTS
    MaxLatency,    \* longest time from a renewal's clock read to the landing
                   \* of the R2 put it admits: a bound of the platform
    MaxWrites,     \* bound: writes of the object one request performs
    MaxTime        \* bound on the clock

ASSUME NoOwnerAssumption == NoOwner \notin Requests
ASSUME LimitsAssumption ==
    /\ LeaseMs \in Nat \ {0}
    /\ MaxAttempts \in Nat \ {0}
    /\ MaxLatency \in Nat
    /\ MaxWrites \in Nat
    /\ MaxTime \in Nat
\* The 120 s lease is longer than one D1 update followed by one R2 put.
ASSUME LatencyAssumption == MaxLatency < LeaseMs

VARIABLES
    now,          \* the wall clock
    owner,        \* owner_token of the lock row, NoOwner when there is none
    expiresAt,    \* expires_at of the lock row
    object,       \* the changes the stored site state reflects
    pc,           \* where each request stands
    attempt,      \* acquisition attempts begun
    sample,       \* the clock value the request's own statements carry
    latest,       \* the object the pending write merges into, NoRead if none
    written,      \* writes of the object this request has seen land
    failed,       \* the callback threw
    renewalError, \* renewalError of the lease controller
    loop,         \* the background renewal loop: "idle" or "renewing"
    loopSample    \* the clock value the loop's renewal carries

lockRow == <<owner, expiresAt>>
vars == <<now, owner, expiresAt, object, pc, attempt, sample, latest, written,
          failed, renewalError, loop, loopSample>>

Changes == Requests \X (1..MaxWrites)
NoRead == [merge |-> FALSE, seen |-> {}]
ReadOf(changes) == [merge |-> TRUE, seen |-> changes]

PcStates == {"sampling", "checking", "trying", "waiting",
             "body", "asserting", "renewing", "putting",
             "stopping", "done", "errored", "refused", "crashed"}

\* The request is inside withSiteStateMutationLock with the lock acquired.
InCallback == {"body", "asserting", "renewing", "putting"}
Settled == {"done", "errored", "refused", "crashed"}

TypeOK ==
    /\ now \in Nat
    /\ owner \in Requests \cup {NoOwner}
    /\ expiresAt \in Nat
    /\ object \in SUBSET Changes
    /\ pc \in [Requests -> PcStates]
    /\ attempt \in [Requests -> Nat]
    /\ sample \in [Requests -> Nat]
    /\ latest \in [Requests -> [merge : BOOLEAN, seen : SUBSET Changes]]
    /\ written \in [Requests -> Nat]
    /\ failed \in [Requests -> BOOLEAN]
    /\ renewalError \in [Requests -> BOOLEAN]
    /\ loop \in [Requests -> {"idle", "renewing"}]
    /\ loopSample \in [Requests -> Nat]

Init ==
    /\ now = 0
    /\ owner = NoOwner
    /\ expiresAt = 0
    /\ object = {}
    /\ pc = [r \in Requests |-> "sampling"]
    /\ attempt = [r \in Requests |-> 0]
    /\ sample = [r \in Requests |-> 0]
    /\ latest = [r \in Requests |-> NoRead]
    /\ written = [r \in Requests |-> 0]
    /\ failed = [r \in Requests |-> FALSE]
    /\ renewalError = [r \in Requests |-> FALSE]
    /\ loop = [r \in Requests |-> "idle"]
    /\ loopSample = [r \in Requests |-> 0]

Goto(r, label) == pc' = [pc EXCEPT ![r] = label]

\* A variable that is out of scope is reset, to keep the state space small.
ForgetSample(r) == sample' = [sample EXCEPT ![r] = 0]
ForgetLocals(r) ==
    /\ ForgetSample(r)
    /\ latest' = [latest EXCEPT ![r] = NoRead]
    /\ failed' = [failed EXCEPT ![r] = FALSE]
    /\ renewalError' = [renewalError EXCEPT ![r] = FALSE]
    /\ loop' = [loop EXCEPT ![r] = "idle"]
    /\ loopSample' = [loopSample EXCEPT ![r] = 0]

-----------------------------------------------------------------------------
(* Acquiring the lock: up to MaxAttempts rounds of clock, check and upsert. *)

\* The head of the loop: read the clock; only the first round skips the check.
BeginAttempt(r) ==
    /\ pc[r] = "sampling"
    /\ attempt[r] < MaxAttempts
    /\ sample' = [sample EXCEPT ![r] = now]
    /\ attempt' = [attempt EXCEPT ![r] = @ + 1]
    /\ Goto(r, IF attempt[r] = 0 THEN "trying" ELSE "checking")
    /\ UNCHANGED <<now, lockRow, object, latest, written, failed,
                   renewalError, loop, loopSample>>

\* isLockAvailable: a failed SELECT counts as available.
CheckAvailable(r) ==
    /\ pc[r] = "checking"
    /\ \/ /\ owner = NoOwner \/ expiresAt <= sample[r]
          /\ Goto(r, "trying")
          /\ UNCHANGED sample
       \/ /\ owner # NoOwner /\ expiresAt > sample[r]
          /\ Goto(r, "waiting")
          /\ ForgetSample(r)
       \/ Goto(r, "trying") /\ UNCHANGED sample
    /\ UNCHANGED <<now, lockRow, object, attempt, latest, written, failed,
                   renewalError, loop, loopSample>>

\* Mutant: the upsert has no WHERE clause and replaces a live row.
CanTake_IgnoresLease(r) == TRUE

\* tryAcquireLock: the upsert replaces no row but an expired one.
CanTake(r) == owner = NoOwner \/ expiresAt <= sample[r]

Take(r) ==
    /\ owner' = r
    /\ expiresAt' = sample[r] + LeaseMs

Acquire(r) ==
    /\ pc[r] = "trying"
    /\ CanTake(r)
    /\ Take(r)
    /\ Goto(r, "asserting")     \* the callback starts with assertActive()
    /\ ForgetSample(r)
    /\ UNCHANGED <<now, object, attempt, latest, written, failed,
                   renewalError, loop, loopSample>>

\* The upsert found a live row.
AcquireBusy(r) ==
    /\ pc[r] = "trying"
    /\ ~CanTake(r)
    /\ Goto(r, "waiting")
    /\ ForgetSample(r)
    /\ UNCHANGED <<now, lockRow, object, attempt, latest, written, failed,
                   renewalError, loop, loopSample>>

\* The upsert's answer is lost: the exception leaves the function before its
\* try block, so nobody deletes a row that was written.
AcquireError(r) ==
    /\ pc[r] = "trying"
    /\ \/ CanTake(r) /\ Take(r)
       \/ UNCHANGED lockRow
    /\ Goto(r, "refused")
    /\ ForgetLocals(r)
    /\ UNCHANGED <<now, object, attempt, written>>

\* Mutant: the loop sleeps after its last attempt too, and never gives up.
Retry_NoLimit(r) ==
    /\ pc[r] = "waiting"
    /\ Goto(r, "sampling")
    /\ UNCHANGED <<now, lockRow, object, attempt, sample, latest, written,
                   failed, renewalError, loop, loopSample>>

\* Sleep and go round again, or give up with SiteStateLockError.
Retry(r) ==
    /\ pc[r] = "waiting"
    /\ Goto(r, IF attempt[r] < MaxAttempts THEN "sampling" ELSE "refused")
    /\ UNCHANGED <<now, lockRow, object, attempt, sample, latest, written,
                   failed, renewalError, loop, loopSample>>

-----------------------------------------------------------------------------
(* Renewal. queueRenewal chains every renewal behind the one before it, so *)
(* at most one UPDATE of a request is in flight.                           *)

HoldsAt(r, time) == owner = r /\ expiresAt > time

\* UPDATE ... WHERE owner_token = mine AND expires_at > the carried clock.
Extend(r, time) ==
    /\ HoldsAt(r, time)
    /\ owner' = owner
    /\ expiresAt' = time + LeaseMs

LoopBegin(r) ==
    /\ pc[r] \in {"body", "putting"}
    /\ loop[r] = "idle"
    /\ ~renewalError[r]
    /\ loop' = [loop EXCEPT ![r] = "renewing"]
    /\ loopSample' = [loopSample EXCEPT ![r] = now]
    /\ UNCHANGED <<now, lockRow, object, pc, attempt, sample, latest, written,
                   failed, renewalError>>

LoopRenew(r) ==
    /\ loop[r] = "renewing"
    /\ Extend(r, loopSample[r])
    /\ loop' = [loop EXCEPT ![r] = "idle"]
    /\ loopSample' = [loopSample EXCEPT ![r] = 0]
    /\ UNCHANGED <<now, object, pc, attempt, sample, latest, written, failed,
                   renewalError>>

\* No row matched, or the statement itself failed (applied or not).
LoopLost(r) ==
    /\ loop[r] = "renewing"
    /\ Extend(r, loopSample[r]) \/ UNCHANGED lockRow
    /\ renewalError' = [renewalError EXCEPT ![r] = TRUE]
    /\ loop' = [loop EXCEPT ![r] = "idle"]
    /\ loopSample' = [loopSample EXCEPT ![r] = 0]
    /\ UNCHANGED <<now, object, pc, attempt, sample, latest, written, failed>>

-----------------------------------------------------------------------------
(* The callback: reads, assertions of the lease, writes of the object.     *)

\* assertActive() on its own, as before every deletion of a media object.
AssertActive(r) ==
    /\ pc[r] = "body"
    /\ latest' = [latest EXCEPT ![r] = NoRead]
    /\ Goto(r, "asserting")
    /\ UNCHANGED <<now, lockRow, object, attempt, sample, written, failed,
                   renewalError, loop, loopSample>>

\* The bucket adapter's put: read the stored object, merge, then assert.
BeginWrite(r) ==
    /\ pc[r] = "body"
    /\ written[r] < MaxWrites
    /\ latest' = [latest EXCEPT ![r] = ReadOf(object)]
    /\ Goto(r, "asserting")
    /\ UNCHANGED <<now, lockRow, object, attempt, sample, written, failed,
                   renewalError, loop, loopSample>>

\* assertActive() reaches the head of the chain and reads the clock.
AssertBegin(r) ==
    /\ pc[r] = "asserting"
    /\ loop[r] = "idle"
    /\ ~renewalError[r]
    /\ sample' = [sample EXCEPT ![r] = now]
    /\ Goto(r, "renewing")
    /\ UNCHANGED <<now, lockRow, object, attempt, latest, written, failed,
                   renewalError, loop, loopSample>>

AssertRenew(r) ==
    /\ pc[r] = "renewing"
    /\ Extend(r, sample[r])
    /\ \/ latest[r].merge /\ Goto(r, "putting") /\ UNCHANGED sample
       \/ ~latest[r].merge /\ Goto(r, "body") /\ ForgetSample(r)
    /\ UNCHANGED <<now, object, attempt, latest, written, failed,
                   renewalError, loop, loopSample>>

\* The renewal matched no row or failed: assertActive throws, nothing is put.
AssertLost(r) ==
    /\ pc[r] = "renewing"
    /\ Extend(r, sample[r]) \/ UNCHANGED lockRow
    /\ renewalError' = [renewalError EXCEPT ![r] = TRUE]
    /\ failed' = [failed EXCEPT ![r] = TRUE]
    /\ Goto(r, "stopping")
    /\ ForgetSample(r)
    /\ latest' = [latest EXCEPT ![r] = NoRead]
    /\ UNCHANGED <<now, object, attempt, written, loop, loopSample>>

\* The error of an earlier renewal surfaces.
AssertRejected(r) ==
    /\ pc[r] = "asserting"
    /\ loop[r] = "idle"
    /\ renewalError[r]
    /\ failed' = [failed EXCEPT ![r] = TRUE]
    /\ Goto(r, "stopping")
    /\ latest' = [latest EXCEPT ![r] = NoRead]
    /\ UNCHANGED <<now, lockRow, object, attempt, sample, written,
                   renewalError, loop, loopSample>>

\* Mutant: the adapter stores the caller's copy instead of the merged object.
Merged_CallerCopy(r) == {<<r, k>> : k \in 1..(written[r] + 1)}

\* What the put stores: the object read before the assertion, and the change.
Merged(r) == latest[r].seen \cup {<<r, written[r] + 1>>}

PutLands(r) ==
    /\ pc[r] = "putting"
    /\ object' = Merged(r)
    /\ written' = [written EXCEPT ![r] = @ + 1]
    /\ latest' = [latest EXCEPT ![r] = NoRead]
    /\ Goto(r, "body")
    /\ ForgetSample(r)
    /\ UNCHANGED <<now, lockRow, attempt, failed, renewalError, loop,
                   loopSample>>

\* R2 answers with an error, the object stored or not; the callback throws.
PutError(r) ==
    /\ pc[r] = "putting"
    /\ \/ object' = Merged(r)
       \/ UNCHANGED object
    /\ latest' = [latest EXCEPT ![r] = NoRead]
    /\ failed' = [failed EXCEPT ![r] = TRUE]
    /\ Goto(r, "stopping")
    /\ ForgetSample(r)
    /\ UNCHANGED <<now, lockRow, attempt, written, renewalError, loop,
                   loopSample>>

\* The callback returns, or throws of its own accord.
Leave(r) ==
    /\ pc[r] = "body"
    /\ \E thrown \in BOOLEAN : failed' = [failed EXCEPT ![r] = thrown]
    /\ Goto(r, "stopping")
    /\ UNCHANGED <<now, lockRow, object, attempt, sample, latest, written,
                   renewalError, loop, loopSample>>

\* finally: lease.stop() waits for the loop, then the row is deleted if it is
\* still ours.
DropOwnRow(r) ==
    /\ owner' = IF owner = r THEN NoOwner ELSE owner
    /\ expiresAt' = IF owner = r THEN 0 ELSE expiresAt

Release(r) ==
    /\ pc[r] = "stopping"
    /\ loop[r] = "idle"
    /\ DropOwnRow(r)
    /\ Goto(r, IF failed[r] THEN "errored" ELSE "done")
    /\ ForgetLocals(r)
    /\ UNCHANGED <<now, object, attempt, written>>

\* The DELETE fails: its error replaces the callback's own result.
ReleaseError(r) ==
    /\ pc[r] = "stopping"
    /\ loop[r] = "idle"
    /\ DropOwnRow(r) \/ UNCHANGED lockRow
    /\ Goto(r, "errored")
    /\ ForgetLocals(r)
    /\ UNCHANGED <<now, object, attempt, written>>

-----------------------------------------------------------------------------
(* The environment.                                                        *)

\* Eviction of the isolate. A put that was on its way may land just before.
Crash(r) ==
    /\ pc[r] \notin Settled
    /\ attempt[r] > 0
    /\ Goto(r, "crashed")
    /\ ForgetLocals(r)
    /\ UNCHANGED <<now, lockRow, object, attempt, written>>

\* Time passes, but never past the latency bound of a write under way.
Tick ==
    /\ now < MaxTime
    /\ \A r \in Requests :
           pc[r] \in {"renewing", "putting"} => now < sample[r] + MaxLatency
    /\ now' = now + 1
    /\ UNCHANGED <<lockRow, object, pc, attempt, sample, latest, written,
                   failed, renewalError, loop, loopSample>>

\* Everything is settled; the system waits for requests that never come.
Finished ==
    /\ \A r \in Requests : pc[r] \in Settled
    /\ UNCHANGED vars

-----------------------------------------------------------------------------
AcquireStep(r) ==
    BeginAttempt(r) \/ CheckAvailable(r) \/ Acquire(r)
    \/ AcquireBusy(r) \/ AcquireError(r) \/ Retry(r)
LoopStep(r) == LoopBegin(r) \/ LoopRenew(r) \/ LoopLost(r)
CallbackStep(r) ==
    AssertActive(r) \/ BeginWrite(r) \/ AssertBegin(r) \/ AssertRenew(r)
    \/ AssertLost(r) \/ AssertRejected(r) \/ PutLands(r) \/ PutError(r)
    \/ Leave(r) \/ Release(r) \/ ReleaseError(r)
RequestStep(r) == AcquireStep(r) \/ LoopStep(r) \/ CallbackStep(r)

Next ==
    \/ \E r \in Requests : RequestStep(r) \/ Crash(r)
    \/ Tick
    \/ Finished

Spec == Init /\ [][Next]_vars

\* Promises settle: a sent statement is answered, a sleep ends, a queued
\* renewal gets its turn, and the callback eventually returns.
Fairness ==
    \A r \in Requests :
        /\ WF_vars(AcquireStep(r) /\ attempt[r] > 0)
        /\ WF_vars(LoopRenew(r) \/ LoopLost(r))
        /\ WF_vars(AssertBegin(r) \/ AssertRejected(r))
        /\ WF_vars(AssertRenew(r) \/ AssertLost(r))
        /\ WF_vars(PutLands(r) \/ PutError(r))
        /\ SF_vars(Leave(r))
        /\ WF_vars(Release(r) \/ ReleaseError(r))

FairSpec == Spec /\ Fairness

-----------------------------------------------------------------------------
(* Properties.                                                             *)

\* A put is in flight only from the request the lock row names, with time
\* left on its lease: the renewal made before the put (and not atomically
\* with it) is enough of a fence as long as the latency bound holds.
WriterHoldsLease ==
    \A r \in Requests : pc[r] = "putting" => HoldsAt(r, now)

\* At most one request ever has a put of the object in flight, though a
\* request that lost its lease may still be running its callback.
SingleWriter ==
    \A r, s \in Requests :
        pc[r] = "putting" /\ pc[s] = "putting" => r = s

\* A request that answered with success finds all its writes in the object,
\* whatever requests, crashes and expired leases came between or after.
AcknowledgedChangesSurvive ==
    \A r \in Requests :
        pc[r] = "done" => \A k \in 1..written[r] : <<r, k>> \in object

\* No step takes a change out of the object: the write-after-read of the
\* merging bucket is never based on a superseded read.
NoLostUpdate == [][object \subseteq object']_vars

\* A lease never outlasts the clock by more than LeaseMs, so an owner that
\* crashed keeps the others out for at most that long.
LeaseIsBounded == owner # NoOwner => expiresAt <= now + LeaseMs

\* Only the request the row names may remove it while its lease runs; the
\* others wait for the lease to end.
LiveLockIsNotStolen ==
    [][\A r \in Requests :
           (HoldsAt(r, now) /\ owner' # r) => pc[r] = "stopping"]_vars

\* Every request that starts is answered or evicted: the retry loop ends
\* after MaxAttempts, stop() does not wait on itself, and an assertion queued
\* behind a renewal that fails is rejected.
EveryRequestSettles ==
    \A r \in Requests : (attempt[r] > 0) ~> (pc[r] \in Settled)

-----------------------------------------------------------------------------
(* Why the above holds: the inductive invariant.                           *)

\* No statement carries a clock value from the future.
SamplesArePast ==
    \A r \in Requests : sample[r] <= now /\ loopSample[r] <= now

\* The renewal that admits a write, and the write, stay within the latency
\* bound, and nothing else renews between them with an older clock.
WritesAreTimely ==
    \A r \in Requests :
        /\ pc[r] \in {"renewing", "putting"} => now <= sample[r] + MaxLatency
        /\ pc[r] = "renewing" => loop[r] = "idle"
        /\ pc[r] = "putting" /\ loop[r] = "renewing"
                => sample[r] <= loopSample[r]

\* A put under way is covered by the lease its own renewal obtained.
WritesAreCovered ==
    \A r \in Requests :
        pc[r] = "putting" =>
            /\ owner = r
            /\ expiresAt >= sample[r] + LeaseMs
            /\ latest[r].merge

\* A pending write of the owner rests on the object as it is now.
OwnerReadIsFresh ==
    \A r \in Requests :
        /\ latest[r].merge =>
               /\ pc[r] \in {"asserting", "renewing", "putting"}
               /\ written[r] < MaxWrites
        /\ latest[r].merge /\ owner = r => latest[r].seen = object

\* The object holds exactly the writes a running request has seen land.
WritesAreRecorded ==
    \A r \in Requests :
        /\ \A k \in 1..written[r] : <<r, k>> \in object
        /\ pc[r] \notin Settled \cup {"stopping"} =>
               \A k \in 1..MaxWrites : k > written[r] => <<r, k>> \notin object

IInv ==
    /\ TypeOK
    /\ SamplesArePast
    /\ LeaseIsBounded
    /\ WritesAreTimely
    /\ WritesAreCovered
    /\ OwnerReadIsFresh
    /\ WritesAreRecorded

Serial == INSTANCE SerialUpdates WITH applied <- object

\* The object is updated one whole change at a time.
ImplementsSerialUpdates == Serial!Spec
=============================================================================
