------------------------------ MODULE SiteStateProofs ------------------------------
(***************************************************************************)
(* Machine-checked proofs about the two modules in which the site state is *)
(* written.                                                                *)
(*                                                                         *)
(* Of SiteStateLock, for any set of requests and any lease, latency bound  *)
(* and number of attempts and writes that meet the assumptions. Everything *)
(* rests on the inductive invariant IInv: the renewal made before a put    *)
(* leaves a lease that the latency bound cannot use up, so the row still   *)
(* names the writer when the put lands, so nobody else wrote since the     *)
(* object was read.                                                        *)
(*                                                                         *)
(* Of MediaWrites, for any writers, objects and limit, from MediaInv: as   *)
(* long as no write of a request that has ended is on its way, the state   *)
(* grows by what the holder of the lock adds, one write at a time.         *)
(***************************************************************************)
EXTENDS SiteStateLock, MediaWrites, FiniteSetTheorems, TLAPS

USE NoOwnerAssumption, LimitsAssumption, LatencyAssumption

\* Before any request has taken a step, the invariant holds.
LEMMA InitEstablishesIInv == Init => IInv
  BY DEF Init, IInv, TypeOK, SamplesArePast, LeaseIsBounded, WritesAreTimely,
         WritesAreCovered, OwnerReadIsFresh, WritesAreRecorded, NoRead,
         PcStates, Settled, Changes

\* A step of the system is one action of one request, the clock, or nothing.
LEMMA StepCases ==
    ASSUME [Next]_vars
    PROVE  \/ \E r \in Requests :
                 \/ BeginAttempt(r) \/ CheckAvailable(r) \/ Acquire(r)
                 \/ AcquireBusy(r) \/ AcquireError(r) \/ Retry(r)
                 \/ LoopBegin(r) \/ LoopRenew(r) \/ LoopLost(r)
                 \/ AssertActive(r) \/ BeginWrite(r) \/ AssertBegin(r)
                 \/ AssertRenew(r) \/ AssertLost(r) \/ AssertRejected(r)
                 \/ PutLands(r) \/ PutError(r) \/ Leave(r)
                 \/ Release(r) \/ ReleaseError(r) \/ Crash(r)
           \/ Tick
           \/ UNCHANGED vars
  BY DEF Next, RequestStep, AcquireStep, LoopStep, CallbackStep, Finished

\* Each step keeps the types of the variables.
LEMMA TypeCorrect == IInv /\ [Next]_vars => TypeOK'
<1> SUFFICES ASSUME TypeOK, OwnerReadIsFresh, WritesAreCovered, [Next]_vars
             PROVE  TypeOK'
  BY DEF IInv
<1> USE DEF TypeOK, PcStates, lockRow
<1>1. ASSUME NEW r \in Requests, BeginAttempt(r) PROVE TypeOK'
  BY <1>1 DEF BeginAttempt, Goto
<1>2. ASSUME NEW r \in Requests, CheckAvailable(r) PROVE TypeOK'
  <2>1. sample' \in [Requests -> Nat]
    BY <1>2 DEF CheckAvailable, ForgetSample
  <2>2. pc' \in [Requests -> PcStates]
    BY <1>2 DEF CheckAvailable, Goto
  <2> QED
    BY <1>2, <2>1, <2>2 DEF CheckAvailable
<1>3. ASSUME NEW r \in Requests, Acquire(r) PROVE TypeOK'
  BY <1>3 DEF Acquire, CanTake, Take, Goto, ForgetSample
<1>4. ASSUME NEW r \in Requests, AcquireBusy(r) PROVE TypeOK'
  BY <1>4 DEF AcquireBusy, Goto, ForgetSample
<1>5. ASSUME NEW r \in Requests, AcquireError(r) PROVE TypeOK'
  BY <1>5 DEF AcquireError, CanTake, Take, Goto, ForgetLocals, ForgetSample,
              NoRead, lockRow
<1>6. ASSUME NEW r \in Requests, Retry(r) PROVE TypeOK'
  BY <1>6 DEF Retry, Goto
<1>7. ASSUME NEW r \in Requests, LoopBegin(r) PROVE TypeOK'
  BY <1>7 DEF LoopBegin
<1>8. ASSUME NEW r \in Requests, LoopRenew(r) PROVE TypeOK'
  BY <1>8 DEF LoopRenew, Extend, HoldsAt
<1>9. ASSUME NEW r \in Requests, LoopLost(r) PROVE TypeOK'
  BY <1>9 DEF LoopLost, Extend, HoldsAt
<1>10. ASSUME NEW r \in Requests, AssertActive(r) PROVE TypeOK'
  BY <1>10 DEF AssertActive, Goto, NoRead
<1>11. ASSUME NEW r \in Requests, BeginWrite(r) PROVE TypeOK'
  BY <1>11 DEF BeginWrite, Goto, ReadOf
<1>12. ASSUME NEW r \in Requests, AssertBegin(r) PROVE TypeOK'
  BY <1>12 DEF AssertBegin, Goto
<1>13. ASSUME NEW r \in Requests, AssertRenew(r) PROVE TypeOK'
  <2>1. sample' \in [Requests -> Nat]
    BY <1>13 DEF AssertRenew, ForgetSample
  <2>2. pc' \in [Requests -> PcStates]
    BY <1>13 DEF AssertRenew, Goto
  <2>3. owner' = owner /\ expiresAt' \in Nat
    BY <1>13 DEF AssertRenew, Extend
  <2> QED
    BY <1>13, <2>1, <2>2, <2>3 DEF AssertRenew
<1>14. ASSUME NEW r \in Requests, AssertLost(r) PROVE TypeOK'
  BY <1>14 DEF AssertLost, Extend, HoldsAt, Goto, ForgetSample, NoRead
<1>15. ASSUME NEW r \in Requests, AssertRejected(r) PROVE TypeOK'
  BY <1>15 DEF AssertRejected, Goto, NoRead
<1>16. ASSUME NEW r \in Requests, PutLands(r) PROVE TypeOK'
  <2>1. Merged(r) \in SUBSET Changes
    BY <1>16 DEF PutLands, Merged, OwnerReadIsFresh, WritesAreCovered, Changes
  <2> QED
    BY <1>16, <2>1 DEF PutLands, Goto, ForgetSample, NoRead
<1>17. ASSUME NEW r \in Requests, PutError(r) PROVE TypeOK'
  <2>1. Merged(r) \in SUBSET Changes
    BY <1>17 DEF PutError, Merged, OwnerReadIsFresh, WritesAreCovered, Changes
  <2> QED
    BY <1>17, <2>1 DEF PutError, Goto, ForgetSample, NoRead
<1>18. ASSUME NEW r \in Requests, Leave(r) PROVE TypeOK'
  BY <1>18 DEF Leave, Goto
<1>19. ASSUME NEW r \in Requests, Release(r) PROVE TypeOK'
  BY <1>19 DEF Release, DropOwnRow, Goto, ForgetLocals, ForgetSample, NoRead
<1>20. ASSUME NEW r \in Requests, ReleaseError(r) PROVE TypeOK'
  BY <1>20 DEF ReleaseError, DropOwnRow, Goto, ForgetLocals, ForgetSample,
               NoRead
<1>21. ASSUME NEW r \in Requests, Crash(r) PROVE TypeOK'
  BY <1>21 DEF Crash, Goto, ForgetLocals, ForgetSample, NoRead
<1>22. CASE Tick
  BY <1>22 DEF Tick
<1>23. CASE UNCHANGED vars
  BY <1>23 DEF vars
<1> QED
  BY <1>1, <1>2, <1>3, <1>4, <1>5, <1>6, <1>7, <1>8, <1>9, <1>10, <1>11,
     <1>12, <1>13, <1>14, <1>15, <1>16, <1>17, <1>18, <1>19, <1>20, <1>21,
     <1>22, <1>23, StepCases

\* No action takes a clock value from the future.
LEMMA SamplesStayPast == IInv /\ [Next]_vars => SamplesArePast'
<1> SUFFICES ASSUME IInv, [Next]_vars PROVE SamplesArePast'
  OBVIOUS
<1> USE DEF IInv, TypeOK, SamplesArePast, lockRow
<1>1. ASSUME NEW r \in Requests, BeginAttempt(r) PROVE SamplesArePast'
  BY <1>1 DEF BeginAttempt, Goto
<1>2. ASSUME NEW r \in Requests, AssertBegin(r) PROVE SamplesArePast'
  BY <1>2 DEF AssertBegin, Goto
<1>3. ASSUME NEW r \in Requests, LoopBegin(r) PROVE SamplesArePast'
  BY <1>3 DEF LoopBegin
<1>4. ASSUME NEW r \in Requests,
                CheckAvailable(r) \/ Acquire(r) \/ AcquireBusy(r) \/
                AcquireError(r) \/ Retry(r) \/ LoopRenew(r) \/ LoopLost(r) \/
                AssertActive(r) \/ BeginWrite(r) \/ AssertRenew(r) \/
                AssertLost(r) \/ AssertRejected(r) \/ PutLands(r) \/
                PutError(r) \/ Leave(r) \/ Release(r) \/ ReleaseError(r) \/
                Crash(r)
     PROVE  SamplesArePast'
  BY <1>4 DEF CheckAvailable, Goto, ForgetSample, Acquire, CanTake,
     Take, AcquireBusy, AcquireError, ForgetLocals, NoRead, lockRow,
     Retry, LoopRenew, Extend, HoldsAt, LoopLost, AssertActive,
     BeginWrite, ReadOf, AssertRenew, AssertLost, AssertRejected,
     PutLands, Merged, PutError, Leave, Release, DropOwnRow,
     ReleaseError, Crash
<1>5. CASE Tick
  BY <1>5 DEF Tick
<1>6. CASE UNCHANGED vars
  BY <1>6 DEF vars
<1> QED
  BY <1>1, <1>2, <1>3, <1>4, <1>5, <1>6, StepCases

\* Taking or extending the lock counts the lease from a past clock value.
LEMMA LeaseStaysBounded == IInv /\ [Next]_vars => LeaseIsBounded'
<1> SUFFICES ASSUME IInv, [Next]_vars PROVE LeaseIsBounded'
  OBVIOUS
<1> USE DEF IInv, TypeOK, LeaseIsBounded, SamplesArePast, lockRow
<1>1. ASSUME NEW r \in Requests,
                Acquire(r) \/ AcquireError(r)
     PROVE  LeaseIsBounded'
  BY <1>1 DEF Acquire, CanTake, Take, Goto, ForgetSample, AcquireError,
     ForgetLocals, NoRead, lockRow
<1>2. ASSUME NEW r \in Requests,
                LoopRenew(r) \/ LoopLost(r) \/ AssertRenew(r) \/ AssertLost(r)
     PROVE  LeaseIsBounded'
  BY <1>2 DEF LoopRenew, Extend, HoldsAt, LoopLost, AssertRenew, Goto,
     ForgetSample, AssertLost, NoRead
<1>3. ASSUME NEW r \in Requests,
                Release(r) \/ ReleaseError(r)
     PROVE  LeaseIsBounded'
  BY <1>3 DEF Release, DropOwnRow, Goto, ForgetLocals, ForgetSample,
     NoRead, ReleaseError
<1>4. ASSUME NEW r \in Requests,
                BeginAttempt(r) \/ CheckAvailable(r) \/ AcquireBusy(r) \/
                Retry(r) \/ LoopBegin(r) \/ AssertActive(r) \/ BeginWrite(r)
                \/ AssertBegin(r) \/ AssertRejected(r) \/ PutLands(r) \/
                PutError(r) \/ Leave(r) \/ Crash(r)
     PROVE  LeaseIsBounded'
  BY <1>4 DEF BeginAttempt, Goto, CheckAvailable, ForgetSample,
     AcquireBusy, Retry, LoopBegin, AssertActive, NoRead, BeginWrite,
     ReadOf, AssertBegin, AssertRejected, PutLands, Merged, PutError,
     Leave, Crash, ForgetLocals
<1>5. CASE Tick
  BY <1>5 DEF Tick
<1>6. CASE UNCHANGED vars
  BY <1>6 DEF vars
<1> QED
  BY <1>1, <1>2, <1>3, <1>4, <1>5, <1>6, StepCases

\* A renewal is sent with the clock of that moment, and the clock waits for
\* the write it admits.
LEMMA WritesStayTimely == IInv /\ [Next]_vars => WritesAreTimely'
<1> SUFFICES ASSUME IInv, [Next]_vars PROVE WritesAreTimely'
  OBVIOUS
<1> USE DEF IInv, TypeOK, WritesAreTimely, SamplesArePast, lockRow
<1>1. ASSUME NEW r \in Requests, AssertBegin(r) PROVE WritesAreTimely'
  BY <1>1 DEF AssertBegin, Goto
<1>2. ASSUME NEW r \in Requests, LoopBegin(r) PROVE WritesAreTimely'
  BY <1>2 DEF LoopBegin
<1>3. ASSUME NEW r \in Requests, AssertRenew(r) PROVE WritesAreTimely'
  BY <1>3 DEF AssertRenew, Extend, HoldsAt, Goto, ForgetSample
<1>4. ASSUME NEW r \in Requests,
                BeginAttempt(r) \/ CheckAvailable(r) \/ Acquire(r) \/
                AcquireBusy(r) \/ AcquireError(r) \/ Retry(r) \/ LoopRenew(r)
                \/ LoopLost(r) \/ AssertActive(r) \/ BeginWrite(r) \/
                AssertLost(r) \/ AssertRejected(r) \/ PutLands(r) \/
                PutError(r) \/ Leave(r) \/ Release(r) \/ ReleaseError(r) \/
                Crash(r)
     PROVE  WritesAreTimely'
  BY <1>4 DEF BeginAttempt, Goto, CheckAvailable, ForgetSample, Acquire,
     CanTake, Take, AcquireBusy, AcquireError, ForgetLocals, NoRead,
     lockRow, Retry, LoopRenew, Extend, HoldsAt, LoopLost, AssertActive,
     BeginWrite, ReadOf, AssertLost, AssertRejected, PutLands, Merged,
     PutError, Leave, Release, DropOwnRow, ReleaseError, Crash
<1>5. CASE Tick
  BY <1>5 DEF Tick
<1>6. CASE UNCHANGED vars
  BY <1>6 DEF vars
<1> QED
  BY <1>1, <1>2, <1>3, <1>4, <1>5, <1>6, StepCases

\* Nobody can take the row while a write is under way, because its lease has
\* not run out for any clock value a rival can carry; and only its owner
\* changes it otherwise, by renewals that are no older.
LEMMA WritesStayCovered == IInv /\ [Next]_vars => WritesAreCovered'
<1> SUFFICES ASSUME IInv, [Next]_vars PROVE WritesAreCovered'
  OBVIOUS
<1> USE DEF IInv, TypeOK, WritesAreCovered, SamplesArePast, WritesAreTimely,
            PcStates, lockRow
<1>1. ASSUME NEW r \in Requests,
                Acquire(r) \/ AcquireError(r)
     PROVE  WritesAreCovered'
  BY <1>1 DEF Acquire, CanTake, Take, Goto, ForgetSample, AcquireError,
     ForgetLocals, NoRead, lockRow
<1>2. ASSUME NEW r \in Requests,
                LoopRenew(r) \/ LoopLost(r)
     PROVE  WritesAreCovered'
  BY <1>2 DEF LoopRenew, Extend, HoldsAt, LoopLost
<1>3. ASSUME NEW r \in Requests, AssertRenew(r) PROVE WritesAreCovered'
  BY <1>3 DEF AssertRenew, Extend, HoldsAt, Goto, ForgetSample
<1>4. ASSUME NEW r \in Requests, AssertLost(r) PROVE WritesAreCovered'
  BY <1>4 DEF AssertLost, Extend, HoldsAt, Goto, ForgetSample, NoRead
<1>5. ASSUME NEW r \in Requests,
                Release(r) \/ ReleaseError(r)
     PROVE  WritesAreCovered'
  BY <1>5 DEF Release, DropOwnRow, Goto, ForgetLocals, ForgetSample,
     NoRead, ReleaseError
<1>6. ASSUME NEW r \in Requests,
                BeginAttempt(r) \/ CheckAvailable(r) \/ AcquireBusy(r) \/
                Retry(r) \/ LoopBegin(r) \/ AssertActive(r) \/ BeginWrite(r)
                \/ AssertBegin(r) \/ AssertRejected(r) \/ PutLands(r) \/
                PutError(r) \/ Leave(r) \/ Crash(r)
     PROVE  WritesAreCovered'
  BY <1>6 DEF BeginAttempt, Goto, CheckAvailable, ForgetSample,
     AcquireBusy, Retry, LoopBegin, AssertActive, NoRead, BeginWrite,
     ReadOf, AssertBegin, AssertRejected, PutLands, Merged, PutError,
     Leave, Crash, ForgetLocals
<1>7. CASE Tick
  BY <1>7 DEF Tick
<1>8. CASE UNCHANGED vars
  BY <1>8 DEF vars
<1> QED
  BY <1>1, <1>2, <1>3, <1>4, <1>5, <1>6, <1>7, <1>8, StepCases

\* The object changes only under the owner's put, and a request that becomes
\* the owner has not read it yet.
LEMMA OwnerReadStaysFresh == IInv /\ [Next]_vars => OwnerReadIsFresh'
<1> SUFFICES ASSUME IInv, [Next]_vars PROVE OwnerReadIsFresh'
  OBVIOUS
<1> USE DEF IInv, TypeOK, OwnerReadIsFresh, WritesAreCovered, PcStates, lockRow
<1>1. ASSUME NEW r \in Requests,
                Acquire(r) \/ AcquireError(r)
     PROVE  OwnerReadIsFresh'
  <2>1. CASE Acquire(r)
    BY <2>1 DEF Acquire, CanTake, Take, Goto, ForgetSample, NoRead
  <2>2. CASE AcquireError(r)
    BY <2>2 DEF AcquireError, CanTake, Take, Goto, ForgetSample, ForgetLocals, NoRead
  <2> QED
    BY <1>1, <2>1, <2>2
<1>2. ASSUME NEW r \in Requests, BeginWrite(r) PROVE OwnerReadIsFresh'
  BY <1>2 DEF BeginWrite, Goto, ReadOf
<1>3. ASSUME NEW r \in Requests, PutLands(r) PROVE OwnerReadIsFresh'
  BY <1>3 DEF PutLands, Merged, Goto, ForgetSample, NoRead
<1>4. ASSUME NEW r \in Requests, PutError(r) PROVE OwnerReadIsFresh'
  BY <1>4 DEF PutError, Merged, Goto, ForgetSample, NoRead
<1>5. ASSUME NEW r \in Requests,
                LoopRenew(r) \/ LoopLost(r)
     PROVE  OwnerReadIsFresh'
  BY <1>5 DEF LoopRenew, Extend, HoldsAt, LoopLost
<1>6. ASSUME NEW r \in Requests,
                AssertRenew(r) \/ AssertLost(r)
     PROVE  OwnerReadIsFresh'
  BY <1>6 DEF AssertRenew, Extend, HoldsAt, Goto, ForgetSample,
     AssertLost, NoRead
<1>7. ASSUME NEW r \in Requests,
                Release(r) \/ ReleaseError(r)
     PROVE  OwnerReadIsFresh'
  <2>1. /\ latest' = [latest EXCEPT ![r] = NoRead]
        /\ pc[r] = "stopping" /\ pc' = [pc EXCEPT ![r] = pc'[r]]
        /\ owner' \in {owner, NoOwner}
        /\ UNCHANGED <<object, written>>
    BY <1>7 DEF Release, ReleaseError, DropOwnRow, Goto, ForgetLocals
  <2> QED
    BY <2>1 DEF NoRead
<1>8. ASSUME NEW r \in Requests,
                BeginAttempt(r) \/ CheckAvailable(r) \/ AcquireBusy(r) \/
                Retry(r) \/ LoopBegin(r) \/ AssertActive(r) \/ AssertBegin(r)
                \/ AssertRejected(r) \/ Leave(r) \/ Crash(r)
     PROVE  OwnerReadIsFresh'
  BY <1>8 DEF BeginAttempt, Goto, CheckAvailable, ForgetSample,
     AcquireBusy, Retry, LoopBegin, AssertActive, NoRead, AssertBegin,
     AssertRejected, Leave, Crash, ForgetLocals
<1>9. CASE Tick
  BY <1>9 DEF Tick
<1>10. CASE UNCHANGED vars
  BY <1>10 DEF vars
<1> QED
  BY <1>1, <1>2, <1>3, <1>4, <1>5, <1>6, <1>7, <1>8, <1>9, <1>10, StepCases

\* A put adds the next change of its request and keeps every other.
LEMMA WritesStayRecorded == IInv /\ [Next]_vars => WritesAreRecorded'
<1> SUFFICES ASSUME IInv, [Next]_vars PROVE WritesAreRecorded'
  OBVIOUS
<1> USE DEF IInv, TypeOK, WritesAreRecorded, WritesAreCovered,
            OwnerReadIsFresh, Settled, Changes, lockRow
<1>1. ASSUME NEW r \in Requests, PutLands(r) PROVE WritesAreRecorded'
  <2>1. /\ object' = object \cup {<<r, written[r] + 1>>}
        /\ written' = [written EXCEPT ![r] = @ + 1]
        /\ pc[r] = "putting" /\ pc' = [pc EXCEPT ![r] = "body"]
    BY <1>1 DEF PutLands, Merged, Goto
  <2>2. ASSUME NEW s \in Requests, NEW k \in 1..written'[s]
        PROVE  <<s, k>> \in object'
    BY <2>1, <2>2
  <2>3. ASSUME NEW s \in Requests, NEW k \in 1..MaxWrites,
               pc'[s] \notin Settled \cup {"stopping"}, k > written'[s]
        PROVE  <<s, k>> \notin object'
    <3>1. pc[s] \notin Settled \cup {"stopping"}
      BY <2>1, <2>3
    <3>2. k > written[s] /\ <<s, k>> # <<r, written[r] + 1>>
      BY <2>1, <2>3
    <3>3. <<s, k>> \notin object
      BY <3>1, <3>2
    <3> QED
      BY <2>1, <3>2, <3>3
  <2> QED
    BY <2>2, <2>3
<1>2. ASSUME NEW r \in Requests, PutError(r) PROVE WritesAreRecorded'
  BY <1>2 DEF PutError, Merged, Goto, ForgetSample, NoRead
<1>3. ASSUME NEW r \in Requests,
                BeginAttempt(r) \/ CheckAvailable(r) \/ Acquire(r) \/
                AcquireBusy(r) \/ AcquireError(r) \/ Retry(r) \/ LoopBegin(r)
                \/ LoopRenew(r) \/ LoopLost(r) \/ AssertActive(r) \/
                BeginWrite(r) \/ AssertBegin(r) \/ AssertRenew(r) \/
                AssertLost(r) \/ AssertRejected(r) \/ Leave(r) \/ Release(r)
                \/ ReleaseError(r) \/ Crash(r)
     PROVE  WritesAreRecorded'
  BY <1>3 DEF BeginAttempt, Goto, CheckAvailable, ForgetSample, Acquire,
     CanTake, Take, AcquireBusy, AcquireError, ForgetLocals, NoRead,
     lockRow, Retry, LoopBegin, LoopRenew, Extend, HoldsAt, LoopLost,
     AssertActive, BeginWrite, ReadOf, AssertBegin, AssertRenew,
     AssertLost, AssertRejected, Leave, Release, DropOwnRow,
     ReleaseError, Crash
<1>4. CASE Tick
  BY <1>4 DEF Tick
<1>5. CASE UNCHANGED vars
  BY <1>5 DEF vars
<1> QED
  BY <1>1, <1>2, <1>3, <1>4, <1>5, StepCases

\* The parts of the invariant, each kept by a lemma above, make it inductive.
LEMMA StepKeepsIInv == IInv /\ [Next]_vars => IInv'
  BY TypeCorrect, SamplesStayPast, LeaseStaysBounded, WritesStayTimely,
     WritesStayCovered, OwnerReadStaysFresh, WritesStayRecorded DEF IInv

\* The invariant holds in every reachable state of the lock protocol, and
\* with it the types of all variables.
THEOREM InvariantHolds == Spec => []IInv
  BY InitEstablishesIInv, StepKeepsIInv, PTL DEF Spec

\* While a put of the site state is under way, the lock row names its writer
\* and the lease has time left.
THEOREM WriterHolds == Spec => []WriterHoldsLease
<1>1. IInv => WriterHoldsLease
  BY DEF IInv, TypeOK, WritesAreCovered, WritesAreTimely, WriterHoldsLease,
         HoldsAt
<1> QED
  BY <1>1, InvariantHolds, PTL

\* Two requests never have a put of the site state in flight together.
THEOREM WritersExclude == Spec => []SingleWriter
<1>1. IInv => SingleWriter
  BY DEF IInv, WritesAreCovered, SingleWriter
<1> QED
  BY <1>1, InvariantHolds, PTL

\* What a request that answered with success has written stays in the object.
THEOREM AcknowledgedSurvive == Spec => []AcknowledgedChangesSurvive
<1>1. IInv => AcknowledgedChangesSurvive
  BY DEF IInv, WritesAreRecorded, AcknowledgedChangesSurvive
<1> QED
  BY <1>1, InvariantHolds, PTL

\* The object changes only by the put of one change on top of what is there.
LEMMA ObjectSteps ==
    ASSUME IInv, [Next]_vars
    PROVE  \/ object' = object
           \/ \E c \in Changes : c \notin object /\ object' = object \cup {c}
<1> USE DEF IInv, TypeOK
<1>1. ASSUME NEW r \in Requests, PutLands(r) \/ PutError(r), object' # object
      PROVE  \E c \in Changes : c \notin object /\ object' = object \cup {c}
  <2>1. pc[r] = "putting" /\ object' = Merged(r)
    BY <1>1 DEF PutLands, PutError
  <2>2. /\ latest[r].seen = object
        /\ written[r] + 1 \in 1..MaxWrites
    BY <2>1 DEF WritesAreCovered, OwnerReadIsFresh
  <2>3. object' = object \cup {<<r, written[r] + 1>>}
    BY <2>1, <2>2 DEF Merged
  <2>4. <<r, written[r] + 1>> \in Changes
    BY <2>2 DEF Changes
  <2>5. <<r, written[r] + 1>> \notin object
    <3>1. pc[r] \notin Settled \cup {"stopping"}
      BY <2>1 DEF Settled
    <3>2. written[r] \in Nat /\ written[r] + 1 > written[r]
      OBVIOUS
    <3> QED
      BY <2>2, <3>1, <3>2 DEF WritesAreRecorded
  <2> QED
    BY <2>3, <2>4, <2>5
<1>2. ASSUME NEW r \in Requests,
             ~(PutLands(r) \/ PutError(r)),
             AcquireStep(r) \/ LoopStep(r) \/ CallbackStep(r) \/ Crash(r)
      PROVE  object' = object
  BY <1>2 DEF AcquireStep, BeginAttempt, CheckAvailable, Acquire, AcquireBusy,
       AcquireError, Retry, LoopStep, LoopBegin, LoopRenew, LoopLost,
       CallbackStep, AssertActive, BeginWrite, AssertBegin, AssertRenew,
       AssertLost, AssertRejected, Leave, Release, ReleaseError, Crash
<1>3. CASE Tick \/ UNCHANGED vars
  BY <1>3 DEF Tick, vars
<1> QED
  BY <1>1, <1>2, <1>3 DEF Next, RequestStep, Finished

\* No step takes a change out of the object.
THEOREM NoUpdateIsLost == Spec => NoLostUpdate
<1>1. IInv /\ [Next]_vars => [object \subseteq object']_vars
  BY ObjectSteps
<1> QED
  BY <1>1, InvariantHolds, PTL DEF Spec, NoLostUpdate

\* While a lease runs, only its owner's own release ends it.
THEOREM LiveLockStays == Spec => LiveLockIsNotStolen
<1>1. ASSUME IInv, [Next]_vars, NEW r \in Requests,
             HoldsAt(r, now), owner' # r
      PROVE  pc[r] = "stopping"
  <2> USE DEF IInv, TypeOK, HoldsAt
  <2>1. ASSUME NEW s \in Requests, Acquire(s) \/ AcquireError(s)
        PROVE  FALSE
    <3>1. ~CanTake(s)
      BY <1>1, NoOwnerAssumption DEF CanTake, SamplesArePast
    <3> QED
      BY <1>1, <2>1, <3>1 DEF Acquire, AcquireError, lockRow
  <2>2. ASSUME NEW s \in Requests, Release(s) \/ ReleaseError(s)
        PROVE  pc[r] = "stopping"
    BY <1>1, <2>2 DEF Release, ReleaseError, DropOwnRow, lockRow
  <2>3. ASSUME NEW s \in Requests,
               BeginAttempt(s) \/ CheckAvailable(s) \/ AcquireBusy(s)
               \/ Retry(s) \/ LoopStep(s) \/ Crash(s)
               \/ AssertActive(s) \/ BeginWrite(s) \/ AssertBegin(s)
               \/ AssertRenew(s) \/ AssertLost(s) \/ AssertRejected(s)
               \/ PutLands(s) \/ PutError(s) \/ Leave(s)
        PROVE  owner' = owner
    BY <2>3 DEF BeginAttempt, CheckAvailable, AcquireBusy, Retry, LoopStep,
         LoopBegin, LoopRenew, LoopLost, Crash, AssertActive, BeginWrite,
         AssertBegin, AssertRenew, AssertLost, AssertRejected, PutLands,
         PutError, Leave, Extend, lockRow
  <2>4. CASE Tick \/ UNCHANGED vars
    BY <1>1, <2>4 DEF Tick, vars, lockRow
  <2> QED
    BY <1>1, <2>1, <2>2, <2>3, <2>4, StepCases DEF LoopStep
<1>2. IInv /\ [Next]_vars
        => [\A r \in Requests :
              (HoldsAt(r, now) /\ owner' # r) => pc[r] = "stopping"]_vars
  BY <1>1
<1> QED
  BY <1>2, InvariantHolds, PTL DEF Spec, LiveLockIsNotStolen

\* The lock, the lease and the merging bucket together implement one value
\* that is updated a whole change at a time.
THEOREM ImplementsSerial == Spec => ImplementsSerialUpdates
<1>1. Init => Serial!Init
  BY DEF Init, Serial!Init
<1>2. IInv /\ [Next]_vars => [Serial!Next]_object
  BY ObjectSteps DEF Serial!Next, Serial!Apply
<1> QED
  BY <1>1, <1>2, InvariantHolds, PTL
     DEF Spec, ImplementsSerialUpdates, Serial!Spec

-----------------------------------------------------------------------------
(* The inductive invariant of the media writes. As long as no write of a   *)
(* request that has ended is on its way, only the holder of the lock       *)
(* changes the state, which then grows.                                    *)

\* What the tasks of a request and of its upserts may be at.
TasksFollow ==
    /\ \A k \in Keys :
         /\ job[k].task \in {"reserve", "record"}
         /\ job[k].at = "object" => job[k].task = "reserve"
         /\ job[k].at = "done" => job[k].task = "record"
         /\ job[k].task = "record" => k \in stored
    /\ \A r \in Writers :
         /\ job[r].task \in {"describe", "card", "normalize"}
         /\ job[r].at # "object"
         /\ job[r].at = "done" => job[r].task = "normalize"
         /\ job[r].task # "describe" => job[r].at # "rest"
         /\ job[r].at # "rest" => \A k \in MediaOf[r] : job[k].at = "done"

\* A request works while it has the lock.
StagesFollow ==
    \A r \in Writers :
        /\ stage[r] = "writing" <=> holder = r
        /\ stage[r] = "new" => \A a \in AgentsOf(r) : job[a].at = "rest"
        /\ stage[r] = "saved" => job[r].at = "done"

\* The limit is checked before every put.
LimitIsKept ==
    /\ WithinLimit(site)
    /\ \A a \in Agents : job[a].at = "put" => WithinLimit(job[a].new)

\* The writes of a request take turns.
TurnsExclude ==
    \A a, b \in Agents :
        a # b /\ OwnerOf(a) = OwnerOf(b)
            => ~({job[a].at, job[b].at} \subseteq {"latest", "put"})

\* t is s and what the task adds.
Grows(s, t) ==
    s.objects \subseteq t.objects /\ s.sets \subseteq t.sets /\ s.cards \subseteq t.cards
Adds(task, a, s, t) ==
    /\ Grows(s, t)
    /\ t.objects \subseteq s.objects \cup {a}
    /\ t.total = s.total + (IF task = "reserve" THEN 1 ELSE 0)
    /\ task = "record" => a \in t.objects
    /\ task = "describe" => a \in t.sets
    /\ task = "card" => a \in t.cards
    /\ task = "normalize" => t.objects = s.objects

\* A job knows an older state and what its task makes of it; the holder's is the
\* last one when it is his turn, and what he puts adds to it.
WritesAdd ==
    \A a \in Agents :
        /\ job[a].at \in {"queued", "latest"} =>
             Grows(job[a].base, site) /\ job[a].new \in Asked(job[a].task, a, job[a].base)
        /\ job[a].at = "latest" /\ holder = OwnerOf(a) => job[a].latest = site
        /\ job[a].at = "put" =>
             holder = OwnerOf(a) /\ Adds(job[a].task, a, site, job[a].new)

\* Objects that are stored or about to be stored have their bytes reserved.
Claimed == stored \cup {k \in Keys : job[k].at = "object"}
ClaimsAreCounted == IsFiniteSet(Claimed) /\ Cardinality(Claimed) <= site.total

\* What a task has done is in the state.
WorkStays ==
    /\ \A k \in Keys : job[k].at = "done" => k \in site.objects
    /\ \A r \in Writers :
         /\ job[r].task \in {"card", "normalize"} => r \in site.sets
         /\ job[r].task = "normalize" => r \in site.cards

\* Of the lone records the holder found none is left, or a whole plan is gone.
Reduced(s) ==
    \/ Lone(s) = {}
    \/ /\ Lone(s) \subseteq backlog
       /\ Cardinality(Lone(s)) + PlanLimit <= Cardinality(backlog)

\* While the holder works, no record is lone but those it found and its own, and
\* while it describes them, none is added.
LoneAreDescribed ==
    \A r \in Writers :
        /\ holder = r => Lone(site) \subseteq backlog \cup MediaOf[r]
        /\ job[r].task = "normalize" /\ holder = r =>
            /\ job[r].at \in {"queued", "latest"} =>
                 job[r].base.objects = site.objects /\ Lone(job[r].base) \subseteq backlog
            /\ job[r].at = "put" => Reduced(job[r].new)
            /\ job[r].at = "done" => Reduced(site)

MediaInv ==
    /\ MediaTypeOK /\ TasksFollow /\ StagesFollow /\ LimitIsKept /\ TurnsExclude
    /\ late = {} => WritesAdd /\ ClaimsAreCounted /\ WorkStays /\ LoneAreDescribed

-----------------------------------------------------------------------------
(* What a write adds.                                                      *)

\* Every upsert belongs to one request.
LEMMA Owners ==
    /\ \A r \in Writers : OwnerOf(r) = r /\ r \notin Keys
    /\ \A k \in Keys : OwnerOf(k) \in Writers /\ k \in MediaOf[OwnerOf(k)] /\ k \notin Writers
    /\ \A r \in Writers : \A k \in MediaOf[r] : k \in Keys /\ OwnerOf(k) = r
<1>1. \A r \in Writers : OwnerOf(r) = r /\ r \notin Keys
  BY MediaWritesAssumption DEF MediaWritesAssumption, OwnerOf
<1>2. ASSUME NEW k \in Keys
      PROVE  OwnerOf(k) \in Writers /\ k \in MediaOf[OwnerOf(k)] /\ k \notin Writers
  <2>1. k \notin Writers
    BY MediaWritesAssumption DEF MediaWritesAssumption
  <2>2. \E r \in Writers : k \in MediaOf[r]
    BY MediaWritesAssumption DEF MediaWritesAssumption
  <2>3. OwnerOf(k) = CHOOSE r \in Writers : k \in MediaOf[r]
    BY <2>1 DEF OwnerOf
  <2> QED
    BY <2>1, <2>2, <2>3
<1>3. ASSUME NEW r \in Writers, NEW k \in MediaOf[r] PROVE k \in Keys /\ OwnerOf(k) = r
  <2>1. k \in Keys
    BY MediaWritesAssumption DEF MediaWritesAssumption
  <2> QED
    BY <1>2, <2>1, MediaWritesAssumption DEF MediaWritesAssumption
<1> QED
  BY <1>1, <1>2, <1>3

\* The agents of a request are those that it owns.
LEMMA Owned ==
    ASSUME NEW a \in Agents
    PROVE  /\ OwnerOf(a) \in Writers /\ OwnerOf(a) # Nobody
           /\ \A r \in Writers : a \in AgentsOf(r) <=> OwnerOf(a) = r
<1>1. OwnerOf(a) \in Writers /\ OwnerOf(a) # Nobody
  BY Owners, MediaWritesAssumption DEF Agents, MediaWritesAssumption
<1>2. ASSUME NEW r \in Writers PROVE a \in AgentsOf(r) <=> OwnerOf(a) = r
  BY Owners DEF Agents, AgentsOf
<1> QED
  BY <1>1, <1>2

\* A task of an upsert, or of a request.
TaskOf(a, task) ==
    \/ a \in Keys /\ task \in {"reserve", "record"}
    \/ a \in Writers /\ task \in {"describe", "card", "normalize"}

\* What each task changes.
LEMMA TaskAsks ==
    ASSUME NEW s, NEW a
    PROVE  /\ Asked("reserve", a, s) = {Reserved(s)}
           /\ Asked("record", a, s) = {Recorded(a, s)}
           /\ Asked("describe", a, s) = {Described(a, s)}
           /\ Asked("card", a, s) = {Shown(a, s)}
           /\ Asked("normalize", a, s) = Normalized(s)
  BY DEF Asked

\* Every task adds what it is for and takes nothing away.
LEMMA ChangeAdds ==
    ASSUME NEW s \in SiteState, NEW a \in Agents, NEW task, TaskOf(a, task),
           NEW t \in Asked(task, a, s)
    PROVE  t \in SiteState /\ Adds(task, a, s, t)
<1>1. CASE a \in Keys /\ task = "reserve"
  BY <1>1, TaskAsks DEF Reserved, SiteState, Adds, Grows
<1>2. CASE a \in Keys /\ task = "record"
  BY <1>2, TaskAsks DEF Recorded, SiteState, Adds, Grows
<1>3. CASE a \in Writers /\ task = "describe"
  BY <1>3, TaskAsks DEF Described, SiteState, Adds, Grows
<1>4. CASE a \in Writers /\ task = "card"
  BY <1>4, TaskAsks DEF Shown, SiteState, Adds, Grows
<1>5. CASE task = "normalize"
  <2>1. PICK p \in Plans(s) : t = [s EXCEPT !.sets = @ \cup p]
    BY <1>5, TaskAsks DEF Normalized
  <2>2. p \subseteq Agents
    BY DEF Plans, Uncovered, SiteState, Agents
  <2> QED
    BY <1>5, <2>1, <2>2 DEF SiteState, Adds, Grows
<1> QED
  BY <1>1, <1>2, <1>3, <1>4, <1>5 DEF TaskOf

\* A plan is of lone records: all of them, or as many as the limit.
LEMMA PlansAreOfLone ==
    ASSUME NEW s \in SiteState, NEW p \in Plans(s)
    PROVE  p \subseteq Lone(s) /\ (p = Lone(s) \/ Cardinality(p) = PlanLimit)
<1>1. Uncovered(s) = Lone(s)
  <2>1. ASSUME NEW k \in Keys
        PROVE  (\A r \in Writers \cap s.sets : k \notin MediaOf[r]) <=> OwnerOf(k) \notin s.sets
    BY Owners
  <2> QED
    BY <2>1 DEF Uncovered, Lone, SiteState
<1> QED
  BY <1>1 DEF Plans

\* Merged into a state that has grown since, it adds the same; a plan of what
\* was found leaves none of it lone, or takes its limit from it.
LEMMA MergeAdds ==
    ASSUME MediaTypeOK, NEW s \in SiteState, NEW base \in SiteState, NEW a \in Agents,
           NEW task, TaskOf(a, task), Grows(base, s), NEW new \in Asked(task, a, base)
    PROVE  LET merged == MergeState(s, base, new)
           IN /\ Adds(task, a, s, merged)
              /\ task = "normalize" /\ base.objects = s.objects /\ Lone(base) \subseteq backlog
                   => Reduced(merged)
<1> DEFINE merged == MergeState(s, base, new)
<1>1. new \in SiteState /\ Adds(task, a, base, new)
  BY ChangeAdds
<1>2. /\ merged.objects = (s.objects \cup (new.objects \ base.objects)) \ (base.objects \ new.objects)
      /\ merged.sets = (s.sets \cup (new.sets \ base.sets)) \ (base.sets \ new.sets)
      /\ merged.cards = (s.cards \cup (new.cards \ base.cards)) \ (base.cards \ new.cards)
      /\ merged.total = s.total + (new.total - base.total)
  BY DEF MergeState, MergeRecords, MergeTotal
<1> HIDE DEF merged
<1>3. /\ base.objects \subseteq new.objects /\ base.sets \subseteq new.sets
      /\ base.cards \subseteq new.cards /\ new.objects \subseteq base.objects \cup {a}
      /\ base.objects \subseteq s.objects /\ base.sets \subseteq s.sets
      /\ base.cards \subseteq s.cards
  BY <1>1 DEF Adds, Grows
<1>4. /\ merged.objects = s.objects \cup new.objects /\ merged.sets = s.sets \cup new.sets
      /\ merged.cards = s.cards \cup new.cards
  BY <1>2, <1>3
<1>5. merged.total = s.total + (IF task = "reserve" THEN 1 ELSE 0)
  <2>1. base.total \in Int /\ s.total \in Int
    BY DEF SiteState
  <2> QED
    BY <1>1, <1>2, <2>1 DEF Adds
<1>6. Adds(task, a, s, merged)
  <2>1. /\ task = "record" => a \in new.objects
        /\ task = "describe" => a \in new.sets
        /\ task = "card" => a \in new.cards
        /\ task = "normalize" => new.objects = base.objects
    BY <1>1 DEF Adds
  <2> QED
    BY <1>3, <1>4, <1>5, <2>1 DEF Adds, Grows
<1>7. ASSUME task = "normalize", base.objects = s.objects, Lone(base) \subseteq backlog
      PROVE  Reduced(merged)
  <2>1. PICK p \in Plans(base) : new = [base EXCEPT !.sets = @ \cup p]
    BY <1>7, TaskAsks DEF Normalized
  <2>2. new.objects = base.objects /\ new.sets = base.sets \cup p
    BY <2>1 DEF SiteState
  <2>3. p \subseteq Lone(base) /\ (p = Lone(base) \/ Cardinality(p) = PlanLimit)
    BY PlansAreOfLone
  <2>4. Lone(merged) \subseteq Lone(base) \ p
    <3>1. merged.objects = base.objects /\ base.sets \cup p \subseteq merged.sets
      BY <1>3, <1>4, <1>7, <2>2
    <3> QED
      BY <3>1 DEF Lone
  <2>5. ASSUME Cardinality(p) = PlanLimit
        PROVE  Cardinality(Lone(merged)) + PlanLimit <= Cardinality(backlog)
    <3>1. IsFiniteSet(backlog)
      BY MediaWritesAssumption, FS_Subset DEF MediaWritesAssumption, MediaTypeOK
    <3>2. /\ p \subseteq backlog /\ Lone(merged) \subseteq backlog /\ Lone(merged) \cap p = {}
      BY <1>7, <2>3, <2>4
    <3>3. /\ IsFiniteSet(p) /\ IsFiniteSet(Lone(merged)) /\ IsFiniteSet(Lone(merged) \cup p)
          /\ Cardinality(Lone(merged) \cup p) <= Cardinality(backlog)
      BY <3>1, <3>2, FS_Subset
    <3>4. Cardinality(Lone(merged) \cup p)
            = Cardinality(Lone(merged)) + Cardinality(p) - Cardinality(Lone(merged) \cap p)
      BY <3>3, FS_Union
    <3>5. Cardinality(Lone(merged) \cap p) = 0 /\ Cardinality(Lone(merged)) \in Nat
      BY <3>2, <3>3, FS_EmptySet, FS_CardinalityType
    <3>6. PlanLimit \in Nat
      BY MediaWritesAssumption DEF MediaWritesAssumption
    <3> QED
      BY <2>5, <3>3, <3>4, <3>5, <3>6
  <2> QED
    BY <1>7, <2>3, <2>4, <2>5 DEF Reduced
<1> QED
  BY <1>6, <1>7 DEF merged

\* When records are added only by their request, and sets stay, no other record
\* gets lone.
LEMMA LoneStay ==
    ASSUME NEW s, NEW t, NEW r \in Writers, Lone(s) \subseteq backlog \cup MediaOf[r],
           s.sets \subseteq t.sets, t.objects \subseteq s.objects \cup AgentsOf(r),
           t.objects \subseteq Keys
    PROVE  Lone(t) \subseteq backlog \cup MediaOf[r]
  BY Owners DEF Lone, AgentsOf

\* What a job reads, and may write at once, is like what it merges.
LEMMA PlanReduces ==
    ASSUME MediaTypeOK, NEW a \in Agents, TaskOf(a, "normalize"),
           Lone(site) \subseteq backlog, NEW new \in Asked("normalize", a, site)
    PROVE  new = site => Reduced(site)
<1>1. site \in SiteState /\ Grows(site, site)
  BY DEF MediaTypeOK, Grows
<1>2. Reduced(MergeState(site, site, new))
  BY <1>1, MergeAdds
<1>3. new = site => MergeState(site, site, new) = site
  <2>1. site.total \in Int /\ site = [objects |-> site.objects, sets |-> site.sets,
                                      cards |-> site.cards, total |-> site.total]
    BY <1>1 DEF SiteState
  <2> QED
    BY <2>1 DEF MergeState, MergeRecords, MergeTotal
<1> QED
  BY <1>2, <1>3

\* A merge has the types of what it merges.
LEMMA MergeTypes ==
    ASSUME NEW s \in SiteState, NEW base \in SiteState, NEW new \in SiteState
    PROVE  MergeState(s, base, new) \in SiteState
  BY DEF MergeState, MergeRecords, MergeTotal, SiteState

\* The empty state.
LEMMA NoStateType == NoState \in SiteState
  BY DEF NoState, SiteState

\* A job at rest.
LEMMA AtRest ==
    ASSUME NEW task \in Tasks,
           NEW at \in {"rest", "read", "queued", "latest", "put", "object", "done", "failed"}
    PROVE  /\ At(task, at) \in Job /\ At(task, at).task = task /\ At(task, at).at = at
  BY NoStateType DEF At, Job

-----------------------------------------------------------------------------
(* Steps of one job that leave the state alone.                            *)

\* What such a step may make of the job.
Allowed(a, j) ==
    /\ j \in Job /\ j.at \notin {"object", "rest"}
    /\ job[a].at \notin {"done", "failed"}
    /\ stage[OwnerOf(a)] # "new"
    /\ a \in Keys => /\ j.at # "done" /\ j.task \in {"reserve", "record"}
                     /\ j.task = "record" => a \in stored'
    /\ a \in Writers => /\ j.task = job[a].task
                        /\ j.at = "done" => j.task = "normalize"
                        /\ \A k \in MediaOf[a] : job[k].at = "done"
    /\ j.at = "put" => WithinLimit(j.new)
    /\ j.at \in {"latest", "put"} =>
         job[a].at \in {"latest", "put"} \/ Free(OwnerOf(a))

\* And what it knows and wants.
Knows(a, j) ==
    /\ j.at \in {"queued", "latest"} =>
         Grows(j.base, site) /\ j.new \in Asked(j.task, a, j.base)
    /\ j.at = "latest" /\ holder = OwnerOf(a) => j.latest = site
    /\ j.at = "put" => holder = OwnerOf(a) /\ Adds(j.task, a, site, j.new)
    /\ j.task = "normalize" /\ a \in Writers /\ holder = a =>
         /\ j.at \in {"queued", "latest"} =>
              j.base.objects = site.objects /\ Lone(j.base) \subseteq backlog
         /\ j.at = "put" => Reduced(j.new)
         /\ j.at = "done" => Reduced(site)

\* Then the invariant holds on.
LEMMA JobStep ==
    ASSUME MediaInv, NEW a \in Agents, NEW j, Allowed(a, j), late = {} => Knows(a, j),
           job' = [job EXCEPT ![a] = j], UNCHANGED <<site, holder, stage, late, backlog>>,
           \/ stored' = stored
           \/ a \in Keys /\ job[a].at = "object" /\ stored' = stored \cup {a}
    PROVE  MediaInv'
<1>1. /\ MediaTypeOK /\ TasksFollow /\ StagesFollow /\ LimitIsKept /\ TurnsExclude
      /\ j \in Job /\ job \in [Agents -> Job]
  BY DEF MediaInv, Allowed, MediaTypeOK
<1>2. /\ job'[a] = j /\ \A b \in Agents : b # a => job'[b] = job[b]
      /\ Keys \subseteq Agents /\ Writers \subseteq Agents /\ Keys \cap Writers = {}
      /\ \A r \in Writers : MediaOf[r] \subseteq Keys
  BY <1>1, Owners DEF Agents
<1>3. MediaTypeOK'
  BY <1>1 DEF MediaTypeOK
<1>4. TasksFollow'
  <2>1. ASSUME NEW k \in Keys
        PROVE  /\ job'[k].task \in {"reserve", "record"}
               /\ job'[k].at = "object" => job'[k].task = "reserve"
               /\ job'[k].at = "done" => job'[k].task = "record"
               /\ job'[k].task = "record" => k \in stored'
    BY <1>1, <1>2 DEF TasksFollow, Allowed
  <2>2. ASSUME NEW r \in Writers
        PROVE  /\ job'[r].task \in {"describe", "card", "normalize"}
               /\ job'[r].at # "object"
               /\ job'[r].at = "done" => job'[r].task = "normalize"
               /\ job'[r].task # "describe" => job'[r].at # "rest"
               /\ job'[r].at # "rest" => \A k \in MediaOf[r] : job[k].at = "done"
    <3>1. CASE r = a
      BY <1>1, <1>2, <3>1 DEF TasksFollow, Allowed
    <3>2. CASE r # a
      BY <1>1, <1>2, <3>2 DEF TasksFollow
    <3> QED
      BY <3>1, <3>2
  <2>3. ASSUME NEW k \in Keys, job[k].at = "done" PROVE job'[k].at = "done"
    BY <1>2, <2>3 DEF Allowed
  <2> QED
    BY <1>2, <2>1, <2>2, <2>3 DEF TasksFollow
<1>5. StagesFollow'
  <2>1. ASSUME NEW r \in Writers, stage[r] = "new", NEW b \in AgentsOf(r)
        PROVE  job'[b].at = "rest"
    <3>1. b \in Agents /\ b # a
      BY <2>1, <1>2, Owned DEF AgentsOf, Allowed
    <3> QED
      BY <1>1, <1>2, <2>1, <3>1 DEF StagesFollow
  <2>2. ASSUME NEW r \in Writers, stage[r] = "saved" PROVE job'[r].at = "done"
    BY <1>1, <1>2, <2>2 DEF StagesFollow, Allowed
  <2> QED
    BY <1>1, <2>1, <2>2 DEF StagesFollow, AgentsOf
<1>6. LimitIsKept'
  BY <1>1, <1>2 DEF LimitIsKept, Allowed, WithinLimit
<1>7. TurnsExclude'
  <2>1. ASSUME NEW b \in Agents, b # a, OwnerOf(a) = OwnerOf(b),
               job[b].at \in {"latest", "put"}, j.at \in {"latest", "put"}
        PROVE  FALSE
    <3>1. CASE job[a].at \in {"latest", "put"}
      BY <1>1, <2>1, <3>1 DEF TurnsExclude
    <3>2. CASE Free(OwnerOf(a))
      BY <2>1, <3>2, Owned DEF Free
    <3> QED
      BY <2>1, <3>1, <3>2 DEF Allowed
  <2>2. ASSUME NEW b \in Agents, NEW c \in Agents, b # c, OwnerOf(b) = OwnerOf(c),
               job'[b].at \in {"latest", "put"}, job'[c].at \in {"latest", "put"}
        PROVE  FALSE
    <3>1. CASE b # a /\ c # a
      BY <1>1, <1>2, <2>2, <3>1 DEF TurnsExclude
    <3> QED
      BY <1>2, <2>1, <2>2, <3>1
  <2> QED
    BY <2>2 DEF TurnsExclude
<1>8. ASSUME late = {}
      PROVE  WritesAdd' /\ ClaimsAreCounted' /\ WorkStays' /\ LoneAreDescribed'
  <2>1. WritesAdd /\ ClaimsAreCounted /\ WorkStays /\ LoneAreDescribed /\ Knows(a, j)
    BY <1>8 DEF MediaInv
  <2>2. WritesAdd'
    BY <1>2, <2>1 DEF WritesAdd, Knows
  <2>3. ClaimsAreCounted'
    <3>1. Claimed' \subseteq Claimed
      BY <1>2 DEF Claimed, Allowed
    <3>2. IsFiniteSet(Claimed) /\ Cardinality(Claimed) <= site.total
      BY <2>1 DEF ClaimsAreCounted
    <3>3. IsFiniteSet(Claimed') /\ Cardinality(Claimed') <= Cardinality(Claimed)
      BY <3>1, <3>2, FS_Subset
    <3>4. Cardinality(Claimed) \in Nat /\ Cardinality(Claimed') \in Nat /\ site.total \in Int
      BY <1>1, <3>2, <3>3, FS_CardinalityType DEF MediaTypeOK, SiteState
    <3> QED
      BY <3>2, <3>3, <3>4 DEF ClaimsAreCounted
  <2>4. WorkStays'
    <3>1. ASSUME NEW k \in Keys, job'[k].at = "done" PROVE k \in site'.objects
      BY <1>2, <2>1, <3>1 DEF WorkStays, Allowed
    <3>2. ASSUME NEW r \in Writers PROVE job'[r].task = job[r].task
      BY <1>2 DEF Allowed
    <3> QED
      BY <2>1, <3>1, <3>2 DEF WorkStays
  <2>5. LoneAreDescribed'
    <3>1. \A s : Lone(s)' = Lone(s) /\ (Reduced(s)' <=> Reduced(s))
      BY DEF Lone, Reduced
    <3>2. ASSUME NEW r \in Writers, holder = r
          PROVE  Lone(site) \subseteq backlog \cup MediaOf[r]
      BY <2>1, <3>2 DEF LoneAreDescribed
    <3>3. ASSUME NEW r \in Writers, job'[r].task = "normalize", holder = r
          PROVE  /\ job'[r].at \in {"queued", "latest"} =>
                      job'[r].base.objects = site.objects /\ Lone(job'[r].base) \subseteq backlog
                 /\ job'[r].at = "put" => Reduced(job'[r].new)
                 /\ job'[r].at = "done" => Reduced(site)
      <4>1. CASE r = a
        BY <1>2, <2>1, <3>3, <4>1 DEF Knows
      <4>2. CASE r # a
        BY <1>2, <2>1, <3>3, <4>2 DEF LoneAreDescribed
      <4> QED
        BY <4>1, <4>2
    <3> QED
      BY <3>1, <3>2, <3>3 DEF LoneAreDescribed, Lone, Reduced
  <2> QED
    BY <2>2, <2>3, <2>4, <2>5
<1> QED
  BY <1>3, <1>4, <1>5, <1>6, <1>7, <1>8 DEF MediaInv

\* What is known of a job that is at work.
LEMMA AtWork ==
    ASSUME MediaInv, NEW a \in Agents, job[a].at # "rest"
    PROVE  /\ job[a] \in Job /\ TaskOf(a, job[a].task) /\ stage[OwnerOf(a)] # "new"
           /\ site \in SiteState /\ job \in [Agents -> Job]
           /\ a \in Keys /\ job[a].task = "record" => a \in stored
           /\ a \in Writers => \A k \in MediaOf[a] : job[k].at = "done"
<1>1. MediaTypeOK /\ TasksFollow /\ StagesFollow
  BY DEF MediaInv
<1>2. TaskOf(a, job[a].task)
  BY <1>1 DEF TasksFollow, TaskOf, Agents
<1>3. stage[OwnerOf(a)] # "new"
  BY <1>1, Owned DEF StagesFollow
<1> QED
  BY <1>1, <1>2, <1>3 DEF MediaTypeOK, TasksFollow

\* A job reads the state and runs its mutator.
LEMMA ReadKeeps == ASSUME MediaInv, NEW a \in Agents, ReadState(a) PROVE MediaInv'
<1>1. /\ job[a].at = "read" /\ UNCHANGED <<site, stored, holder, stage, late, backlog>>
      /\ job[a] \in Job /\ TaskOf(a, job[a].task) /\ stage[OwnerOf(a)] # "new"
      /\ site \in SiteState /\ job \in [Agents -> Job]
      /\ a \in Keys /\ job[a].task = "record" => a \in stored
      /\ a \in Writers => \A k \in MediaOf[a] : job[k].at = "done"
  BY AtWork DEF ReadState
<1>2. PICK new \in Asked(job[a].task, a, site) :
        \/ job[a].task = "reserve" /\ Job_(a, At("reserve", "failed"))
        \/ /\ job[a].task = "normalize" /\ new = site
           /\ Job_(a, At("normalize", "done"))
        \/ Job_(a, [job[a] EXCEPT !.at = "queued", !.base = site, !.new = new])
  BY DEF ReadState
<1>3. Keys \cap Writers = {} /\ a \in Keys \cup Writers /\ new \in SiteState
  BY <1>1, <1>2, Owners, ChangeAdds DEF Agents
<1>7. ASSUME late = {}, job[a].task = "normalize", a \in Writers, holder = a
      PROVE  Lone(site) \subseteq backlog /\ (new = site => Reduced(site))
  <2>1. a \in site.sets /\ Lone(site) \subseteq backlog \cup MediaOf[a] /\ MediaTypeOK
    BY <1>7 DEF MediaInv, WorkStays, LoneAreDescribed
  <2>2. \A k \in MediaOf[a] : k \notin Lone(site)
    BY <1>7, <2>1, Owners DEF Lone
  <2>3. Lone(site) \subseteq backlog
    BY <2>1, <2>2
  <2> QED
    BY <1>1, <1>2, <1>7, <2>1, <2>3, PlanReduces
<1>4. CASE job[a].task = "reserve" /\ Job_(a, At("reserve", "failed"))
  <2> DEFINE j == At("reserve", "failed")
  <2>1. j \in Job /\ j.task = "reserve" /\ j.at = "failed"
    BY AtRest DEF Tasks
  <2> HIDE DEF j
  <2>2. Allowed(a, j) /\ Knows(a, j)
    BY <1>1, <1>3, <1>4, <2>1 DEF Allowed, Knows, TaskOf
  <2>3. job' = [job EXCEPT ![a] = j]
    BY <1>4 DEF Job_, j
  <2> QED
    BY <1>1, <2>2, <2>3, JobStep
<1>5. CASE job[a].task = "normalize" /\ new = site /\ Job_(a, At("normalize", "done"))
  <2> DEFINE j == At("normalize", "done")
  <2>1. j \in Job /\ j.task = "normalize" /\ j.at = "done"
    BY AtRest DEF Tasks
  <2> HIDE DEF j
  <2>2. a \in Writers
    BY <1>1, <1>5 DEF TaskOf
  <2>3. Allowed(a, j) /\ (late = {} => Knows(a, j))
    BY <1>1, <1>3, <1>5, <1>7, <2>1, <2>2 DEF Allowed, Knows
  <2>4. job' = [job EXCEPT ![a] = j]
    BY <1>5 DEF Job_, j
  <2> QED
    BY <1>1, <2>3, <2>4, JobStep
<1>6. CASE Job_(a, [job[a] EXCEPT !.at = "queued", !.base = site, !.new = new])
  <2> DEFINE j == [job[a] EXCEPT !.at = "queued", !.base = site, !.new = new]
  <2>1. /\ j \in Job /\ j.task = job[a].task /\ j.at = "queued" /\ j.base = site
        /\ j.new = new
    BY <1>1, <1>3 DEF Job
  <2>2. job' = [job EXCEPT ![a] = j]
    BY <1>6 DEF Job_
  <2> HIDE DEF j
  <2>3. Grows(site, site)
    BY DEF Grows
  <2>4. Allowed(a, j)
    BY <1>1, <1>3, <2>1 DEF Allowed, TaskOf
  <2>5. ASSUME late = {} PROVE Knows(a, j)
    BY <1>2, <1>7, <2>1, <2>3, <2>5 DEF Knows
  <2> QED
    BY <1>1, <2>2, <2>4, <2>5, JobStep
<1> QED
  BY <1>2, <1>4, <1>5, <1>6

\* It is its turn.
LEMMA TurnKeeps == ASSUME MediaInv, NEW a \in Agents, TakeTurn(a) PROVE MediaInv'
<1> DEFINE j == [job[a] EXCEPT !.at = "latest", !.latest = site]
<1>1. /\ job[a].at = "queued" /\ UNCHANGED <<site, stored, holder, stage, late, backlog>>
      /\ job[a] \in Job /\ TaskOf(a, job[a].task) /\ stage[OwnerOf(a)] # "new"
      /\ site \in SiteState /\ job \in [Agents -> Job] /\ Free(OwnerOf(a))
      /\ a \in Keys /\ job[a].task = "record" => a \in stored
      /\ a \in Writers => \A k \in MediaOf[a] : job[k].at = "done"
      /\ job' = [job EXCEPT ![a] = j]
  BY AtWork DEF TakeTurn, Job_
<1>2. /\ j \in Job /\ j.task = job[a].task /\ j.at = "latest" /\ j.base = job[a].base
      /\ j.new = job[a].new /\ j.latest = site
  BY <1>1 DEF Job
<1>3. Keys \cap Writers = {} /\ a \in Keys \cup Writers
  BY Owners DEF Agents
<1> HIDE DEF j
<1>4. Allowed(a, j)
  BY <1>1, <1>2, <1>3 DEF Allowed, TaskOf
<1>5. ASSUME late = {} PROVE Knows(a, j)
  BY <1>1, <1>2, <1>5 DEF Knows, MediaInv, WritesAdd, LoneAreDescribed
<1> QED
  BY <1>1, <1>4, <1>5, JobStep

\* It merges, checks the limit and the lock, and sends its put.
LEMMA CheckKeeps == ASSUME MediaInv, NEW a \in Agents, CheckWrite(a) PROVE MediaInv'
<1> DEFINE merged == MergeState(job[a].latest, job[a].base, job[a].new)
<1>1. /\ job[a].at = "latest" /\ UNCHANGED <<site, stored, holder, stage, late, backlog>>
      /\ job[a] \in Job /\ TaskOf(a, job[a].task) /\ stage[OwnerOf(a)] # "new"
      /\ site \in SiteState /\ job \in [Agents -> Job]
      /\ a \in Keys /\ job[a].task = "record" => a \in stored
      /\ a \in Writers => \A k \in MediaOf[a] : job[k].at = "done"
  BY AtWork DEF CheckWrite
<1>2. merged \in SiteState /\ job[a].task \in Tasks /\ job[a].base \in SiteState
  <2>1. job[a].latest \in SiteState /\ job[a].base \in SiteState /\ job[a].new \in SiteState
        /\ job[a].task \in Tasks
    BY <1>1 DEF Job
  <2> QED
    BY <2>1, MergeTypes
<1>3. Keys \cap Writers = {} /\ a \in Keys \cup Writers
  BY Owners DEF Agents
<1>4. CASE WithinLimit(merged) /\ holder = OwnerOf(a)
  <2> DEFINE j == [At(job[a].task, "put") EXCEPT !.new = merged]
  <2>1. job' = [job EXCEPT ![a] = j]
    BY <1>4 DEF CheckWrite, Job_
  <2>2. /\ At(job[a].task, "put") \in Job /\ At(job[a].task, "put").task = job[a].task
        /\ At(job[a].task, "put").at = "put"
    BY <1>2, AtRest
  <2>3. j \in Job /\ j.task = job[a].task /\ j.at = "put" /\ j.new = merged
    <3> HIDE DEF merged
    <3> QED
      BY <1>2, <2>2 DEF Job
  <2> HIDE DEF j
  <2>4. Allowed(a, j)
    BY <1>1, <1>3, <1>4, <2>3 DEF Allowed, TaskOf
  <2>5. ASSUME late = {} PROVE Knows(a, j)
    <3>1. /\ Grows(job[a].base, site) /\ job[a].latest = site
          /\ job[a].new \in Asked(job[a].task, a, job[a].base) /\ MediaTypeOK
      BY <1>1, <1>4, <2>5 DEF MediaInv, WritesAdd
    <3>2. /\ Adds(job[a].task, a, site, merged)
          /\ job[a].task = "normalize" /\ job[a].base.objects = site.objects
               /\ Lone(job[a].base) \subseteq backlog => Reduced(merged)
      BY <1>1, <1>2, <3>1, MergeAdds
    <3>3. job[a].task = "normalize" /\ a \in Writers /\ holder = a =>
            job[a].base.objects = site.objects /\ Lone(job[a].base) \subseteq backlog
      BY <1>1, <2>5 DEF MediaInv, LoneAreDescribed
    <3> HIDE DEF merged
    <3> QED
      BY <1>4, <2>3, <3>2, <3>3 DEF Knows
  <2> QED
    BY <1>1, <2>1, <2>4, <2>5, JobStep
<1>5. CASE ~(WithinLimit(merged) /\ holder = OwnerOf(a))
  <2> DEFINE j == At(job[a].task, "failed")
  <2>1. job' = [job EXCEPT ![a] = j]
    BY <1>5 DEF CheckWrite, Job_
  <2>2. j \in Job /\ j.task = job[a].task /\ j.at = "failed"
    BY <1>2, AtRest
  <2> HIDE DEF j
  <2>3. Allowed(a, j) /\ Knows(a, j)
    BY <1>1, <1>3, <2>2 DEF Allowed, Knows, TaskOf
  <2> QED
    BY <1>1, <2>1, <2>3, JobStep
<1> QED
  BY <1>4, <1>5

\* A put fails.
LEMMA FailKeeps == ASSUME MediaInv, NEW a \in Agents, PutFails(a) PROVE MediaInv'
<1> DEFINE j == At(job[a].task, "failed")
<1>1. /\ job[a].at \in {"put", "object"} /\ UNCHANGED <<site, stored, holder, stage, late, backlog>>
      /\ job[a] \in Job /\ TaskOf(a, job[a].task) /\ stage[OwnerOf(a)] # "new"
      /\ job \in [Agents -> Job]
      /\ a \in Keys /\ job[a].task = "record" => a \in stored
      /\ a \in Writers => \A k \in MediaOf[a] : job[k].at = "done"
      /\ job' = [job EXCEPT ![a] = j]
  BY AtWork DEF PutFails, Job_
<1>2. j \in Job /\ j.task = job[a].task /\ j.at = "failed"
  BY <1>1, AtRest DEF Job
<1>3. Keys \cap Writers = {} /\ a \in Keys \cup Writers
  BY Owners DEF Agents
<1> HIDE DEF j
<1>4. Allowed(a, j) /\ Knows(a, j)
  BY <1>1, <1>2, <1>3 DEF Allowed, Knows, TaskOf
<1> QED
  BY <1>1, <1>4, JobStep

\* The object is stored, which is counted already.
LEMMA ObjectKeeps == ASSUME MediaInv, NEW k \in Keys, PutObject(k) PROVE MediaInv'
<1> DEFINE j == At("record", "read")
<1>1. /\ job[k].at = "object" /\ UNCHANGED <<site, holder, stage, late, backlog>>
      /\ k \in Agents /\ stage[OwnerOf(k)] # "new"
      /\ stored' = stored \cup {k} /\ job' = [job EXCEPT ![k] = j]
  BY AtWork DEF PutObject, Job_, Agents
<1>2. j \in Job /\ j.task = "record" /\ j.at = "read"
  BY AtRest DEF Tasks
<1>3. k \notin Writers
  BY Owners
<1> HIDE DEF j
<1>4. Allowed(k, j) /\ Knows(k, j)
  BY <1>1, <1>2, <1>3 DEF Allowed, Knows
<1> QED
  BY <1>1, <1>4, JobStep

\* All upserts are done.
LEMMA DescribeKeeps == ASSUME MediaInv, NEW r \in Writers, DescribeMedia(r) PROVE MediaInv'
<1> DEFINE j == At("describe", "read")
<1>1. /\ job[r].at = "rest" /\ UNCHANGED <<site, stored, holder, stage, late, backlog>>
      /\ \A k \in MediaOf[r] : job[k].at = "done"
      /\ r \in Agents /\ stage[OwnerOf(r)] = "writing" /\ job' = [job EXCEPT ![r] = j]
  BY Owners DEF DescribeMedia, Job_, Agents
<1>2. j \in Job /\ j.task = "describe" /\ j.at = "read" /\ job[r].task = "describe"
  BY <1>1, AtRest DEF Tasks, MediaInv, TasksFollow
<1>3. r \notin Keys
  BY Owners
<1> HIDE DEF j
<1>4. Allowed(r, j) /\ Knows(r, j)
  BY <1>1, <1>2, <1>3 DEF Allowed, Knows
<1> QED
  BY <1>1, <1>4, JobStep

-----------------------------------------------------------------------------
(* A put that lands, and the steps of a request.                           *)

\* What a job does after its change.
LEMMA Follows ==
    ASSUME NEW task \in Tasks
    PROVE  /\ Following(task) \in Job
           /\ Following(task).at \in {"object", "done", "read"}
           /\ Following(task).at = "object" <=> task = "reserve"
           /\ task \in {"reserve", "record"} =>
                /\ Following(task).task = task
                /\ Following(task).at = "done" <=> task = "record"
           /\ task \in {"describe", "card", "normalize"} =>
                /\ Following(task).task = IF task = "describe" THEN "card" ELSE "normalize"
                /\ Following(task).at = IF task = "normalize" THEN "done" ELSE "read"
<1>1. /\ Following("reserve") = At("reserve", "object")
      /\ Following("record") = At("record", "done")
      /\ Following("describe") = At("card", "read")
      /\ Following("card") = At("normalize", "read")
      /\ Following("normalize") = At("normalize", "done")
  BY DEF Following
<1>2. task \in {"reserve", "record", "describe", "card", "normalize"}
  BY DEF Tasks
<1> QED
  BY <1>1, <1>2, AtRest DEF Tasks

\* A put lands: it is the holder's, and the state grows by what it adds.
LEMMA LandKeeps == ASSUME MediaInv, NEW a \in Agents, LandPut(a) PROVE MediaInv'
<1> DEFINE task == job[a].task
           j == Following(task)
<1>1. /\ job[a].at = "put" /\ site' = job[a].new /\ UNCHANGED <<stored, holder, stage, late, backlog>>
      /\ job[a] \in Job /\ TaskOf(a, task) /\ stage[OwnerOf(a)] # "new"
      /\ job \in [Agents -> Job] /\ job' = [job EXCEPT ![a] = j]
      /\ a \in Keys /\ task = "record" => a \in stored
      /\ a \in Writers => \A k \in MediaOf[a] : job[k].at = "done"
  BY AtWork DEF LandPut, Job_
<1>2. task \in Tasks /\ site' \in SiteState
  BY <1>1 DEF Job
<1>3. /\ j \in Job /\ j.at \in {"object", "done", "read"}
      /\ j.at = "object" <=> task = "reserve"
      /\ task \in {"reserve", "record"} => /\ j.task = task
                                           /\ j.at = "done" <=> task = "record"
      /\ task \in {"describe", "card", "normalize"} =>
           /\ j.task = IF task = "describe" THEN "card" ELSE "normalize"
           /\ j.at = IF task = "normalize" THEN "done" ELSE "read"
  BY <1>2, Follows
<1> HIDE DEF j, task
<1>4. /\ job'[a] = j /\ \A b \in Agents : b # a => job'[b] = job[b]
      /\ Keys \subseteq Agents /\ Writers \subseteq Agents /\ Keys \cap Writers = {}
      /\ \A r \in Writers : MediaOf[r] \subseteq Keys
  BY <1>1, Owners DEF Agents
<1>5. MediaTypeOK /\ TasksFollow /\ StagesFollow /\ LimitIsKept /\ TurnsExclude
  BY DEF MediaInv
<1>6. MediaTypeOK'
  BY <1>1, <1>2, <1>3, <1>5 DEF MediaTypeOK
<1>7. TasksFollow'
  <2>1. ASSUME NEW k \in Keys
        PROVE  /\ job'[k].task \in {"reserve", "record"}
               /\ job'[k].at = "object" => job'[k].task = "reserve"
               /\ job'[k].at = "done" => job'[k].task = "record"
               /\ job'[k].task = "record" => k \in stored'
    <3>1. CASE k = a
      BY <1>1, <1>3, <1>4, <3>1 DEF TaskOf
    <3>2. CASE k # a
      BY <1>1, <1>4, <1>5, <3>2 DEF TasksFollow
    <3> QED
      BY <3>1, <3>2
  <2>2. ASSUME NEW r \in Writers
        PROVE  /\ job'[r].task \in {"describe", "card", "normalize"}
               /\ job'[r].at # "object"
               /\ job'[r].at = "done" => job'[r].task = "normalize"
               /\ job'[r].task # "describe" => job'[r].at # "rest"
               /\ job'[r].at # "rest" => \A k \in MediaOf[r] : job[k].at = "done"
    <3>1. CASE r = a
      BY <1>1, <1>3, <1>4, <3>1 DEF TaskOf
    <3>2. CASE r # a
      BY <1>4, <1>5, <3>2 DEF TasksFollow
    <3> QED
      BY <3>1, <3>2
  <2>3. ASSUME NEW k \in Keys, job[k].at = "done" PROVE job'[k].at = "done"
    BY <1>1, <1>4, <2>3
  <2> QED
    BY <1>4, <2>1, <2>2, <2>3 DEF TasksFollow
<1>8. StagesFollow'
  <2>1. ASSUME NEW r \in Writers, stage[r] = "new", NEW b \in AgentsOf(r)
        PROVE  job'[b].at = "rest"
    <3>1. b \in Agents /\ b # a
      BY <1>1, <1>4, <2>1, Owned DEF AgentsOf
    <3> QED
      BY <1>4, <1>5, <2>1, <3>1 DEF StagesFollow
  <2>2. ASSUME NEW r \in Writers, stage[r] = "saved" PROVE job'[r].at = "done"
    BY <1>1, <1>4, <1>5, <2>2 DEF StagesFollow
  <2> QED
    BY <1>1, <1>5, <2>1, <2>2 DEF StagesFollow, AgentsOf
<1>9. LimitIsKept'
  BY <1>1, <1>3, <1>4, <1>5 DEF LimitIsKept, WithinLimit
<1>10. TurnsExclude'
  BY <1>3, <1>4, <1>5 DEF TurnsExclude
<1>11. ASSUME late = {}
       PROVE  WritesAdd' /\ ClaimsAreCounted' /\ WorkStays' /\ LoneAreDescribed'
  <2>1. /\ WritesAdd /\ ClaimsAreCounted /\ WorkStays /\ LoneAreDescribed
        /\ holder = OwnerOf(a) /\ Adds(task, a, site, site')
    BY <1>1, <1>11 DEF MediaInv, WritesAdd, task
  <2>2. Grows(site, site')
    BY <2>1 DEF Adds
  <2>3. ASSUME NEW b \in Agents, b # a, job[b].at \in {"latest", "put"} PROVE holder # OwnerOf(b)
    BY <1>1, <1>5, <2>1, <2>3 DEF TurnsExclude
  <2>4. WritesAdd'
    <3>1. ASSUME NEW b \in Agents, job'[b].at \in {"queued", "latest"}
          PROVE  /\ Grows(job'[b].base, site')
                 /\ job'[b].new \in Asked(job'[b].task, b, job'[b].base)
      BY <1>3, <1>4, <2>1, <2>2, <3>1 DEF WritesAdd, Grows
    <3>2. ASSUME NEW b \in Agents, job'[b].at \in {"latest", "put"}
          PROVE  holder # OwnerOf(b) /\ job'[b].at = "latest"
      BY <1>3, <1>4, <2>1, <2>3, <3>2 DEF WritesAdd
    <3> QED
      BY <1>1, <3>1, <3>2 DEF WritesAdd
  <2>5. ClaimsAreCounted'
    <3>1. /\ IsFiniteSet(Claimed) /\ Cardinality(Claimed) <= site.total
          /\ Cardinality(Claimed) \in Nat /\ site.total \in Int
      BY <1>5, <2>1, FS_CardinalityType DEF ClaimsAreCounted, MediaTypeOK, SiteState
    <3>2. CASE task = "reserve"
      <4>1. Claimed' \subseteq Claimed \cup {a} /\ site'.total = site.total + 1
        BY <1>1, <1>4, <2>1, <3>2 DEF Claimed, Adds
      <4>2. /\ IsFiniteSet(Claimed \cup {a})
            /\ Cardinality(Claimed \cup {a}) \in {Cardinality(Claimed), Cardinality(Claimed) + 1}
        BY <3>1, FS_AddElement
      <4>3. IsFiniteSet(Claimed') /\ Cardinality(Claimed') <= Cardinality(Claimed \cup {a})
        BY <4>1, <4>2, FS_Subset
      <4>4. Cardinality(Claimed') \in Nat
        BY <4>3, FS_CardinalityType
      <4> QED
        BY <3>1, <4>1, <4>2, <4>3, <4>4 DEF ClaimsAreCounted
    <3>3. CASE task # "reserve"
      <4>1. Claimed' \subseteq Claimed /\ site'.total = site.total
        BY <1>1, <1>3, <1>4, <2>1, <3>1, <3>3 DEF Claimed, Adds
      <4>2. IsFiniteSet(Claimed') /\ Cardinality(Claimed') <= Cardinality(Claimed)
        BY <3>1, <4>1, FS_Subset
      <4>3. Cardinality(Claimed') \in Nat
        BY <4>2, FS_CardinalityType
      <4> QED
        BY <3>1, <4>1, <4>2, <4>3 DEF ClaimsAreCounted
    <3> QED
      BY <3>2, <3>3
  <2>6. WorkStays'
    <3>1. ASSUME NEW k \in Keys, job'[k].at = "done" PROVE k \in site'.objects
      <4>1. CASE k = a
        BY <1>1, <1>3, <1>4, <2>1, <3>1, <4>1 DEF TaskOf, Adds
      <4>2. CASE k # a
        BY <1>4, <2>1, <2>2, <3>1, <4>2 DEF WorkStays, Grows
      <4> QED
        BY <4>1, <4>2
    <3>2. ASSUME NEW r \in Writers
          PROVE  /\ job'[r].task \in {"card", "normalize"} => r \in site'.sets
                 /\ job'[r].task = "normalize" => r \in site'.cards
      <4>1. CASE r = a
        <5>1. /\ task \in {"card", "normalize"} => r \in site.sets
              /\ task = "normalize" => r \in site.cards
          BY <2>1, <4>1 DEF WorkStays, task
        <5>2. task \in {"describe", "card", "normalize"}
          BY <1>1, <1>4, <4>1 DEF TaskOf
        <5> QED
          BY <1>3, <1>4, <2>1, <2>2, <4>1, <5>1, <5>2 DEF Adds, Grows
      <4>2. CASE r # a
        BY <1>4, <2>1, <2>2, <4>2 DEF WorkStays, Grows
      <4> QED
        BY <4>1, <4>2
    <3> QED
      BY <3>1, <3>2 DEF WorkStays
  <2>7. LoneAreDescribed'
    <3>0. ASSUME NEW r \in Writers, holder = r
          PROVE  Lone(site') \subseteq backlog \cup MediaOf[r]
      <4>1. /\ site.sets \subseteq site'.sets /\ site'.objects \subseteq site.objects \cup {a}
            /\ site'.objects \subseteq Keys /\ a \in AgentsOf(r)
        <5>1. site.sets \subseteq site'.sets /\ site'.objects \subseteq site.objects \cup {a}
          BY <2>1 DEF Adds, Grows
        <5>2. site'.objects \subseteq Keys
          BY <1>2 DEF SiteState
        <5>3. a \in AgentsOf(r)
          BY <2>1, <3>0, Owned
        <5> QED
          BY <5>1, <5>2, <5>3
      <4> QED
        BY <2>1, <3>0, <4>1, LoneStay DEF LoneAreDescribed
    <3> SUFFICES ASSUME NEW r \in Writers, job'[r].task = "normalize", holder = r
                 PROVE  /\ job'[r].at \in {"queued", "latest"} =>
                             job'[r].base.objects = site'.objects
                             /\ Lone(job'[r].base) \subseteq backlog
                        /\ job'[r].at = "put" => Reduced(job[r].new)'
                        /\ job'[r].at = "done" => Reduced(site)'
      BY <1>1, <3>0 DEF LoneAreDescribed, Lone
    <3>1. CASE r = a
      <4>1. task \in {"describe", "card", "normalize"}
        BY <1>1, <1>4, <3>1 DEF TaskOf
      <4>2. task = "normalize" => Reduced(job[r].new)
        BY <1>1, <2>1, <3>1 DEF LoneAreDescribed, task
      <4> QED
        BY <1>1, <1>3, <1>4, <3>1, <4>1, <4>2 DEF Reduced, Lone
    <3>2. CASE r # a
      <4>1. a \in MediaOf[r]
        BY <2>1, <3>2, Owned DEF AgentsOf
      <4>2. job[r].task = "normalize" /\ job[r].at # "rest"
        BY <1>4, <1>5, <3>2 DEF TasksFollow
      <4> QED
        BY <1>1, <1>5, <4>1, <4>2 DEF TasksFollow
    <3> QED
      BY <3>1, <3>2
  <2> QED
    BY <2>4, <2>5, <2>6, <2>7
<1> QED
  BY <1>1, <1>6, <1>7, <1>8, <1>9, <1>10, <1>11 DEF MediaInv

\* A writer takes the lock.
LEMMA BeginKeeps == ASSUME MediaInv, NEW r \in Writers, BeginWrites(r) PROVE MediaInv'
<1>1. /\ stage[r] = "new" /\ holder = Nobody /\ stage' = [stage EXCEPT ![r] = "writing"]
      /\ holder' = r /\ backlog' = Lone(site) /\ UNCHANGED <<site, stored, late>>
      /\ job' = [a \in Agents |->
                    IF a \in MediaOf[r] THEN At("reserve", "read") ELSE job[a]]
  BY DEF BeginWrites
<1>2. MediaTypeOK /\ TasksFollow /\ StagesFollow /\ LimitIsKept /\ TurnsExclude
  BY DEF MediaInv
<1>3. /\ At("reserve", "read") \in Job /\ At("reserve", "read").task = "reserve"
      /\ At("reserve", "read").at = "read"
  BY AtRest DEF Tasks
<1>4. /\ \A k \in MediaOf[r] : job'[k].task = "reserve" /\ job'[k].at = "read"
      /\ \A a \in Agents : a \notin MediaOf[r] => job'[a] = job[a]
      /\ \A a \in AgentsOf(r) : job[a].at = "rest"
      /\ Keys \subseteq Agents /\ Writers \subseteq Agents /\ Keys \cap Writers = {}
      /\ \A q \in Writers : MediaOf[q] \subseteq Keys
      /\ \A q \in Writers : q # r => MediaOf[q] \cap MediaOf[r] = {}
      /\ MediaOf[r] \subseteq AgentsOf(r) /\ r \in AgentsOf(r)
  BY <1>1, <1>2, <1>3, Owners, MediaWritesAssumption
     DEF Agents, StagesFollow, AgentsOf, MediaWritesAssumption
<1>5. MediaTypeOK'
  BY <1>1, <1>2, <1>3 DEF MediaTypeOK, Lone, SiteState
<1>6. TasksFollow'
  <2>1. \A q \in Writers : job'[q] = job[q]
    BY <1>4
  <2>2. \A k \in Keys : job[k].at = "done" => job'[k] = job[k]
    BY <1>4
  <2>3. ASSUME NEW k \in Keys
        PROVE  /\ job'[k].task \in {"reserve", "record"}
               /\ job'[k].at = "object" => job'[k].task = "reserve"
               /\ job'[k].at = "done" => job'[k].task = "record"
               /\ job'[k].task = "record" => k \in stored'
    BY <1>1, <1>2, <1>4 DEF TasksFollow
  <2> QED
    BY <1>2, <1>4, <2>1, <2>2, <2>3 DEF TasksFollow
<1>7. StagesFollow'
  <2>1. \A q \in Writers : job'[q] = job[q]
    BY <1>4
  <2>2. ASSUME NEW q \in Writers, stage'[q] = "new" PROVE q # r /\ stage[q] = "new"
    BY <1>1, <1>2, <2>2 DEF MediaTypeOK
  <2>3. ASSUME NEW q \in Writers, stage'[q] = "new", NEW a \in AgentsOf(q)
        PROVE  job'[a].at = "rest"
    <3>1. a \notin MediaOf[r] /\ a \in Agents
      BY <1>4, <2>2, <2>3 DEF AgentsOf
    <3> QED
      BY <1>2, <1>4, <2>2, <2>3, <3>1 DEF StagesFollow
  <2>4. ASSUME NEW q \in Writers PROVE stage'[q] = "writing" <=> holder' = q
    <3>1. holder # q
      BY <1>1, MediaWritesAssumption DEF MediaWritesAssumption
    <3> QED
      BY <1>1, <1>2, <3>1 DEF StagesFollow, MediaTypeOK
  <2>5. ASSUME NEW q \in Writers, stage'[q] = "saved" PROVE job'[q].at = "done"
    BY <1>1, <1>2, <2>1, <2>5 DEF StagesFollow, MediaTypeOK
  <2> QED
    BY <2>3, <2>4, <2>5 DEF StagesFollow, AgentsOf
<1>8. LimitIsKept'
  BY <1>1, <1>2, <1>4 DEF LimitIsKept, WithinLimit
<1>9. TurnsExclude'
  BY <1>2, <1>4 DEF TurnsExclude
<1>10. ASSUME late = {}
       PROVE  WritesAdd' /\ ClaimsAreCounted' /\ WorkStays' /\ LoneAreDescribed'
  <2>1. WritesAdd /\ ClaimsAreCounted /\ WorkStays /\ LoneAreDescribed
    BY <1>10 DEF MediaInv
  <2>2. ASSUME NEW a \in Agents, job'[a].at \in {"queued", "latest", "put"}
        PROVE  /\ job'[a] = job[a] /\ OwnerOf(a) # r /\ job[a].at # "put"
    <3>1. a \notin AgentsOf(r) /\ job'[a] = job[a]
      BY <1>4, <2>2
    <3>2. OwnerOf(a) # r /\ OwnerOf(a) # Nobody
      BY <3>1, Owned
    <3> QED
      BY <1>1, <2>1, <3>1, <3>2 DEF WritesAdd
  <2>3. WritesAdd'
    BY <1>1, <2>1, <2>2 DEF WritesAdd
  <2>4. ClaimsAreCounted'
    <3>1. Claimed' \subseteq Claimed
      BY <1>1, <1>4 DEF Claimed
    <3>2. IsFiniteSet(Claimed) /\ Cardinality(Claimed) <= site.total
      BY <2>1 DEF ClaimsAreCounted
    <3>3. IsFiniteSet(Claimed') /\ Cardinality(Claimed') <= Cardinality(Claimed)
      BY <3>1, <3>2, FS_Subset
    <3>4. Cardinality(Claimed) \in Nat /\ Cardinality(Claimed') \in Nat /\ site.total \in Int
      BY <1>2, <3>2, <3>3, FS_CardinalityType DEF MediaTypeOK, SiteState
    <3> QED
      BY <1>1, <3>2, <3>3, <3>4 DEF ClaimsAreCounted
  <2>5. WorkStays'
    BY <1>1, <1>4, <2>1 DEF WorkStays
  <2>6. LoneAreDescribed'
    <3>1. job'[r].at = "rest" /\ job'[r] = job[r] /\ job[r].task = "describe"
      BY <1>2, <1>4 DEF TasksFollow
    <3>2. Lone(site)' \subseteq backlog'
      BY <1>1 DEF Lone
    <3> QED
      BY <1>1, <3>1, <3>2 DEF LoneAreDescribed
  <2> QED
    BY <2>3, <2>4, <2>5, <2>6
<1> QED
  BY <1>1, <1>5, <1>6, <1>7, <1>8, <1>9, <1>10 DEF MediaInv

\* A request ends, answered or not, with none of its writes on its way.
LEMMA EndKeeps ==
    ASSUME MediaInv, NEW r \in Writers, stage[r] = "writing",
           NEW end \in {"saved", "failed"}, stage' = [stage EXCEPT ![r] = end],
           end = "saved" => job[r].at = "done", holder' = Nobody,
           UNCHANGED <<site, stored, job, backlog>>, late' \in SUBSET Writers,
           late' = {} => late = {} /\ \A a \in AgentsOf(r) : job[a].at # "put"
    PROVE  MediaInv'
<1>1. MediaTypeOK /\ TasksFollow /\ StagesFollow /\ LimitIsKept /\ TurnsExclude
  BY DEF MediaInv
<1>2. holder = r
  BY <1>1 DEF StagesFollow
<1>3. MediaTypeOK'
  BY <1>1 DEF MediaTypeOK
<1>4. TasksFollow' /\ LimitIsKept' /\ TurnsExclude'
  BY <1>1 DEF TasksFollow, LimitIsKept, TurnsExclude
<1>5. StagesFollow'
  <2>1. ASSUME NEW q \in Writers PROVE stage'[q] = "writing" <=> holder' = q
    BY <1>1, <1>2, MediaWritesAssumption DEF StagesFollow, MediaTypeOK, MediaWritesAssumption
  <2>2. ASSUME NEW q \in Writers
        PROVE  /\ stage'[q] = "new" => \A a \in AgentsOf(q) : job'[a].at = "rest"
               /\ stage'[q] = "saved" => job'[q].at = "done"
    BY <1>1 DEF StagesFollow, MediaTypeOK
  <2> QED
    BY <2>1, <2>2 DEF StagesFollow, AgentsOf
<1>6. ASSUME late' = {}
      PROVE  WritesAdd' /\ ClaimsAreCounted' /\ WorkStays' /\ LoneAreDescribed'
  <2>1. WritesAdd /\ ClaimsAreCounted /\ WorkStays /\ LoneAreDescribed
    BY <1>6 DEF MediaInv
  <2>2. \A a \in Agents : job[a].at # "put" /\ OwnerOf(a) # Nobody
    BY <1>2, <1>6, <2>1, Owned DEF WritesAdd
  <2>3. WritesAdd'
    BY <2>1, <2>2 DEF WritesAdd
  <2>4. ClaimsAreCounted' /\ WorkStays'
    BY <2>1 DEF ClaimsAreCounted, Claimed, WorkStays
  <2>5. LoneAreDescribed'
    BY MediaWritesAssumption DEF LoneAreDescribed, MediaWritesAssumption
  <2> QED
    BY <2>3, <2>4, <2>5
<1> QED
  BY <1>3, <1>4, <1>5, <1>6 DEF MediaInv

\* It is answered.
LEMMA AcknowledgeKeeps == ASSUME MediaInv, NEW r \in Writers, Acknowledge(r) PROVE MediaInv'
<1>1. /\ stage[r] = "writing" /\ job[r].at = "done" /\ stage' = [stage EXCEPT ![r] = "saved"]
      /\ holder' = Nobody /\ UNCHANGED <<site, stored, job, late, backlog>>
  BY DEF Acknowledge
<1>2. \A a \in AgentsOf(r) : job[a].at = "done"
  BY <1>1 DEF MediaInv, TasksFollow, AgentsOf
<1>3. late' \in SUBSET Writers
  BY <1>1 DEF MediaInv, MediaTypeOK
<1> QED
  BY <1>1, <1>2, <1>3, EndKeeps

\* It fails.
LEMMA GiveUpKeeps == ASSUME MediaInv, NEW r \in Writers, GiveUp(r) PROVE MediaInv'
<1>1. /\ stage[r] = "writing" /\ stage' = [stage EXCEPT ![r] = "failed"]
      /\ holder' = Nobody /\ UNCHANGED <<site, stored, job, backlog>>
      /\ late' = IF \E a \in AgentsOf(r) : job[a].at = "put" THEN late \cup {r} ELSE late
  BY DEF GiveUp
<1>2. late' \in SUBSET Writers
  BY <1>1 DEF MediaInv, MediaTypeOK
<1>3. late' = {} => late = {} /\ \A a \in AgentsOf(r) : job[a].at # "put"
  BY <1>1
<1> QED
  BY <1>1, <1>2, <1>3, EndKeeps

-----------------------------------------------------------------------------
(* The theorems.                                                           *)

\* The invariant holds at first.
LEMMA MediaInvInit == MediaInit => MediaInv
<1> SUFFICES ASSUME MediaInit PROVE MediaInv
  OBVIOUS
<1>1. /\ site = NoState /\ stored = {} /\ holder = Nobody /\ late = {}
      /\ backlog = {} /\ stage = [r \in Writers |-> "new"]
      /\ job = [a \in Agents |->
                   At(IF a \in Writers THEN "describe" ELSE "reserve", "rest")]
  BY DEF MediaInit
<1>2. /\ \A a \in Agents : job[a] \in Job /\ job[a].at = "rest"
      /\ \A r \in Writers : job[r].task = "describe"
      /\ \A k \in Keys : job[k].task = "reserve"
  BY <1>1, AtRest, Owners DEF Tasks, Agents
<1>3. Keys \subseteq Agents /\ Writers \subseteq Agents /\ Nobody \notin Writers
  BY MediaWritesAssumption DEF Agents, MediaWritesAssumption
<1>4. MediaTypeOK
  BY <1>1, <1>2, NoStateType DEF MediaTypeOK
<1>5. TasksFollow /\ TurnsExclude
  BY <1>2, <1>3 DEF TasksFollow, TurnsExclude
<1>6. StagesFollow
  <2>1. \A r \in Writers : AgentsOf(r) \subseteq Agents
    BY <1>3, Owners DEF AgentsOf
  <2> QED
    BY <1>1, <1>2, <1>3, <2>1 DEF StagesFollow
<1>7. NoState.total = 0 /\ NoState.objects = {}
  BY DEF NoState
<1>8. LimitIsKept
  BY <1>1, <1>2, <1>7, MediaWritesAssumption DEF LimitIsKept, WithinLimit, MediaWritesAssumption
<1>9. WritesAdd /\ WorkStays /\ LoneAreDescribed
  BY <1>1, <1>2, <1>3 DEF WritesAdd, WorkStays, LoneAreDescribed
<1>10. ClaimsAreCounted
  <2>1. Claimed = {}
    BY <1>1, <1>2, <1>3 DEF Claimed
  <2> QED
    BY <1>1, <1>7, <2>1, FS_EmptySet DEF ClaimsAreCounted
<1> QED
  BY <1>4, <1>5, <1>6, <1>8, <1>9, <1>10 DEF MediaInv

\* Every step keeps it.
LEMMA MediaInvNext == MediaInv /\ [MediaNext]_mediaVars => MediaInv'
<1> SUFFICES ASSUME MediaInv, [MediaNext]_mediaVars PROVE MediaInv'
  OBVIOUS
<1>1. CASE UNCHANGED mediaVars
  <2>1. UNCHANGED <<site, stored, holder, stage, job, late, backlog>>
    BY <1>1 DEF mediaVars
  <2>2. (MediaTypeOK /\ TasksFollow /\ StagesFollow /\ LimitIsKept /\ TurnsExclude)'
    BY <2>1 DEF MediaInv, MediaTypeOK, TasksFollow, StagesFollow, LimitIsKept, WithinLimit,
       TurnsExclude
  <2>3. late = {} => (WritesAdd /\ WorkStays)'
    BY <2>1 DEF MediaInv, WritesAdd, WorkStays
  <2>4. late = {} => ClaimsAreCounted'
    BY <2>1 DEF MediaInv, ClaimsAreCounted, Claimed
  <2>5. late = {} => LoneAreDescribed'
    BY <2>1 DEF MediaInv, LoneAreDescribed, Reduced, Lone
  <2> QED
    BY <2>1, <2>2, <2>3, <2>4, <2>5 DEF MediaInv
<1>2. ASSUME NEW k \in Keys, PutObject(k) PROVE MediaInv'
  BY <1>2, ObjectKeeps
<1>3. ASSUME NEW a \in Agents,
             ReadState(a) \/ TakeTurn(a) \/ CheckWrite(a) \/ LandPut(a) \/ PutFails(a)
      PROVE  MediaInv'
  BY <1>3, ReadKeeps, TurnKeeps, CheckKeeps, LandKeeps, FailKeeps
<1>4. ASSUME NEW r \in Writers,
             BeginWrites(r) \/ DescribeMedia(r) \/ Acknowledge(r) \/ GiveUp(r)
      PROVE  MediaInv'
  BY <1>4, BeginKeeps, DescribeKeeps, AcknowledgeKeeps, GiveUpKeeps
<1> QED
  BY <1>1, <1>2, <1>3, <1>4 DEF MediaNext

\* In every reachable state the invariant of the media writes holds.
THEOREM MediaInvariantHolds == MediaSpec => []MediaInv
  BY MediaInvInit, MediaInvNext, PTL DEF MediaSpec

\* The card, the set, the records and the objects of a request that was answered
\* stay, whatever is written beside it and after it (worker.js:2636), until a
\* write of a request that has ended is on its way.
THEOREM SavedStays == MediaSpec => []SavedMediaStays
<1>1. MediaInv => SavedMediaStays
  <2> SUFFICES ASSUME MediaInv, late = {}, NEW r \in Writers, stage[r] = "saved"
               PROVE  /\ r \in site.cards \cap site.sets
                      /\ MediaOf[r] \subseteq site.objects \cap stored
    BY DEF SavedMediaStays
  <2>1. TasksFollow /\ StagesFollow /\ WorkStays
    BY DEF MediaInv
  <2>2. job[r].at = "done" /\ job[r].task = "normalize"
    BY <2>1 DEF TasksFollow, StagesFollow
  <2>3. ASSUME NEW k \in MediaOf[r] PROVE k \in site.objects /\ k \in stored
    <3>1. k \in Keys /\ job[k].at = "done"
      BY <2>1, <2>2, <2>3, Owners DEF TasksFollow
    <3> QED
      BY <2>1, <3>1 DEF TasksFollow, WorkStays
  <2> QED
    BY <2>1, <2>2, <2>3 DEF WorkStays
<1> QED
  BY <1>1, MediaInvariantHolds, PTL

\* The count is within the limit, and no object is in the bucket that it does not
\* count (until a late write).
THEOREM StorageCounted == MediaSpec => []StorageIsCounted
<1>1. MediaInv => StorageIsCounted
  <2> SUFFICES ASSUME MediaInv PROVE StorageIsCounted
    OBVIOUS
  <2>1. site.total <= StorageLimit
    BY DEF MediaInv, LimitIsKept, WithinLimit
  <2>2. ASSUME late = {} PROVE Cardinality(stored) <= site.total
    <3>1. /\ IsFiniteSet(Claimed) /\ Cardinality(Claimed) <= site.total
          /\ stored \subseteq Claimed /\ site.total \in Int
      BY <2>2 DEF MediaInv, ClaimsAreCounted, Claimed, MediaTypeOK, SiteState
    <3>2. IsFiniteSet(stored) /\ Cardinality(stored) <= Cardinality(Claimed)
      BY <3>1, FS_Subset
    <3>3. Cardinality(stored) \in Nat /\ Cardinality(Claimed) \in Nat
      BY <3>1, <3>2, FS_CardinalityType
    <3> QED
      BY <3>1, <3>2, <3>3
  <2> QED
    BY <2>1, <2>2 DEF StorageIsCounted
<1> QED
  BY <1>1, MediaInvariantHolds, PTL

\* When a request is answered every record is of a variant set, also those that a
\* request left which failed; or a whole plan of those it found is.
THEOREM LeftoversDescribed == MediaSpec => LeftoversAreDescribed
<1> DEFINE Answered == \A r \in Writers :
                          late = {} /\ stage[r] # "saved" /\ stage'[r] = "saved"
                              => \/ Lone(site) = {}
                                 \/ /\ Lone(site) \subseteq backlog
                                    /\ Cardinality(Lone(site)) + PlanLimit
                                         <= Cardinality(backlog)
<1>1. MediaInv /\ [MediaNext]_mediaVars => [Answered]_mediaVars
  <2> SUFFICES ASSUME MediaInv, MediaNext, NEW r \in Writers,
                      late = {}, stage[r] # "saved", stage'[r] = "saved"
               PROVE  Reduced(site)
    BY DEF Reduced
  <2>1. stage \in [Writers -> {"new", "writing", "saved", "failed"}]
    BY DEF MediaInv, MediaTypeOK
  <2>2. ASSUME NEW a \in Agents,
               ReadState(a) \/ TakeTurn(a) \/ CheckWrite(a) \/ LandPut(a) \/ PutFails(a)
                 \/ (a \in Keys /\ PutObject(a))
        PROVE  UNCHANGED stage
    BY <2>2 DEF ReadState, TakeTurn, CheckWrite, LandPut, PutFails, PutObject
  <2>3. ASSUME NEW q \in Writers, BeginWrites(q) \/ DescribeMedia(q) \/ GiveUp(q)
        PROVE  stage'[r] \in {stage[r], "writing", "failed"}
    BY <2>1, <2>3 DEF BeginWrites, DescribeMedia, GiveUp
  <2>4. Acknowledge(r)
    <3>1. PICK q \in Writers : Acknowledge(q)
      BY <2>2, <2>3 DEF MediaNext, Agents
    <3>2. stage' = [stage EXCEPT ![q] = "saved"]
      BY <3>1 DEF Acknowledge
    <3> QED
      BY <2>1, <3>1, <3>2
  <2>5. job[r].at = "done" /\ holder = r /\ job[r].task = "normalize"
    BY <2>4 DEF Acknowledge, MediaInv, StagesFollow, TasksFollow
  <2> QED
    BY <2>5 DEF MediaInv, LoneAreDescribed
<1> QED
  BY <1>1, MediaInvariantHolds, PTL DEF MediaSpec, LeftoversAreDescribed
====================================================================================
