-------------------------- MODULE AuditLifecycleProofs --------------------------
(***************************************************************************)
(* What holds of the audit log for any number of requests, entries and     *)
(* failures, any batch and any retention times.                            *)
(*                                                                         *)
(* A pass plans from what it has read and carries its plans out later. The *)
(* inductive invariant says what of a plan stays true whatever crosses it: *)
(* ids are not used again, an entry keeps when it was made, and its        *)
(* snapshots stay or go together.                                          *)
(***************************************************************************)
EXTENDS AuditLifecycle, WellFoundedInduction, TLAPS

Working == {"check", "lock", "apply", "mark", "again"}

\* Ids are given in order and stay given.
IdsAreUsed ==
    /\ \A id \in Ids : Here(id) => id <= used
    /\ \A id \in marked : id <= used

\* An entry that has a time at which its revert ends has the one it began with.
ExpiryIsKept(id, expires) ==
    Here(id) /\ expires # None => expires = rows[id].created + RevertTTL

\* What of a plan is still true. A snapshot that was missing stays missing.
PlanHolds(p) ==
    /\ p.id <= used
    /\ ExpiryIsKept(p.id, p.expires)
    /\ p.op = "activate" => p.expires # None
    /\ Here(p.id) /\ rows[p.id].before # None => p.media = MediaOf(rows[p.id])
    /\ p.op = "activate" /\ p.status \notin Revertible
         => ~(Here(p.id) /\ rows[p.id].before # None)
    /\ p.status = "reverted" => p.id \in marked

PlansHold ==
    \A a \in Actors : \A p \in job[a].todo :
        PlanHolds(p) /\ \A q \in job[a].todo : p.id = q.id => p = q

\* Where a request and the maintenance can be.
StepsFollow ==
    \A a \in Actors :
        /\ job[a].kind \in {"asking", "revert"} => job[a].row \in Ids
        /\ job[a].kind \notin {"revert", "cron"} => job[a].todo = {}
        /\ job[a].step \in Working => job[a].kind = "revert"
        /\ job[a].step = "media" => job[a].kind = "cron"
        /\ job[a].step = "refs" => job[a].todo # {}
        /\ job[a].step = "apply" => holder = a /\ used < MaxRows
        /\ job[a].step \in {"lock", "apply"} => job[a].fresh = "yes"

\* An entry with a time at which its revert ends holds its media.
Protected(id) ==
    \/ MediaOf(rows[id]) \subseteq Holding(id)
    \/ id \in cut
    \/ \E a \in Actors : job[a].step = "refs" /\ Current(a).id = id
MediaIsHeld ==
    \A id \in Ids :
        Here(id) =>
            /\ ExpiryIsKept(id, rows[id].expires)
            /\ rows[id].before # None /\ rows[id].expires # None => Protected(id)

\* The mark of a revert stays, or it is known what took it away.
MarksStay ==
    \A id \in Ids :
        Here(id) =>
            /\ rows[id].status = "reverted" => id \in marked
            /\ id \in marked /\ rows[id].before # None =>
                 rows[id].status = "reverted" \/ id \in reopened

IInv ==
    /\ TypeOK /\ IdsAreUsed /\ PlansHold /\ StepsFollow /\ MediaIsHeld /\ MarksStay

-----------------------------------------------------------------------------
(* Plans.                                                                  *)

\* A set of numbers that is not empty has a least one.
LEMMA LeastOfNaturals ==
    ASSUME NEW S \in SUBSET Nat, S # {}
    PROVE  \E m \in S : \A n \in S : m <= n
<1> DEFINE less == {p \in Nat \X Nat : p[1] < p[2]}
<1>1. IsWellFoundedOn(less, Nat)
  BY NatLessThanWellFounded DEF OpToRel
<1> HIDE DEF less
<1>2. PICK m \in S : \A n \in S : <<n, m>> \notin less
  BY <1>1, WFMin
<1>3. ASSUME NEW n \in S PROVE m <= n
  <2>1. <<n, m>> \in Nat \X Nat /\ <<n, m>>[1] = n /\ <<n, m>>[2] = m
    OBVIOUS
  <2>2. ~(n < m)
    BY <1>2, <2>1 DEF less
  <2> QED
    BY <2>2
<1> QED
  BY <1>3

\* A pass that has plans left carries out one of them.
LEMMA CurrentIsPlanned ==
    ASSUME TypeOK, NEW a \in Actors, job[a].todo # {}
    PROVE  Current(a) \in job[a].todo
<1>1. job[a].todo \subseteq Plan /\ \A p \in Plan : p.id \in Nat
  BY TimeAssumption DEF TypeOK, Job, Plan, Ids, TimeAssumption
<1> DEFINE ids == {p.id : p \in job[a].todo}
<1>2. ids \in SUBSET Nat /\ ids # {}
  BY <1>1
<1> HIDE DEF ids
<1>3. PICK m \in ids : \A n \in ids : m <= n
  BY <1>2, LeastOfNaturals
<1>4. PICK p \in job[a].todo : p.id = m
  BY DEF ids
<1>5. \A q \in job[a].todo : p.id <= q.id
  BY <1>3, <1>4 DEF ids
<1> QED
  BY <1>5 DEF Current

\* The entries there are have the type of entries.
LEMMA HereIsEntry ==
    ASSUME TypeOK, NEW id \in Ids
    PROVE  /\ Here(id) <=> rows[id] \in Entry
           /\ Here(id) => /\ rows[id].created \in Nat
                          /\ rows[id].created + RevertTTL \in 0..(MaxTime + RevertTTL)
                          /\ MediaOf(rows[id]) \subseteq Versions
<1>1. rows[id] \in Entry \cup {Absent} /\ Absent \notin Entry /\ Absent.action = "none"
  <2>1. \A r \in Entry : r.action # "none"
    BY DEF Entry
  <2> QED
    BY <2>1 DEF TypeOK, Absent
<1>2. Here(id) <=> rows[id] \in Entry
  BY <1>1 DEF Here, Entry
<1>3. ASSUME rows[id] \in Entry
      PROVE  /\ rows[id].created \in 0..MaxTime
             /\ MediaOf(rows[id]) \subseteq Versions
  BY <1>3 DEF Entry, MediaOf
<1> QED
  BY <1>2, <1>3, TimeAssumption DEF TimeAssumption

\* A plan made of an entry that is there.
LEMMA PlanTypes ==
    ASSUME TypeOK, NEW id \in Ids, Here(id), ExpiryIsKept(id, rows[id].expires)
    PROVE  /\ Operation(rows[id]) \in
                {"delete", "expire", "dispose", "activate", "not_applicable"}
           /\ rows[id].created + RevertTTL <= now => Operation(rows[id]) # "not_applicable"
           /\ Operation(rows[id]) = "activate" => Reversible(rows[id])
           /\ PlanFor(id).id = id /\ PlanFor(id).op = Operation(rows[id])
           /\ PlanFor(id).media = MediaOf(rows[id])
           /\ PlanFor(id).expires \in {rows[id].created + RevertTTL, None}
           /\ PlanFor(id).op = "activate" =>
                /\ PlanFor(id).expires # None
                /\ PlanFor(id).status = ActiveStatus(rows[id])
           /\ PlanFor(id).op # "activate" => PlanFor(id).status \in {"expired", "not_applicable"}
           /\ PlanFor(id).op # "not_applicable" => PlanFor(id) \in Plan
<1> DEFINE r == rows[id]
<1>1. /\ r \in Entry /\ r.created \in Nat /\ now \in Nat
      /\ r.created + RevertTTL \in 0..(MaxTime + RevertTTL)
      /\ MediaOf(r) \subseteq Versions
      /\ RevertTTL \in Nat /\ AuditTTL \in Nat /\ None \notin Nat
  BY HereIsEntry, TimeAssumption, SentinelAssumption
     DEF TypeOK, TimeAssumption, SentinelAssumption
<1>2. ExpiryOf(r) = r.created + RevertTTL
  BY DEF ExpiryOf, ExpiryIsKept
<1>3. /\ Operation(r) \in {"delete", "expire", "dispose", "activate", "not_applicable"}
      /\ r.created + RevertTTL <= now => Operation(r) # "not_applicable"
      /\ Operation(r) = "activate" => Reversible(r)
  <2>1. CASE now >= r.created + AuditTTL
    BY <1>1, <2>1 DEF Operation
  <2>2. CASE now < r.created + AuditTTL /\ now >= ExpiryOf(r)
    BY <1>1, <1>2, <2>2 DEF Operation
  <2>3. CASE now < r.created + AuditTTL /\ now < ExpiryOf(r)
    BY <1>1, <1>2, <2>3 DEF Operation
  <2> QED
    BY <1>1, <1>2, <2>1, <2>2, <2>3
<1>4. /\ PlanFor(id).id = id /\ PlanFor(id).op = Operation(r)
      /\ PlanFor(id).media = MediaOf(r)
      /\ PlanFor(id).expires =
           IF Operation(r) \in {"expire", "activate"} THEN ExpiryOf(r) ELSE None
      /\ PlanFor(id).status = CASE Operation(r) = "activate" -> ActiveStatus(r)
                                [] Operation(r) = "expire" -> "expired"
                                [] OTHER -> "not_applicable"
      /\ PlanFor(id) = [id |-> id, op |-> PlanFor(id).op, media |-> PlanFor(id).media,
                        expires |-> PlanFor(id).expires, status |-> PlanFor(id).status]
  BY DEF PlanFor
<1>5. ActiveStatus(r) \in Statuses
  BY <1>1 DEF ActiveStatus, Entry, Statuses, Revertible
<1>6. /\ PlanFor(id).op = "activate" => PlanFor(id).status = ActiveStatus(r)
      /\ PlanFor(id).op # "activate" => PlanFor(id).status \in {"expired", "not_applicable"}
  BY <1>4
<1>7. PlanFor(id).status \in Statuses
  BY <1>5, <1>6 DEF Statuses
<1>8. /\ PlanFor(id).expires \in {r.created + RevertTTL, None}
      /\ PlanFor(id).op = "activate" => PlanFor(id).expires # None
  BY <1>1, <1>2, <1>4
<1>9. ASSUME Operation(r) # "not_applicable" PROVE PlanFor(id) \in Plan
  BY <1>1, <1>3, <1>4, <1>7, <1>8, <1>9 DEF Plan
<1> QED
  BY <1>3, <1>4, <1>6, <1>8, <1>9

\* The plans that are made hold, one for an entry.
LEMMA PlansAreMade ==
    ASSUME IInv
    PROVE  \A plans \in {PassPlans, DisposalPlans} :
             \A p \in plans : /\ p \in Plan /\ PlanHolds(p) /\ Here(p.id)
                              /\ \A q \in plans : p.id = q.id => p = q
<1>1. ASSUME NEW id \in Ids, Here(id)
      PROVE  PlanHolds(PlanFor(id)) /\ PlanFor(id).id = id
  <2>1. /\ TypeOK /\ ExpiryIsKept(id, rows[id].expires) /\ id <= used
        /\ rows[id].status = "reverted" => id \in marked
    BY <1>1 DEF IInv, MediaIsHeld, IdsAreUsed, MarksStay
  <2>2. ASSUME PlanFor(id).op = "activate", PlanFor(id).status \notin Revertible
        PROVE  rows[id].before = None
    BY <1>1, <2>1, <2>2, PlanTypes DEF ActiveStatus, Revertible
  <2>3. ASSUME PlanFor(id).status = "reverted" PROVE id \in marked
    BY <1>1, <2>1, <2>3, PlanTypes DEF ActiveStatus
  <2> QED
    BY <1>1, <2>1, <2>2, <2>3, PlanTypes DEF PlanHolds, ExpiryIsKept
<1>2. ASSUME NEW p \in PassPlans
      PROVE  \E id \in Ids : Here(id) /\ p = PlanFor(id) /\ p.op # "not_applicable"
  BY <1>2 DEF PassPlans, FirstOf, Selected
<1>3. ASSUME NEW p \in DisposalPlans
      PROVE  \E id \in Ids : Here(id) /\ p = PlanFor(id) /\ rows[id].created + RevertTTL <= now
  BY <1>3 DEF DisposalPlans, FirstOf
<1>4. ASSUME NEW p \in PassPlans \cup DisposalPlans
      PROVE  p \in Plan /\ PlanHolds(p) /\ Here(p.id) /\ p = PlanFor(p.id)
  <2>1. PICK id \in Ids : /\ Here(id) /\ p = PlanFor(id)
                          /\ p.op # "not_applicable" \/ rows[id].created + RevertTTL <= now
    BY <1>2, <1>3, <1>4
  <2>2. TypeOK /\ ExpiryIsKept(id, rows[id].expires)
    BY <2>1 DEF IInv, MediaIsHeld
  <2> QED
    BY <1>1, <2>1, <2>2, PlanTypes
<1> QED
  BY <1>4

-----------------------------------------------------------------------------
(* Steps.                                                                  *)

\* The steps that change only what a request or the maintenance is doing.
JobMoves ==
    \/ \E a \in Requests :
         \/ \E id \in Ids : OpenConfirmation(a, id)
         \/ StartRevert(a) \/ Lock(a) \/ Check(a) \/ ApplyRefused(a) \/ PassAgain(a)
    \/ \E a \in Actors : PassEnds(a)
    \/ StartCron \/ Media

\* A step changes entries, or is one of these, or the time passes, or nothing changes.
LEMMA StepCases ==
    ASSUME [Next]_vars
    PROVE  \/ \E a \in Actors : \/ PassDelete(a) \/ PassDispose(a) \/ PassActivate(a)
                                \/ PassRefs(a) \/ Die(a)
           \/ \E a \in Requests : Apply(a) \/ MarkReverted(a)
           \/ DeleteOld
           \/ \E v \in Versions : Edit(v) \/ Quarantine(v)
           \/ LogOther
           \/ JobMoves
           \/ Tick \/ UNCHANGED vars
  BY DEF Next, PassStep, RevertStep, CronStep, JobMoves

\* What a request or the maintenance may come to do, the entries unchanged.
JobStep(a, j) ==
    /\ a \in Actors /\ j \in Job
    /\ job' = [job EXCEPT ![a] = j]
    /\ j.step # "refs"
    /\ j.todo \in {{}, job[a].todo, PassPlans, DisposalPlans}
    /\ j.kind \in {"asking", "revert"} => j.row \in Ids
    /\ j.kind \notin {"revert", "cron"} => j.todo = {}
    /\ j.step \in Working => j.kind = "revert"
    /\ j.step = "media" => j.kind = "cron"
    /\ j.step = "apply" => holder' = a /\ used < MaxRows
    /\ j.step \in {"lock", "apply"} => j.fresh = "yes"
    /\ job[a].step # "refs"
    /\ \/ holder' = holder
       \/ holder = None /\ holder' = a
       \/ holder = a /\ holder' = None

\* Such a step is of one of them.
LEMMA JobSteps ==
    ASSUME IInv, JobMoves
    PROVE  /\ UNCHANGED <<table, card, away, now, history, faults>>
           /\ \E a \in Actors : \E j \in Job : JobStep(a, j)
<1>1. /\ job \in [Actors -> Job] /\ Requests \subseteq Actors /\ Cron \in Actors
      /\ holder \in Actors \cup {None}
  BY DEF IInv, TypeOK, Actors
<1>2. \A a \in Actors :
        /\ job[a].kind \in {"asking", "revert"} => job[a].row \in Ids
        /\ job[a].kind \notin {"revert", "cron"} => job[a].todo = {}
        /\ job[a].step \in Working => job[a].kind = "revert"
        /\ job[a].step = "media" => job[a].kind = "cron"
        /\ job[a].step = "refs" => job[a].todo # {}
        /\ job[a].step = "apply" => holder = a /\ used < MaxRows
        /\ job[a].step \in {"lock", "apply"} => job[a].fresh = "yes"
  BY DEF IInv, StepsFollow
<1>3. \A plans \in {PassPlans, DisposalPlans} : plans \subseteq Plan
  BY PlansAreMade
<1>4. /\ Idle \in Job /\ Idle.kind = "idle" /\ Idle.step = "pass" /\ Idle.todo = {}
      /\ \A k \in {"idle", "asking", "revert", "cron", "done"} :
           [Idle EXCEPT !.kind = k] \in Job
      /\ \A id \in Ids : \A k \in {"asking", "revert"} :
           [Idle EXCEPT !.kind = k, !.row = id] \in Job
  BY DEF Idle, Job
<1>5. ASSUME NEW a \in Actors, Quit(a), job[a].step # "refs" PROVE \E j \in Job : JobStep(a, j)
  <2> DEFINE j == IF a = Cron THEN Idle ELSE [Idle EXCEPT !.kind = "done"]
  <2>1. j \in Job /\ j.kind \in {"idle", "done"} /\ j.step = "pass" /\ j.todo = {}
    BY <1>4 DEF Idle
  <2>2. JobStep(a, j)
    BY <1>1, <1>5, <2>1 DEF Quit, JobStep, Working
  <2> QED
    BY <2>1, <2>2
<1>6. ASSUME NEW a \in Requests, NEW id \in Ids, OpenConfirmation(a, id)
      PROVE  JobStep(a, [Idle EXCEPT !.kind = "asking", !.row = id])
  BY <1>1, <1>2, <1>4, <1>6 DEF OpenConfirmation, JobStep, Working, Idle
<1>7. ASSUME NEW a \in Requests, StartRevert(a)
      PROVE  \E j \in Job : JobStep(a, j)
  <2> DEFINE j == [Idle EXCEPT !.kind = "revert", !.row = job[a].row, !.todo = PassPlans]
  <2>1. job[a].row \in Ids /\ job[a].step # "refs"
    BY <1>1, <1>2, <1>7 DEF StartRevert
  <2>2. j \in Job /\ j.kind = "revert" /\ j.step = "pass" /\ j.todo = PassPlans /\ j.row \in Ids
    BY <1>3, <2>1 DEF Idle, Job
  <2>3. JobStep(a, j)
    BY <1>1, <1>7, <2>1, <2>2 DEF StartRevert, Begin, JobStep, Working
  <2> QED
    BY <2>2, <2>3
<1>8. ASSUME NEW a \in Requests, Lock(a)
      PROVE  JobStep(a, [job[a] EXCEPT !.step = "apply"])
  BY <1>1, <1>2, <1>8 DEF Lock, Goto, JobStep, Working, Job
<1>9. ASSUME NEW a \in Requests, Check(a) PROVE \E j \in Job : JobStep(a, j)
  <2>1. CASE Authorized(job[a].row) /\ NotYet(job[a].row)
    <3>1. job[a].row \in Ids /\ job[a].kind = "revert" /\ job[a].step = "check"
      BY <1>1, <1>2, <1>9 DEF Check, Working
    <3>2. job[a].row \notin marked \ reopened
      BY <2>1, <3>1 DEF IInv, MarksStay, Authorized, NotYet
    <3> DEFINE j == [job[a] EXCEPT !.step = "lock", !.fresh = "yes"]
    <3>3. job' = [job EXCEPT ![a] = j] /\ holder' = holder
      BY <1>1, <1>9, <2>1, <3>2 DEF Check
    <3>4. j \in Job /\ JobStep(a, j)
      BY <1>1, <3>1, <3>3 DEF JobStep, Working, Job
    <3> QED
      BY <3>4
  <2>2. CASE ~(Authorized(job[a].row) /\ NotYet(job[a].row))
    BY <1>1, <1>5, <1>9, <2>2 DEF Check
  <2> QED
    BY <2>1, <2>2
<1>10. ASSUME NEW a \in Requests, ApplyRefused(a) PROVE \E j \in Job : JobStep(a, j)
  BY <1>1, <1>5, <1>10 DEF ApplyRefused
<1>11. ASSUME NEW a \in Requests, PassAgain(a) PROVE \E j \in Job : JobStep(a, j)
  <2> DEFINE j == [job[a] EXCEPT !.step = "pass", !.tail = "yes", !.todo = PassPlans]
  <2>1. job[a] \in Job /\ job[a].kind = "revert" /\ job[a].step = "again" /\ job[a].row \in Ids
    BY <1>1, <1>2, <1>11 DEF PassAgain, Working
  <2>2. /\ j \in Job /\ j.kind = "revert" /\ j.step = "pass" /\ j.todo = PassPlans
        /\ j.row \in Ids
    BY <1>3, <2>1 DEF Job
  <2>3. JobStep(a, j)
    BY <1>1, <1>11, <2>1, <2>2 DEF PassAgain, JobStep, Working
  <2> QED
    BY <2>2, <2>3
<1>12. ASSUME NEW a \in Actors, PassEnds(a) PROVE \E j \in Job : JobStep(a, j)
  <2>1. job[a] \in Job /\ job[a].step = "pass" /\ job[a].kind \in {"revert", "cron"}
    BY <1>1, <1>12 DEF PassEnds
  <2>2. CASE Goto(a, "media") /\ UNCHANGED holder /\ job[a].kind = "cron"
    <3>1. [job[a] EXCEPT !.step = "media"] \in Job
      BY <2>1 DEF Job
    <3> QED
      BY <1>1, <1>2, <2>1, <2>2, <3>1 DEF Goto, JobStep, Working, Job
  <2>3. CASE Goto(a, "check") /\ UNCHANGED holder /\ job[a].kind = "revert"
    <3>1. [job[a] EXCEPT !.step = "check"] \in Job
      BY <2>1 DEF Job
    <3> QED
      BY <1>1, <1>2, <2>1, <2>3, <3>1 DEF Goto, JobStep, Working, Job
  <2>4. CASE Quit(a)
    BY <1>5, <2>1, <2>4
  <2> QED
    BY <1>12, <2>1, <2>2, <2>3, <2>4 DEF PassEnds
<1>13. ASSUME StartCron PROVE \E j \in Job : JobStep(Cron, j)
  <2> DEFINE j == [Idle EXCEPT !.kind = "cron", !.row = None, !.todo = PassPlans]
  <2>1. j \in Job /\ j.kind = "cron" /\ j.step = "pass" /\ j.todo = PassPlans
    BY <1>3 DEF Idle, Job
  <2>2. JobStep(Cron, j)
    BY <1>1, <1>2, <1>13, <2>1 DEF StartCron, Begin, JobStep, Working
  <2> QED
    BY <2>1, <2>2
<1>14. ASSUME Media PROVE \E j \in Job : JobStep(Cron, j)
  <2>1. CASE Quit(Cron)
    BY <1>1, <1>5, <1>14, <2>1 DEF Media
  <2>2. CASE ~Quit(Cron)
    <3> DEFINE j == [job[Cron] EXCEPT !.step = "dispose", !.tail = "yes",
                                      !.todo = DisposalPlans]
    <3>1. job' = [job EXCEPT ![Cron] = j] /\ holder' = holder /\ job[Cron].step = "media"
      BY <1>1, <1>14, <2>2 DEF Media
    <3>2. j \in Job /\ j.kind = "cron" /\ j.step = "dispose" /\ j.row = job[Cron].row
          /\ j.todo = DisposalPlans
      BY <1>1, <1>2, <1>3, <3>1 DEF Job
    <3>3. JobStep(Cron, j)
      BY <1>1, <1>2, <3>1, <3>2 DEF JobStep, Working
    <3> QED
      BY <3>2, <3>3
  <2> QED
    BY <2>1, <2>2
<1>15. UNCHANGED <<table, card, away, now, history, faults>>
  BY DEF JobMoves, OpenConfirmation, StartRevert, Lock, Check, ApplyRefused, PassAgain,
         PassEnds, StartCron, Media
<1> QED
  BY <1>1, <1>6, <1>7, <1>8, <1>9, <1>10, <1>11, <1>12, <1>13, <1>14, <1>15
     DEF JobMoves, JobStep

\* Of the entries that protect media one is the last to expire, the newest of these.
LEMMA LatestIsThere ==
    ASSUME TypeOK, NEW v \in Versions, {id \in Ids : Protects(id, v)} # {}
    PROVE  \E i \in {id \in Ids : Protects(id, v)} :
             \A j \in {id \in Ids : Protects(id, v)} : Later(i, j)
<1> DEFINE S == {id \in Ids : Protects(id, v)}
           last == MaxTime + RevertTTL
           T == {last - rows[i].expires : i \in S}
<1>1. last \in Nat /\ MaxRows \in Nat
  BY TimeAssumption DEF TimeAssumption
<1>2. \A i \in S : i \in Ids /\ rows[i].expires \in 0..last
  <2>1. ASSUME NEW i \in Ids, <<i, v>> \in refs PROVE rows[i] \in Entry
    BY <2>1, HereIsEntry DEF TypeOK, Holding
  <2>2. \A i \in S : rows[i] \in Entry /\ rows[i].expires # None
    BY <2>1 DEF Protects
  <2> QED
    BY <2>2 DEF Entry
<1> HIDE DEF S, last
<1>3. T \in SUBSET Nat /\ T # {}
  BY <1>1, <1>2 DEF S
<1> HIDE DEF T
<1>4. PICK t \in T : \A u \in T : t <= u
  BY <1>3, LeastOfNaturals
<1>5. PICK c \in S : t = last - rows[c].expires
  BY DEF T
<1>6. ASSUME NEW j \in S PROVE rows[j].expires <= rows[c].expires
  <2>1. last - rows[c].expires <= last - rows[j].expires
    BY <1>4, <1>5 DEF T
  <2>2. rows[j].expires \in Nat /\ rows[c].expires \in Nat
    BY <1>1, <1>2
  <2> QED
    BY <1>1, <2>1, <2>2
<1> DEFINE U == {MaxRows - i : i \in {k \in S : rows[k].expires = rows[c].expires}}
<1>7. U \in SUBSET Nat /\ U # {}
  BY <1>1, <1>2 DEF Ids
<1> HIDE DEF U
<1>8. PICK u \in U : \A n \in U : u <= n
  BY <1>7, LeastOfNaturals
<1>9. PICK i \in S : rows[i].expires = rows[c].expires /\ u = MaxRows - i
  BY DEF U
<1>10. ASSUME NEW j \in S PROVE Later(i, j)
  <2>1. rows[j].expires \in Nat /\ rows[i].expires \in Nat /\ i \in Nat /\ j \in Nat
    BY <1>1, <1>2 DEF Ids
  <2>2. CASE rows[j].expires = rows[i].expires
    <3>1. MaxRows - i <= MaxRows - j
      BY <1>8, <1>9, <2>2 DEF U
    <3> QED
      BY <1>1, <2>1, <2>2, <3>1 DEF Later
  <2>3. CASE rows[j].expires # rows[i].expires
    BY <1>6, <1>9, <2>1, <2>3 DEF Later
  <2> QED
    BY <2>2, <2>3
<1> QED
  BY <1>10 DEF S

\* What Quarantine marks as available is an entry that can be reverted.
LEMMA QuarantineMarks ==
    ASSUME IInv, NEW v \in Versions, Quarantine(v)
    PROVE  /\ rows' \in [Ids -> Entry \cup {Absent}]
           /\ \A id \in Ids : Here(id) <=> Here(id)'
           /\ reopened' \subseteq marked /\ reopened \subseteq reopened'
           /\ \A id \in Ids :
                \/ rows'[id] = rows[id]
                \/ /\ Here(id) /\ rows'[id] = [rows[id] EXCEPT !.status = "available"]
                   /\ rows[id].status = "reverted" => id \in reopened'
<1> DEFINE S == {id \in Ids : Protects(id, v)}
<1>1. /\ rows \in [Ids -> Entry \cup {Absent}] /\ reopened \subseteq marked
      /\ \A id \in Ids : Here(id) /\ rows[id].status = "reverted" => id \in marked
      /\ \A e \in Entry : e.action # "none"
      /\ TypeOK
  BY DEF IInv, TypeOK, MarksStay, Entry
<1>2. \A id \in S : Here(id) /\ rows[id] \in Entry
  <2>1. ASSUME NEW id \in Ids, <<id, v>> \in refs PROVE Here(id) /\ rows[id] \in Entry
    BY <1>1, <2>1, HereIsEntry DEF TypeOK, Holding
  <2> QED
    BY <2>1 DEF Protects
<1>3. CASE S = {}
  BY <1>1, <1>3 DEF Quarantine, Here
<1>4. CASE S # {}
  <2> DEFINE i == CHOOSE i \in S : \A j \in S : Later(i, j)
  <2>1. \E k \in S : \A j \in S : Later(k, j)
    BY <1>1, <1>4, LatestIsThere
  <2>2. i \in S
    BY <2>1
  <2>3. rows' = [rows EXCEPT ![i].status = "available"] /\ Overwrites(i, "available")
    BY <1>4 DEF Quarantine
  <2> HIDE DEF i
  <2>4. i \in Ids /\ Here(i) /\ rows[i] \in Entry
    BY <1>2, <2>2
  <2> HIDE DEF S
  <2>5. [rows[i] EXCEPT !.status = "available"] \in Entry
    BY <2>4 DEF Entry, Statuses
  <2>6. rows' = [rows EXCEPT ![i] = [rows[i] EXCEPT !.status = "available"]]
    BY <1>1, <2>3, <2>4
  <2>7. /\ reopened' = IF rows[i].status = "reverted" THEN reopened \cup {i} ELSE reopened
    BY <2>3 DEF Overwrites, Revertible
  <2> QED
    BY <1>1, <2>4, <2>5, <2>6, <2>7 DEF Here
<1> QED
  BY <1>3, <1>4

-----------------------------------------------------------------------------
(* The conjuncts of the invariant.                                         *)

\* A new entry.
LEMMA NewEntryTypes ==
    ASSUME IInv, NEW action \in {"sword", "revert", "user"},
           NEW before \in Versions \cup {None}, NEW after \in Versions \cup {None},
           NewEntry(action, before, after), used < MaxRows
    PROVE  /\ rows' \in [Ids -> Entry \cup {Absent}]
           /\ used + 1 \in Ids /\ ~Here(used + 1) /\ used' = used + 1
           /\ rows'[used + 1].expires = None /\ rows'[used + 1].status = "not_applicable"
           /\ \A id \in Ids \ {used + 1} : rows'[id] = rows[id]
           /\ \A id \in Ids : Here(id)' <=> Here(id) \/ id = used + 1
<1> DEFINE r == [action |-> action, created |-> now, before |-> before,
                 after |-> after, expires |-> None, status |-> "not_applicable"]
<1>1. /\ rows \in [Ids -> Entry \cup {Absent}] /\ used \in Nat /\ MaxRows \in Nat
      /\ now \in 0..MaxTime
      /\ \A id \in Ids : Here(id) => id <= used
  BY TimeAssumption DEF IInv, TypeOK, IdsAreUsed, TimeAssumption
<1>2. used + 1 \in Ids /\ ~Here(used + 1)
  BY <1>1 DEF Ids
<1>3. r \in Entry /\ rows' = [rows EXCEPT ![used + 1] = r]
  BY <1>1 DEF NewEntry, Entry, Statuses
<1> HIDE DEF r
<1>4. rows'[used + 1] = r /\ \A id \in Ids \ {used + 1} : rows'[id] = rows[id]
  BY <1>1, <1>2, <1>3
<1>5. r.action # "none" /\ r.expires = None /\ r.status = "not_applicable"
  BY DEF r
<1>6. used' = used + 1
  BY DEF NewEntry
<1> QED
  BY <1>1, <1>2, <1>3, <1>4, <1>5, <1>6 DEF Here

\* Each step keeps the types of the variables.
LEMMA TypeCorrect == IInv /\ [Next]_vars => TypeOK'
<1> SUFFICES ASSUME IInv, [Next]_vars PROVE TypeOK'
  OBVIOUS
<1> USE DEF table, history
<1>1. /\ TypeOK
      /\ job \in [Actors -> Job] /\ rows \in [Ids -> Entry \cup {Absent}]
      /\ refs \subseteq Ids \X Versions
      /\ \A id \in Ids : Holding(id) # {} => Here(id)
      /\ Cron \in Actors /\ Requests \subseteq Actors
      /\ Ids \subseteq Nat /\ Absent.action = "none"
      /\ \A r \in Entry : r.action # "none"
  <2>1. TypeOK
    BY DEF IInv
  <2>2. \A r \in Entry : r.action # "none"
    BY DEF Entry
  <2>3. Cron \in Actors /\ Requests \subseteq Actors /\ Ids \subseteq Nat /\ Absent.action = "none"
    BY TimeAssumption DEF Actors, Ids, Absent, TimeAssumption
  <2> QED
    BY <2>1, <2>2, <2>3 DEF TypeOK
<1>2. ASSUME NEW a \in Actors, job[a].todo # {} PROVE Current(a) \in job[a].todo /\ Current(a) \in Plan
  BY <1>1, <1>2, CurrentIsPlanned DEF Job
<1>3. ASSUME NEW a \in Actors, NEW step \in {"pass", "refs", "again", "mark"}
      PROVE  /\ [job EXCEPT ![a].step = step] \in [Actors -> Job]
             /\ [job EXCEPT ![a].todo = Rest(a)] \in [Actors -> Job]
             /\ [job EXCEPT ![a].step = "pass", ![a].todo = Rest(a)] \in [Actors -> Job]
  <2>1. job[a] \in Job /\ Rest(a) \subseteq job[a].todo
    BY <1>1 DEF Rest
  <2>2. /\ [job[a] EXCEPT !.step = step] \in Job
        /\ [job[a] EXCEPT !.todo = Rest(a)] \in Job
        /\ [job[a] EXCEPT !.step = "pass", !.todo = Rest(a)] \in Job
    BY <2>1 DEF Job
  <2>3. /\ [job EXCEPT ![a].step = step] = [job EXCEPT ![a] = [job[a] EXCEPT !.step = step]]
        /\ [job EXCEPT ![a].todo = Rest(a)] = [job EXCEPT ![a] = [job[a] EXCEPT !.todo = Rest(a)]]
        /\ [job EXCEPT ![a].step = "pass", ![a].todo = Rest(a)]
             = [job EXCEPT ![a] = [job[a] EXCEPT !.step = "pass", !.todo = Rest(a)]]
    BY <1>1
  <2> QED
    BY <1>1, <2>2, <2>3
<1>4. ASSUME NEW a \in Actors, Quit(a)
      PROVE  job' \in [Actors -> Job] /\ holder' \in Actors \cup {None}
  BY <1>1, <1>4 DEF Quit, Idle, Job, TypeOK
<1>5. ASSUME NEW ids \in SUBSET Ids, Delete(ids)
      PROVE  /\ rows' \in [Ids -> Entry \cup {Absent}] /\ refs' \subseteq Ids \X Versions
             /\ \A id \in Ids : Holding(id)' # {} => Here(id)'
  BY <1>1, <1>5 DEF Delete, Holding, Here
<1>6. ASSUME NEW a \in Actors, PassDelete(a) PROVE TypeOK'
  <2>1. Current(a).id \in Ids
    BY <1>2, <1>6 DEF PassDelete, Plan
  <2>2. Delete({Current(a).id}) /\ job' = [job EXCEPT ![a].todo = Rest(a)]
        /\ UNCHANGED <<used, card, away, now, holder, marked, reopened, cut, faults>>
    BY <1>6 DEF PassDelete
  <2>3. job' \in [Actors -> Job]
    BY <1>3, <2>2
  <2> QED
    BY <1>1, <1>5, <2>1, <2>2, <2>3 DEF TypeOK
<1>7. ASSUME NEW a \in Actors, PassDispose(a) PROVE TypeOK'
  <2> DEFINE p == Current(a)
  <2>1. p \in Plan
    BY <1>2, <1>7 DEF PassDispose
  <2> HIDE DEF p
  <2>2. /\ rows' = IF Here(p.id) THEN [rows EXCEPT ![p.id] = Disposed(p)] ELSE rows
        /\ refs' = {x \in refs : x[1] # p.id}
        /\ job' = [job EXCEPT ![a].todo = Rest(a)]
        /\ UNCHANGED <<used, card, away, now, holder, marked, reopened, cut, faults>>
    BY <1>7 DEF PassDispose, p
  <2>3. p.id \in Ids /\ (Here(p.id) => Disposed(p) \in Entry)
    <3>1. ASSUME Here(p.id) PROVE Disposed(p) \in Entry
      <4>1. rows[p.id] \in Entry
        BY <1>1, <2>1, <3>1, HereIsEntry DEF Plan
      <4> QED
        BY <2>1, <4>1 DEF Disposed, Entry, Plan
    <3> QED
      BY <2>1, <3>1 DEF Plan
  <2>4. rows' \in [Ids -> Entry \cup {Absent}] /\ \A id \in Ids : Here(id) <=> Here(id)'
    <3>1. \A e \in Entry : e.action # "none"
      BY <1>1
    <3> QED
      BY <1>1, <2>2, <2>3, <3>1 DEF Here
  <2>5. refs' \subseteq Ids \X Versions /\ \A id \in Ids : Holding(id)' \subseteq Holding(id)
    BY <1>1, <2>2 DEF Holding
  <2>6. job' \in [Actors -> Job]
    BY <1>3, <2>2
  <2> QED
    BY <1>1, <2>2, <2>4, <2>5, <2>6 DEF TypeOK
<1>8. ASSUME NEW a \in Actors, PassActivate(a) PROVE TypeOK'
  <2> DEFINE p == Current(a)
  <2>1. p \in Plan /\ p \in job[a].todo /\ p.op = "activate"
    BY <1>2, <1>8 DEF PassActivate
  <2> HIDE DEF p
  <2>2. /\ rows' = IF Here(p.id) THEN [rows EXCEPT ![p.id].expires = p.expires,
                                                   ![p.id].status = p.status]
                   ELSE rows
        /\ IF Here(p.id) THEN Overwrites(p.id, p.status) ELSE reopened' = reopened
        /\ job' = [job EXCEPT ![a].step = "refs"]
        /\ UNCHANGED <<refs, used, card, away, now, holder, marked, cut, faults>>
    BY <1>8 DEF PassActivate, Goto, p
  <2>3. p.id \in Ids
    BY <2>1 DEF Plan
  <2>4. rows' \in [Ids -> Entry \cup {Absent}] /\ \A id \in Ids : Here(id) <=> Here(id)'
    <3>1. ASSUME Here(p.id)
          PROVE  /\ rows'[p.id] = [rows[p.id] EXCEPT !.expires = p.expires, !.status = p.status]
                 /\ rows'[p.id] \in Entry
                 /\ \A id \in Ids \ {p.id} : rows'[id] = rows[id]
                 /\ rows' \in [Ids -> Entry \cup {Absent}]
      <4>1. rows[p.id] \in Entry
        BY <1>1, <2>3, <3>1, HereIsEntry
      <4>2. [rows[p.id] EXCEPT !.expires = p.expires, !.status = p.status] \in Entry
        BY <2>1, <4>1 DEF Entry, Plan
      <4>3. rows' = [rows EXCEPT ![p.id] = [rows[p.id] EXCEPT !.expires = p.expires, !.status = p.status]]
        BY <1>1, <2>2, <2>3, <3>1
      <4> QED
        BY <1>1, <2>3, <4>2, <4>3
    <3>2. \A e \in Entry : e.action # "none"
      BY <1>1
    <3> QED
      BY <1>1, <2>2, <2>3, <3>1, <3>2 DEF Here
  <2>5. reopened' \subseteq marked
    BY <1>1, <2>2, <2>3 DEF Overwrites, IInv, MarksStay, TypeOK
  <2>6. job' \in [Actors -> Job]
    BY <1>3, <2>2
  <2> QED
    BY <1>1, <2>2, <2>4, <2>5, <2>6 DEF TypeOK, Holding
<1>9. ASSUME NEW a \in Actors, PassRefs(a) PROVE TypeOK'
  <2> DEFINE p == Current(a)
  <2>1. p \in Plan
    BY <1>2, <1>9 DEF PassRefs, IInv, StepsFollow
  <2> HIDE DEF p
  <2>2. CASE Here(p.id) \/ p.media = {}
    <3>1. /\ refs' = {x \in refs : x[1] # p.id} \cup ({p.id} \X p.media)
          /\ job' = [job EXCEPT ![a].step = "pass", ![a].todo = Rest(a)]
          /\ UNCHANGED <<rows, used, card, away, now, holder, marked, reopened, cut, faults>>
      BY <1>9, <2>2 DEF PassRefs, p
    <3>2. p.id \in Ids /\ p.media \subseteq Versions
      BY <2>1 DEF Plan
    <3>3. refs' \subseteq Ids \X Versions
      BY <1>1, <3>1, <3>2
    <3>4. \A id \in Ids : Holding(id)' # {} => Here(id)
      BY <1>1, <2>2, <3>1 DEF Holding
    <3>5. job' \in [Actors -> Job]
      BY <1>3, <3>1
    <3> QED
      BY <1>1, <3>1, <3>3, <3>4, <3>5 DEF TypeOK, Here
  <2>3. CASE ~(Here(p.id) \/ p.media = {})
    <3>1. Quit(a) /\ UNCHANGED <<rows, refs, used, card, away, now, marked, reopened, cut, faults>>
      BY <1>9, <2>3 DEF PassRefs, p
    <3> QED
      BY <1>1, <1>4, <3>1 DEF TypeOK, Holding, Here
  <2> QED
    BY <2>2, <2>3
<1>10. ASSUME NEW a \in Actors, Die(a) PROVE TypeOK'
  <2>1. job' \in [Actors -> Job] /\ holder' \in Actors \cup {None}
    BY <1>4, <1>10 DEF Die
  <2>2. cut' \subseteq Ids
    BY <1>1, <1>2, <1>10 DEF Die, IInv, StepsFollow, TypeOK, Plan
  <2>3. faults' \in 0..MaxFaults
    BY <1>1, <1>10, TimeAssumption DEF Die, TypeOK, TimeAssumption
  <2> QED
    BY <1>1, <1>10, <2>1, <2>2, <2>3 DEF Die, TypeOK, Holding, Here
<1>11. ASSUME NEW action \in {"sword", "revert", "user"},
              NEW before \in Versions \cup {None}, NEW after \in Versions \cup {None},
              NewEntry(action, before, after), used < MaxRows
       PROVE  /\ rows' \in [Ids -> Entry \cup {Absent}] /\ used' \in 0..MaxRows
              /\ \A id \in Ids : Holding(id)' # {} => Here(id)'
              /\ UNCHANGED refs
  <2>1. rows' \in [Ids -> Entry \cup {Absent}] /\ used' = used + 1
        /\ \A id \in Ids : Here(id) => Here(id)'
    BY <1>11, NewEntryTypes
  <2>2. used \in 0..MaxRows /\ MaxRows \in Nat
    BY <1>1, TimeAssumption DEF TypeOK, TimeAssumption
  <2>3. UNCHANGED refs
    BY <1>11 DEF NewEntry
  <2>4. \A id \in Ids : Holding(id)' = Holding(id)
    BY <2>3 DEF Holding
  <2>5. used' \in 0..MaxRows
    BY <1>11, <2>1, <2>2
  <2> QED
    BY <1>1, <2>1, <2>3, <2>4, <2>5
<1>12. ASSUME NEW a \in Requests, Apply(a) PROVE TypeOK'
  <2>1. a \in Actors /\ used < MaxRows /\ job[a].row \in Ids /\ rows[job[a].row] \in Entry
    BY <1>1, <1>12, HereIsEntry DEF Apply, Applies, IInv, StepsFollow, Working
  <2>2. rows[job[a].row].before \in Versions /\ card \in Versions
    BY <1>1, <1>12, <2>1 DEF Apply, Applies, Entry, TypeOK
  <2>3. card' \in Versions
    BY <1>12, <2>2 DEF Apply, Restored
  <2>4. NewEntry("revert", IF card = 0 THEN None ELSE card, card')
    BY <1>12 DEF Apply
  <2>5. /\ rows' \in [Ids -> Entry \cup {Absent}] /\ used' \in 0..MaxRows
        /\ \A id \in Ids : Holding(id)' # {} => Here(id)'
        /\ UNCHANGED refs
    BY <1>11, <2>1, <2>2, <2>3, <2>4
  <2>6. job' \in [Actors -> Job]
    BY <1>3, <1>12, <2>1 DEF Apply, Goto
  <2>7. away' \subseteq Versions /\ UNCHANGED <<now, holder, marked, reopened, cut, faults>>
    BY <1>1, <1>12 DEF Apply, TypeOK
  <2> QED
    BY <1>1, <2>3, <2>5, <2>6, <2>7 DEF TypeOK
<1>13. ASSUME NEW a \in Requests, MarkReverted(a) PROVE TypeOK'
  <2>1. a \in Actors /\ job[a].row \in Ids
    BY <1>1, <1>13 DEF MarkReverted, IInv, StepsFollow, Working
  <2>2. Mark(job[a].row) \in [Ids -> Entry \cup {Absent}]
        /\ \A id \in Ids : Mark(job[a].row)[id].action = rows[id].action
    <3>1. CASE Here(job[a].row)
      <4>1. rows[job[a].row] \in Entry
        BY <1>1, <2>1, <3>1, HereIsEntry
      <4>2. [rows[job[a].row] EXCEPT !.status = "reverted"] \in Entry
        BY <4>1 DEF Entry, Statuses
      <4>3. Mark(job[a].row) = [rows EXCEPT ![job[a].row] =
                                  [rows[job[a].row] EXCEPT !.status = "reverted"]]
        BY <1>1, <2>1, <3>1 DEF Mark
      <4>4. [rows[job[a].row] EXCEPT !.status = "reverted"].action = rows[job[a].row].action
        BY <4>1 DEF Entry
      <4> QED
        BY <1>1, <2>1, <4>2, <4>3, <4>4
    <3>2. CASE ~Here(job[a].row)
      BY <1>1, <3>2 DEF Mark
    <3> QED
      BY <3>1, <3>2
  <2>3. marked' \subseteq Ids /\ reopened' \subseteq marked'
    BY <1>1, <1>13, <2>1 DEF MarkReverted, TypeOK
  <2>4. job' \in [Actors -> Job]
    BY <1>3, <1>13, <2>1 DEF MarkReverted, Goto
  <2>5. rows' = Mark(job[a].row) /\ UNCHANGED <<refs, used, card, away, now, holder, cut, faults>>
    BY <1>13 DEF MarkReverted
  <2> QED
    BY <1>1, <2>2, <2>3, <2>4, <2>5 DEF TypeOK, Holding, Here
<1>14. ASSUME DeleteOld PROVE TypeOK'
  <2>1. PICK ids \in SUBSET Ids : Delete(ids)
    BY <1>14 DEF DeleteOld, FirstOf
  <2>2. Quit(Cron) /\ UNCHANGED <<used, card, away, now, marked, reopened, cut, faults>>
    BY <1>14 DEF DeleteOld
  <2> QED
    BY <1>1, <1>4, <1>5, <2>1, <2>2 DEF TypeOK
<1>15. ASSUME NEW v \in Versions, Edit(v) PROVE TypeOK'
  <2>1. used < MaxRows /\ card \in Versions /\ v \in Versions
    BY <1>1, <1>15, TimeAssumption DEF Edit, TypeOK, TimeAssumption
  <2>2. NewEntry("sword", IF card = 0 THEN None ELSE card, IF v = 0 THEN None ELSE v)
        /\ card' = v /\ UNCHANGED <<away, now, holder, job, marked, reopened, cut, faults>>
    BY <1>15 DEF Edit
  <2>3. /\ rows' \in [Ids -> Entry \cup {Absent}] /\ used' \in 0..MaxRows
        /\ \A id \in Ids : Holding(id)' # {} => Here(id)'
        /\ UNCHANGED refs
    BY <1>11, <2>1, <2>2
  <2> QED
    BY <1>1, <2>1, <2>2, <2>3 DEF TypeOK
<1>16. ASSUME LogOther PROVE TypeOK'
  <2>1. used < MaxRows /\ 0 \in Versions
    BY <1>1, <1>16, TimeAssumption DEF LogOther, TypeOK, TimeAssumption, Versions, Older
  <2>2. NewEntry("user", 0, 0)
        /\ UNCHANGED <<card, away, now, holder, job, marked, reopened, cut, faults>>
    BY <1>16 DEF LogOther
  <2>3. /\ rows' \in [Ids -> Entry \cup {Absent}] /\ used' \in 0..MaxRows
        /\ \A id \in Ids : Holding(id)' # {} => Here(id)'
        /\ UNCHANGED refs
    BY <1>11, <2>1, <2>2
  <2> QED
    BY <1>1, <2>2, <2>3 DEF TypeOK
<1>17. ASSUME NEW v \in Versions, Quarantine(v) PROVE TypeOK'
  <2>1. /\ away' = away \cup {v}
        /\ UNCHANGED <<refs, used, card, now, holder, job, marked, cut, faults>>
    BY <1>17 DEF Quarantine
  <2>2. /\ rows' \in [Ids -> Entry \cup {Absent}]
        /\ \A id \in Ids : Here(id) <=> Here(id)'
        /\ reopened' \subseteq marked
    BY <1>17, QuarantineMarks
  <2> QED
    BY <1>1, <2>1, <2>2 DEF TypeOK, Holding
<1>18. ASSUME JobMoves PROVE TypeOK'
  <2>1. PICK a \in Actors, j \in Job : JobStep(a, j)
    BY <1>18, JobSteps
  <2>2. UNCHANGED <<table, card, away, now, history, faults>>
    BY <1>18, JobSteps
  <2>3. job' \in [Actors -> Job] /\ holder' \in Actors \cup {None}
    BY <1>1, <2>1 DEF JobStep, TypeOK
  <2> QED
    BY <1>1, <2>2, <2>3 DEF TypeOK, Holding, Here
<1>19. ASSUME Tick PROVE TypeOK'
  <2>1. now' \in 0..MaxTime
    BY <1>1, <1>19, TimeAssumption DEF Tick, TypeOK, TimeAssumption
  <2> QED
    BY <1>1, <1>19, <2>1 DEF Tick, TypeOK, Holding, Here
<1>20. ASSUME UNCHANGED vars PROVE TypeOK'
  BY <1>1, <1>20 DEF vars, TypeOK, Holding, Here
<1> QED
  BY <1>6, <1>7, <1>8, <1>9, <1>10, <1>12, <1>13, <1>14, <1>15, <1>16, <1>17, <1>18,
     <1>19, <1>20, StepCases

\* What a step makes of entries: new ones have no time yet at which their revert
\* ends, the others keep when they were made, and their snapshots stay or go.
LEMMA EntriesGoOn ==
    ASSUME IInv, [Next]_vars
    PROVE  /\ used \in Nat /\ used' \in Nat /\ used <= used'
           /\ marked \subseteq marked' /\ \A id \in marked' \ marked : id \in Ids /\ Here(id)
           /\ \A id \in Ids : Here(id)' =>
                \/ /\ Here(id) /\ rows'[id].created = rows[id].created
                   /\ rows'[id].before # None => /\ rows'[id].before = rows[id].before
                                                 /\ rows'[id].after = rows[id].after
                \/ /\ ~Here(id) /\ id = used + 1 /\ used' = used + 1
                   /\ rows'[id].expires = None /\ rows'[id].status = "not_applicable"
<1> USE DEF table, history
<1>1. /\ TypeOK /\ job \in [Actors -> Job] /\ rows \in [Ids -> Entry \cup {Absent}]
      /\ used \in Nat /\ Requests \subseteq Actors /\ Absent.action = "none"
  BY TimeAssumption DEF IInv, TypeOK, Actors, Absent, TimeAssumption
<1>2. \A a \in Actors : job[a].todo # {} => Current(a) \in Plan /\ Current(a).id \in Ids
  BY <1>1, CurrentIsPlanned DEF Job, Plan
<1>3. CASE UNCHANGED <<rows, used, marked>>
  BY <1>1, <1>3 DEF Here
<1>4. ASSUME NEW ids \in SUBSET Ids, Delete(ids), UNCHANGED <<used, marked>>
      PROVE  \A id \in Ids : Here(id)' => Here(id) /\ rows'[id] = rows[id]
  BY <1>1, <1>4 DEF Delete, Here
<1>5. ASSUME NEW a \in Actors, PassDelete(a)
      PROVE  /\ \A id \in Ids : Here(id)' => Here(id) /\ rows'[id] = rows[id]
             /\ UNCHANGED <<used, marked>>
  BY <1>2, <1>4, <1>5 DEF PassDelete
<1>6. ASSUME NEW a \in Actors, PassDispose(a)
      PROVE  /\ \A id \in Ids : Here(id)' =>
                  /\ Here(id) /\ rows'[id].created = rows[id].created
                  /\ rows'[id] = rows[id] \/ rows'[id].before = None
             /\ UNCHANGED <<used, marked>>
  <2> DEFINE p == Current(a)
  <2>1. p \in Plan /\ p.id \in Ids
    BY <1>2, <1>6 DEF PassDispose
  <2> HIDE DEF p
  <2>2. /\ rows' = IF Here(p.id) THEN [rows EXCEPT ![p.id] = Disposed(p)] ELSE rows
        /\ UNCHANGED <<used, marked>>
    BY <1>6 DEF PassDispose, p
  <2>3. ASSUME Here(p.id)
        PROVE  Disposed(p).created = rows[p.id].created /\ Disposed(p).before = None
    <3>1. rows[p.id] \in Entry
      BY <1>1, <2>1, <2>3, HereIsEntry
    <3> QED
      BY <3>1 DEF Disposed, Entry
  <2> QED
    BY <1>1, <2>1, <2>2, <2>3 DEF Here
<1>7. ASSUME NEW a \in Actors, PassActivate(a)
      PROVE  /\ \A id \in Ids : Here(id)' =>
                  /\ Here(id) /\ rows'[id].created = rows[id].created
                  /\ rows'[id].before = rows[id].before /\ rows'[id].after = rows[id].after
             /\ UNCHANGED <<used, marked>>
  <2> DEFINE p == Current(a)
  <2>1. p.id \in Ids
    BY <1>2, <1>7 DEF PassActivate
  <2> HIDE DEF p
  <2>2. /\ rows' = IF Here(p.id) THEN [rows EXCEPT ![p.id].expires = p.expires,
                                                   ![p.id].status = p.status]
                   ELSE rows
        /\ UNCHANGED <<used, marked>>
    BY <1>7 DEF PassActivate, p
  <2>3. CASE Here(p.id)
    <3>1. rows[p.id] \in Entry
      BY <1>1, <2>1, <2>3, HereIsEntry
    <3>2. rows' = [rows EXCEPT ![p.id] = [rows[p.id] EXCEPT !.expires = p.expires, !.status = p.status]]
      BY <1>1, <2>1, <2>2, <2>3
    <3>3. \A id \in Ids \ {p.id} : rows'[id] = rows[id]
      BY <1>1, <3>2
    <3>4. /\ rows'[p.id].created = rows[p.id].created /\ rows'[p.id].before = rows[p.id].before
          /\ rows'[p.id].after = rows[p.id].after
      BY <1>1, <2>1, <3>1, <3>2 DEF Entry
    <3> QED
      BY <2>2, <2>3, <3>3, <3>4 DEF Here
  <2> QED
    BY <2>2, <2>3 DEF Here
<1>8. ASSUME NEW action \in {"sword", "revert", "user"},
             NEW before \in Versions \cup {None}, NEW after \in Versions \cup {None},
             NewEntry(action, before, after), used < MaxRows
      PROVE  /\ used' = used + 1
             /\ \A id \in Ids : Here(id)' =>
                  \/ Here(id) /\ rows'[id] = rows[id]
                  \/ /\ ~Here(id) /\ id = used + 1
                     /\ rows'[id].expires = None /\ rows'[id].status = "not_applicable"
  BY <1>8, NewEntryTypes
<1>9. ASSUME NEW a \in Requests, Apply(a)
      PROVE  \E before, after \in Versions \cup {None} :
               NewEntry("revert", before, after) /\ used < MaxRows
  <2>1. a \in Actors /\ used < MaxRows /\ card \in Versions /\ job[a].row \in Ids
    BY <1>1, <1>9 DEF Apply, Applies, IInv, StepsFollow, Working, TypeOK
  <2>2. rows[job[a].row] \in Entry /\ rows[job[a].row].before # None
    BY <1>1, <1>9, <2>1, HereIsEntry DEF Apply, Applies
  <2>3. card' \in Versions
    BY <1>9, <2>1, <2>2 DEF Apply, Restored, Entry
  <2> QED
    BY <1>9, <2>1, <2>3 DEF Apply
<1>10. ASSUME NEW v \in Versions, Edit(v)
       PROVE  \E before, after \in Versions \cup {None} :
                NewEntry("sword", before, after) /\ used < MaxRows
  BY <1>1, <1>10, TimeAssumption DEF Edit, TypeOK, TimeAssumption
<1>11. ASSUME LogOther
       PROVE  NewEntry("user", 0, 0) /\ used < MaxRows /\ 0 \in Versions
  BY <1>1, <1>11, TimeAssumption DEF LogOther, TypeOK, TimeAssumption, Versions, Older
<1>12. ASSUME NEW a \in Requests, MarkReverted(a)
       PROVE  /\ \A id \in Ids : Here(id)' =>
                   /\ Here(id) /\ rows'[id].created = rows[id].created
                   /\ rows'[id].before = rows[id].before /\ rows'[id].after = rows[id].after
              /\ used' = used /\ marked \subseteq marked'
              /\ \A id \in marked' \ marked : id \in Ids /\ Here(id)
  <2>1. job[a].row \in Ids
    BY <1>1, <1>12 DEF MarkReverted, IInv, StepsFollow, Working
  <2>2. CASE Here(job[a].row)
    <3>1. rows[job[a].row] \in Entry
      BY <1>1, <2>1, <2>2, HereIsEntry
    <3>2. rows' = [rows EXCEPT ![job[a].row] = [rows[job[a].row] EXCEPT !.status = "reverted"]]
      BY <1>1, <1>12, <2>1, <2>2 DEF MarkReverted, Mark
    <3> QED
      BY <1>1, <1>12, <2>1, <2>2, <3>1, <3>2 DEF MarkReverted, Here, Entry
  <2>3. CASE ~Here(job[a].row)
    BY <1>12, <2>3 DEF MarkReverted, Mark, Here
  <2> QED
    BY <2>2, <2>3
<1>13. ASSUME DeleteOld
       PROVE  /\ \A id \in Ids : Here(id)' => Here(id) /\ rows'[id] = rows[id]
              /\ UNCHANGED <<used, marked>>
  <2>1. PICK ids \in SUBSET Ids : Delete(ids)
    BY <1>13 DEF DeleteOld, FirstOf
  <2> QED
    BY <1>4, <1>13, <2>1 DEF DeleteOld
<1>14. ASSUME NEW v \in Versions, Quarantine(v)
       PROVE  /\ \A id \in Ids : Here(id)' =>
                   /\ Here(id) /\ rows'[id].created = rows[id].created
                   /\ rows'[id].before = rows[id].before /\ rows'[id].after = rows[id].after
              /\ UNCHANGED <<used, marked>>
  <2>1. ASSUME NEW id \in Ids, Here(id)'
        PROVE  /\ Here(id) /\ rows'[id].created = rows[id].created
               /\ rows'[id].before = rows[id].before /\ rows'[id].after = rows[id].after
    <3>1. Here(id) /\ rows[id] \in Entry
      BY <1>1, <1>14, <2>1, QuarantineMarks, HereIsEntry
    <3>2. rows'[id] = rows[id] \/ rows'[id] = [rows[id] EXCEPT !.status = "available"]
      BY <1>14, QuarantineMarks
    <3> QED
      BY <3>1, <3>2 DEF Entry
  <2> QED
    BY <1>14, <2>1 DEF Quarantine
<1>15. CASE JobMoves \/ Tick \/ UNCHANGED vars
  <2>1. UNCHANGED <<rows, used, marked>>
    BY <1>15, JobSteps DEF Tick, vars
  <2> QED
    BY <1>3, <2>1
<1>16. ASSUME NEW a \in Actors, PassRefs(a) \/ Die(a) PROVE UNCHANGED <<rows, used, marked>>
  BY <1>16 DEF PassRefs, Die
<1>17. CASE \E a \in Actors : PassRefs(a) \/ Die(a)
  BY <1>3, <1>16, <1>17
<1>18. CASE \/ \E a \in Actors : PassDelete(a) \/ PassDispose(a) \/ PassActivate(a)
            \/ DeleteOld \/ \E v \in Versions : Quarantine(v)
  BY <1>1, <1>5, <1>6, <1>7, <1>13, <1>14, <1>18
<1>19. CASE \/ \E a \in Requests : Apply(a)
            \/ LogOther \/ \E v \in Versions : Edit(v)
  <2>1. PICK action \in {"sword", "revert", "user"},
             before \in Versions \cup {None}, after \in Versions \cup {None} :
               NewEntry(action, before, after) /\ used < MaxRows
    BY <1>9, <1>10, <1>11, <1>19
  <2>2. marked' = marked
    BY <1>19 DEF Apply, LogOther, Edit
  <2> QED
    BY <1>1, <1>8, <2>1, <2>2
<1>20. CASE \E a \in Requests : MarkReverted(a)
  BY <1>1, <1>12, <1>20
<1> QED
  BY <1>15, <1>17, <1>18, <1>19, <1>20, StepCases

\* No step uses an id again.
LEMMA IdsStayUsed == IInv /\ [Next]_vars => IdsAreUsed'
<1> SUFFICES ASSUME IInv, [Next]_vars PROVE IdsAreUsed'
  OBVIOUS
<1>1. IdsAreUsed /\ TypeOK /\ Ids \subseteq Nat /\ marked \subseteq Ids
  <2>1. Ids \subseteq Nat
    BY TimeAssumption DEF Ids, TimeAssumption
  <2>2. IdsAreUsed /\ TypeOK
    BY DEF IInv
  <2> QED
    BY <2>1, <2>2 DEF TypeOK
<1>2. ASSUME NEW id \in Ids, Here(id)' PROVE id <= used'
  BY <1>1, <1>2, EntriesGoOn DEF IdsAreUsed
<1>3. ASSUME NEW id \in marked' PROVE id <= used'
  <2>1. id \in Nat /\ id <= used
    BY <1>1, <1>3, EntriesGoOn DEF IdsAreUsed
  <2> QED
    BY <2>1, EntriesGoOn
<1> QED
  BY <1>2, <1>3 DEF IdsAreUsed

\* What of a plan is true stays true.
LEMMA PlanStays ==
    ASSUME IInv, [Next]_vars, NEW p \in Plan, PlanHolds(p)
    PROVE  PlanHolds(p)'
<1>1. p.id \in Ids /\ Ids \subseteq Nat
  <2>1. Ids \subseteq Nat
    BY TimeAssumption DEF Ids, TimeAssumption
  <2> QED
    BY <2>1 DEF Plan
<1>2. p.id <= used'
  <2>1. used \in Nat /\ used' \in Nat /\ used <= used'
    BY EntriesGoOn
  <2>2. p.id <= used /\ p.id \in Nat
    BY <1>1 DEF PlanHolds
  <2> QED
    BY <2>1, <2>2
<1>3. ASSUME Here(p.id)'
      PROVE  /\ Here(p.id) /\ rows'[p.id].created = rows[p.id].created
             /\ rows'[p.id].before # None => /\ rows'[p.id].before = rows[p.id].before
                                             /\ rows'[p.id].after = rows[p.id].after
  <2>1. used \in Nat /\ p.id <= used /\ p.id \in Nat
    BY <1>1, EntriesGoOn DEF PlanHolds
  <2>2. p.id # used + 1
    BY <2>1
  <2> QED
    BY <1>1, <1>3, <2>2, EntriesGoOn
<1>4. marked \subseteq marked'
  BY EntriesGoOn
<1>5. ExpiryIsKept(p.id, p.expires)'
  BY <1>3 DEF PlanHolds, ExpiryIsKept
<1>6. ASSUME Here(p.id)', rows'[p.id].before # None PROVE p.media = MediaOf(rows'[p.id])
  BY <1>3, <1>6 DEF PlanHolds, MediaOf
<1>7. p.op = "activate" /\ p.status \notin Revertible
        => ~(Here(p.id)' /\ rows'[p.id].before # None)
  BY <1>3 DEF PlanHolds
<1>8. (p.op = "activate" => p.expires # None) /\ (p.status = "reverted" => p.id \in marked')
  BY <1>4 DEF PlanHolds
<1> QED
  BY <1>2, <1>5, <1>6, <1>7, <1>8 DEF PlanHolds

\* The plans of a request or of the maintenance are carried out, forgotten or made anew.
LEMMA TodosChange ==
    ASSUME IInv, [Next]_vars
    PROVE  \A a \in Actors : \/ job'[a].todo \subseteq job[a].todo
                             \/ job'[a].todo \in {PassPlans, DisposalPlans}
<1>1. job \in [Actors -> Job] /\ Requests \subseteq Actors /\ Cron \in Actors
  BY DEF IInv, TypeOK, Actors
<1>2. ASSUME NEW a \in Actors, Quit(a) PROVE \A b \in Actors : job'[b].todo \subseteq job[b].todo
  BY <1>1, <1>2 DEF Quit, Idle
<1>3. ASSUME NEW a \in Actors, NEW step, job' = [job EXCEPT ![a].step = step]
      PROVE  \A b \in Actors : job'[b].todo \subseteq job[b].todo
  BY <1>1, <1>3 DEF Job
<1>4. ASSUME NEW a \in Actors, job' = [job EXCEPT ![a].todo = Rest(a)]
      PROVE  \A b \in Actors : job'[b].todo \subseteq job[b].todo
  BY <1>1, <1>4 DEF Job, Rest
<1>5. ASSUME NEW a \in Actors, job' = [job EXCEPT ![a].step = "pass", ![a].todo = Rest(a)]
      PROVE  \A b \in Actors : job'[b].todo \subseteq job[b].todo
  <2>1. \A j \in Job : [j EXCEPT !.step = "pass", !.todo = Rest(a)].todo = Rest(a)
    BY DEF Job
  <2>2. job' = [job EXCEPT ![a] = [job[a] EXCEPT !.step = "pass", !.todo = Rest(a)]]
    BY <1>1, <1>5
  <2> QED
    BY <1>1, <2>1, <2>2 DEF Rest
<1>6. ASSUME NEW a \in Actors, PassDelete(a) \/ PassDispose(a)
      PROVE  \A b \in Actors : job'[b].todo \subseteq job[b].todo
  BY <1>4, <1>6 DEF PassDelete, PassDispose
<1>7. ASSUME NEW a \in Actors, PassActivate(a)
      PROVE  \A b \in Actors : job'[b].todo \subseteq job[b].todo
  BY <1>3, <1>7 DEF PassActivate, Goto
<1>8. ASSUME NEW a \in Actors, PassRefs(a) \/ Die(a)
      PROVE  \A b \in Actors : job'[b].todo \subseteq job[b].todo
  BY <1>2, <1>5, <1>8 DEF PassRefs, Die
<1>9. ASSUME NEW a \in Requests, Apply(a) \/ MarkReverted(a)
      PROVE  \A b \in Actors : job'[b].todo \subseteq job[b].todo
  BY <1>1, <1>3, <1>9 DEF Apply, MarkReverted, Goto
<1>10. ASSUME JobMoves
       PROVE  \A b \in Actors : \/ job'[b].todo \subseteq job[b].todo
                                \/ job'[b].todo \in {PassPlans, DisposalPlans}
  <2>1. PICK a \in Actors, j \in Job : JobStep(a, j)
    BY <1>10, JobSteps
  <2> QED
    BY <1>1, <2>1 DEF JobStep
<1>11. ASSUME DeleteOld PROVE \A b \in Actors : job'[b].todo \subseteq job[b].todo
  BY <1>1, <1>2, <1>11 DEF DeleteOld
<1>12. ASSUME LogOther \/ Tick \/ UNCHANGED vars \/ \E v \in Versions : Edit(v) \/ Quarantine(v)
       PROVE  job' = job
  BY <1>12 DEF LogOther, Tick, vars, Edit, Quarantine
<1> QED
  BY <1>6, <1>7, <1>8, <1>9, <1>10, <1>11, <1>12, StepCases

\* Plans that wait hold when they are carried out.
LEMMA PlansStay == IInv /\ [Next]_vars => PlansHold'
<1> SUFFICES ASSUME IInv, [Next]_vars, NEW a \in Actors, NEW p \in job'[a].todo
             PROVE  PlanHolds(p)' /\ \A q \in job'[a].todo : p.id = q.id => p = q
  BY DEF PlansHold
<1>1. /\ p \in Plan /\ PlanHolds(p)
      /\ \A q \in job'[a].todo : p.id = q.id => p = q
  <2>1. CASE job'[a].todo \subseteq job[a].todo
    BY <2>1 DEF IInv, PlansHold, TypeOK, Job
  <2>2. CASE job'[a].todo \in {PassPlans, DisposalPlans}
    BY <2>2, PlansAreMade
  <2> QED
    BY <2>1, <2>2, TodosChange
<1> QED
  BY <1>1, PlanStays

\* Requests and the maintenance go their way.
LEMMA StepsStay == IInv /\ [Next]_vars => StepsFollow'
<1> SUFFICES ASSUME IInv, [Next]_vars PROVE StepsFollow'
  OBVIOUS
<1>1. /\ job \in [Actors -> Job] /\ Requests \subseteq Actors /\ Cron \in Actors
      /\ None \notin Actors
  BY SentinelAssumption DEF IInv, TypeOK, Actors, SentinelAssumption
<1>2. \A a \in Actors :
        /\ job[a].kind \in {"asking", "revert"} => job[a].row \in Ids
        /\ job[a].kind \notin {"revert", "cron"} => job[a].todo = {}
        /\ job[a].step \in Working => job[a].kind = "revert"
        /\ job[a].step = "media" => job[a].kind = "cron"
        /\ job[a].step = "refs" => job[a].todo # {}
        /\ job[a].step = "apply" => holder = a /\ used < MaxRows
        /\ job[a].step \in {"lock", "apply"} => job[a].fresh = "yes"
  BY DEF IInv, StepsFollow
<1>3. ASSUME NEW a \in Actors, Quit(a), used' = used PROVE StepsFollow'
  <2>1. job'[a].kind \in {"idle", "done"} /\ job'[a].step = "pass" /\ job'[a].todo = {}
    BY <1>1, <1>3 DEF Quit, Idle
  <2>2. \A b \in Actors \ {a} : /\ job'[b] = job[b]
                                /\ job[b].step = "apply" => holder' = b
    BY <1>1, <1>2, <1>3 DEF Quit
  <2> QED
    BY <1>2, <1>3, <2>1, <2>2 DEF StepsFollow, Working
<1>4. ASSUME NEW a \in Actors, NEW j \in Job, job' = [job EXCEPT ![a] = j],
             UNCHANGED <<used, holder>>, job[a].todo # {},
             j.kind = job[a].kind, j.row = job[a].row,
             j.step \in {"pass", "dispose"} \/ (j.step = "refs" /\ j.todo # {})
      PROVE  StepsFollow'
  BY <1>1, <1>2, <1>4 DEF StepsFollow, Working
<1>5. ASSUME NEW a \in Actors, PassDelete(a) \/ PassDispose(a) PROVE StepsFollow'
  <2> DEFINE j == [job[a] EXCEPT !.todo = Rest(a)]
  <2>1. /\ job' = [job EXCEPT ![a] = j] /\ UNCHANGED <<used, holder>> /\ job[a].todo # {}
        /\ job[a].step \in {"pass", "dispose"}
    BY <1>5 DEF PassDelete, PassDispose
  <2>2. j \in Job /\ j.kind = job[a].kind /\ j.row = job[a].row /\ j.step = job[a].step
    BY <1>1 DEF Job, Rest
  <2> HIDE DEF j
  <2> QED
    BY <1>4, <2>1, <2>2
<1>6. ASSUME NEW a \in Actors, PassActivate(a) PROVE StepsFollow'
  <2> DEFINE j == [job[a] EXCEPT !.step = "refs"]
  <2>1. /\ job' = [job EXCEPT ![a] = j] /\ UNCHANGED <<used, holder>> /\ job[a].todo # {}
    BY <1>6 DEF PassActivate, Goto
  <2>2. j \in Job /\ j.kind = job[a].kind /\ j.row = job[a].row /\ j.step = "refs"
        /\ j.todo = job[a].todo
    BY <1>1 DEF Job
  <2> HIDE DEF j
  <2> QED
    BY <1>4, <2>1, <2>2
<1>7. ASSUME NEW a \in Actors, PassRefs(a) PROVE StepsFollow'
  <2>1. CASE Quit(a)
    BY <1>3, <1>7, <2>1 DEF PassRefs, table
  <2>2. CASE ~Quit(a)
    <3> DEFINE j == [job[a] EXCEPT !.step = "pass", !.todo = Rest(a)]
    <3>1. job[a].todo # {}
      BY <1>2, <1>7 DEF PassRefs
    <3>2. job' = [job EXCEPT ![a].step = "pass", ![a].todo = Rest(a)]
          /\ UNCHANGED <<used, holder>>
      BY <1>7, <2>2 DEF PassRefs
    <3>3. job' = [job EXCEPT ![a] = j]
      BY <1>1, <3>2
    <3>4. j \in Job /\ j.kind = job[a].kind /\ j.row = job[a].row /\ j.step = "pass"
      BY <1>1 DEF Job, Rest
    <3> HIDE DEF j
    <3> QED
      BY <1>4, <3>1, <3>2, <3>3, <3>4
  <2> QED
    BY <2>1, <2>2
<1>8. ASSUME NEW a \in Actors, Die(a) PROVE StepsFollow'
  BY <1>3, <1>8 DEF Die, table
<1>9. ASSUME DeleteOld PROVE StepsFollow'
  BY <1>1, <1>3, <1>9 DEF DeleteOld
<1>10. ASSUME NEW a \in Requests, Apply(a) PROVE StepsFollow'
  <2>1. job[a].step = "apply" /\ holder = a /\ job[a].kind = "revert" /\ job[a].row \in Ids
    BY <1>1, <1>2, <1>10 DEF Apply, Applies, Working
  <2>2. /\ job'[a] = [job[a] EXCEPT !.step = "mark"]
        /\ \A b \in Actors \ {a} : job'[b] = job[b] /\ job[b].step # "apply"
    BY <1>1, <1>2, <1>10, <2>1 DEF Apply, Goto
  <2>3. job'[a].step = "mark" /\ job'[a].kind = "revert" /\ job'[a].row \in Ids
    BY <1>1, <2>1, <2>2 DEF Job
  <2> QED
    BY <1>2, <2>2, <2>3 DEF StepsFollow, Working
<1>11. ASSUME NEW a \in Requests, MarkReverted(a) PROVE StepsFollow'
  <2>1. job[a].step = "mark" /\ job[a].kind = "revert" /\ job[a].row \in Ids
    BY <1>1, <1>2, <1>11 DEF MarkReverted, Working
  <2>2. /\ job'[a] = [job[a] EXCEPT !.step = "again"]
        /\ \A b \in Actors \ {a} : job'[b] = job[b]
        /\ UNCHANGED <<used, holder>>
    BY <1>1, <1>11 DEF MarkReverted, Goto
  <2>3. job'[a].step = "again" /\ job'[a].kind = "revert" /\ job'[a].row \in Ids
    BY <1>1, <2>1, <2>2 DEF Job
  <2> QED
    BY <1>2, <2>2, <2>3 DEF StepsFollow, Working
<1>12. ASSUME NEW v \in Versions, Edit(v) PROVE StepsFollow'
  <2>1. UNCHANGED <<job, holder>> /\ \A b \in Actors : job[b].step # "apply"
    BY <1>1, <1>2, <1>12 DEF Edit
  <2> QED
    BY <1>2, <2>1 DEF StepsFollow
<1>13. ASSUME LogOther PROVE StepsFollow'
  <2>1. UNCHANGED <<job, holder>> /\ used' < MaxRows
    BY <1>13, TimeAssumption DEF LogOther, NewEntry, TimeAssumption, IInv, TypeOK
  <2> QED
    BY <1>2, <2>1 DEF StepsFollow
<1>14. ASSUME Tick \/ UNCHANGED vars \/ \E v \in Versions : Quarantine(v) PROVE StepsFollow'
  <2>1. UNCHANGED <<job, holder, used>>
    BY <1>14 DEF Tick, vars, Quarantine, table
  <2> QED
    BY <1>2, <2>1 DEF StepsFollow
<1>15. ASSUME JobMoves PROVE StepsFollow'
  <2>1. used' = used
    BY <1>15, JobSteps DEF table
  <2>2. PICK a \in Actors, j \in Job : JobStep(a, j)
    BY <1>15, JobSteps
  <2>3. /\ job'[a] = j /\ \A b \in Actors \ {a} : job'[b] = job[b]
        /\ \A b \in Actors \ {a} : job[b].step = "apply" => holder' = b
    BY <1>1, <1>2, <2>2 DEF JobStep
  <2>4. j.step # "refs" /\ (j.kind \in {"asking", "revert"} => j.row \in Ids)
        /\ (j.kind \notin {"revert", "cron"} => j.todo = {})
        /\ (j.step \in Working => j.kind = "revert") /\ (j.step = "media" => j.kind = "cron")
        /\ (j.step = "apply" => holder' = a /\ used < MaxRows)
        /\ (j.step \in {"lock", "apply"} => j.fresh = "yes")
    BY <2>2 DEF JobStep
  <2> QED
    BY <1>2, <2>1, <2>3, <2>4 DEF StepsFollow
<1> QED
  BY <1>5, <1>6, <1>7, <1>8, <1>9, <1>10, <1>11, <1>12, <1>13, <1>14, <1>15, StepCases

\* An entry that is there is older than the next one.
LEMMA IdBelow == ASSUME IInv, NEW id \in Ids, Here(id) PROVE used + 1 # id
<1>1. used \in Nat /\ id \in Nat /\ id <= used
  BY TimeAssumption DEF IInv, IdsAreUsed, TypeOK, Ids, TimeAssumption
<1> QED
  BY <1>1

\* An entry keeps its media when its snapshots stay and no activation of it ends.
LEMMA ProtectionStays ==
    ASSUME NEW id \in Ids, Protected(id), MediaOf(rows[id])' = MediaOf(rows[id]),
           Holding(id) \subseteq Holding(id)', cut \subseteq cut',
           \A b \in Actors : job[b].step = "refs" /\ Current(b).id = id =>
               \/ job'[b].step = "refs" /\ job'[b].todo = job[b].todo
               \/ id \in cut'
               \/ MediaOf(rows[id]) \subseteq Holding(id)'
    PROVE  Protected(id)'
<1>1. \A b \in Actors : job'[b].todo = job[b].todo => Current(b)' = Current(b)
  BY DEF Current
<1> QED
  BY <1>1 DEF Protected

\* Entries hold their media, whatever passes over stale readings do.
LEMMA MediaStaysHeld == IInv /\ [Next]_vars => MediaIsHeld'
<1> SUFFICES ASSUME IInv, [Next]_vars, NEW id \in Ids, Here(id)'
             PROVE  /\ ExpiryIsKept(id, rows[id].expires)'
                    /\ rows'[id].before # None /\ rows'[id].expires # None => Protected(id)'
  BY DEF MediaIsHeld
<1> USE DEF table, history
<1>1. /\ TypeOK /\ job \in [Actors -> Job] /\ rows \in [Ids -> Entry \cup {Absent}]
      /\ refs \subseteq Ids \X Versions
      /\ Requests \subseteq Actors /\ Cron \in Actors
  BY DEF IInv, TypeOK, Actors
<1>2. \A a \in Actors : /\ job[a].todo # {} => /\ Current(a) \in Plan /\ Current(a).id \in Ids
                                               /\ Current(a) \in job[a].todo
                                               /\ PlanHolds(Current(a))
                        /\ job[a].step = "refs" => job[a].todo # {}
  BY <1>1, CurrentIsPlanned DEF Job, Plan, IInv, PlansHold, StepsFollow
<1>3. Here(id) => /\ ExpiryIsKept(id, rows[id].expires)
                  /\ rows[id].before # None /\ rows[id].expires # None => Protected(id)
  BY DEF IInv, MediaIsHeld
<1>4. CASE ~Here(id)
  BY <1>4, EntriesGoOn DEF ExpiryIsKept
<1>5. /\ Here(id) => rows'[id].created = rows[id].created
      /\ Here(id) /\ rows'[id].before # None =>
           rows'[id].before = rows[id].before /\ MediaOf(rows[id])' = MediaOf(rows[id])
  BY EntriesGoOn DEF MediaOf
<1>6. ASSUME Here(id), rows'[id].expires = rows[id].expires \/ rows'[id].expires = None,
             rows'[id].before # None => Holding(id) \subseteq Holding(id)', cut \subseteq cut',
             \A b \in Actors : job[b].step = "refs" =>
                 job'[b].step = "refs" /\ job'[b].todo = job[b].todo
      PROVE  /\ ExpiryIsKept(id, rows[id].expires)'
             /\ rows'[id].before # None /\ rows'[id].expires # None => Protected(id)'
  <2>1. ExpiryIsKept(id, rows[id].expires)'
    BY <1>3, <1>5, <1>6 DEF ExpiryIsKept
  <2>2. ASSUME rows'[id].before # None, rows'[id].expires # None PROVE Protected(id)'
    BY <1>3, <1>5, <1>6, <2>2, ProtectionStays
  <2> QED
    BY <2>1, <2>2
<1> DEFINE Same == /\ rows'[id].expires = rows[id].expires /\ refs' = refs /\ cut' = cut
                   /\ \A b \in Actors : job[b].step = "refs" => job'[b] = job[b]
<1>7. ASSUME Here(id), Same
      PROVE  /\ ExpiryIsKept(id, rows[id].expires)'
             /\ rows'[id].before # None /\ rows'[id].expires # None => Protected(id)'
  BY <1>6, <1>7 DEF Holding
<1>8. ASSUME Here(id), NEW a \in Actors, PassDelete(a)
      PROVE  /\ ExpiryIsKept(id, rows[id].expires)'
             /\ rows'[id].before # None /\ rows'[id].expires # None => Protected(id)'
  <2>1. rows'[id] = rows[id] /\ id # Current(a).id
    BY <1>1, <1>8 DEF PassDelete, Delete, Here, Absent
  <2>2. Holding(id) \subseteq Holding(id)'
    BY <1>8, <2>1 DEF PassDelete, Delete, Holding
  <2>3. cut' = cut /\ \A b \in Actors : job[b].step = "refs" => job'[b] = job[b]
    BY <1>1, <1>8 DEF PassDelete
  <2> QED
    BY <1>6, <1>8, <2>1, <2>2, <2>3
<1>9. ASSUME Here(id), NEW a \in Actors, PassDispose(a)
      PROVE  /\ ExpiryIsKept(id, rows[id].expires)'
             /\ rows'[id].before # None /\ rows'[id].expires # None => Protected(id)'
  <2> DEFINE p == Current(a)
  <2>1. p \in Plan /\ p.id \in Ids /\ PlanHolds(p)
    BY <1>2, <1>9 DEF PassDispose
  <2> HIDE DEF p
  <2>2. /\ rows' = IF Here(p.id) THEN [rows EXCEPT ![p.id] = Disposed(p)] ELSE rows
        /\ refs' = {x \in refs : x[1] # p.id}
        /\ job' = [job EXCEPT ![a].todo = Rest(a)]
        /\ cut' = cut /\ job[a].step \in {"pass", "dispose"}
    BY <1>9 DEF PassDispose, p
  <2>3. CASE id # p.id
    <3>1. rows'[id] = rows[id] /\ Holding(id) \subseteq Holding(id)'
      BY <1>1, <2>1, <2>2, <2>3 DEF Holding
    <3>2. \A b \in Actors : job[b].step = "refs" => job'[b] = job[b]
      BY <1>1, <2>2
    <3> QED
      BY <1>6, <1>9, <2>2, <3>1, <3>2
  <2>4. CASE id = p.id
    <3>1. rows[id] \in Entry /\ rows'[id] = Disposed(p)
      BY <1>1, <1>9, <2>1, <2>2, <2>4, HereIsEntry
    <3>2. rows'[id].before = None /\ rows'[id].expires = p.expires
      BY <2>4, <3>1 DEF Disposed, Entry
    <3>3. ExpiryIsKept(id, rows[id].expires)'
      BY <1>5, <1>9, <2>1, <2>4, <3>2 DEF PlanHolds, ExpiryIsKept
    <3> QED
      BY <3>2, <3>3
  <2> QED
    BY <2>3, <2>4
<1>10. ASSUME Here(id), NEW a \in Actors, PassActivate(a)
       PROVE  /\ ExpiryIsKept(id, rows[id].expires)'
              /\ rows'[id].before # None /\ rows'[id].expires # None => Protected(id)'
  <2> DEFINE p == Current(a)
  <2>1. p \in Plan /\ p.id \in Ids /\ PlanHolds(p)
    BY <1>2, <1>10 DEF PassActivate
  <2>2. /\ job'[a].step = "refs" /\ Current(a)' = p
        /\ \A b \in Actors : job[b].step = "refs" => job'[b] = job[b]
        /\ a \in Actors /\ job[a].step = "pass"
    <3>1. /\ job[a] \in Job /\ job[a].step = "pass"
          /\ job' = [job EXCEPT ![a] = [job[a] EXCEPT !.step = "refs"]]
      BY <1>1, <1>10 DEF PassActivate, Goto
    <3>2. job'[a].step = "refs" /\ job'[a].todo = job[a].todo
      BY <1>1, <3>1 DEF Job
    <3>3. Current(a)' = p
      BY <3>2 DEF Current
    <3> QED
      BY <1>1, <3>1, <3>2, <3>3
  <2> HIDE DEF p
  <2>3. /\ rows' = IF Here(p.id) THEN [rows EXCEPT ![p.id].expires = p.expires,
                                                   ![p.id].status = p.status]
                   ELSE rows
        /\ refs' = refs /\ cut' = cut
    BY <1>10 DEF PassActivate, p
  <2>4. CASE id # p.id
    <3>1. rows'[id] = rows[id]
      BY <1>1, <2>1, <2>3, <2>4
    <3> QED
      BY <1>7, <1>10, <2>2, <2>3, <3>1
  <2>5. CASE id = p.id
    <3>1. rows[id] \in Entry
      BY <1>10, HereIsEntry, <1>1
    <3>2. rows' = [rows EXCEPT ![id] = [rows[id] EXCEPT !.expires = p.expires, !.status = p.status]]
      BY <1>1, <1>10, <2>3, <2>5
    <3>3. rows'[id].expires = p.expires
      BY <1>1, <3>1, <3>2 DEF Entry
    <3>4. ExpiryIsKept(id, rows[id].expires)'
      BY <1>5, <1>10, <2>1, <2>5, <3>3 DEF PlanHolds, ExpiryIsKept
    <3>5. Protected(id)'
      BY <2>2, <2>5 DEF Protected
    <3> QED
      BY <3>4, <3>5
  <2> QED
    BY <2>4, <2>5
<1>11. ASSUME Here(id), NEW a \in Actors, PassRefs(a)
       PROVE  /\ ExpiryIsKept(id, rows[id].expires)'
              /\ rows'[id].before # None /\ rows'[id].expires # None => Protected(id)'
  <2> DEFINE p == Current(a)
  <2>1. p \in Plan /\ p.id \in Ids /\ PlanHolds(p)
    BY <1>2, <1>11 DEF PassRefs
  <2> HIDE DEF p
  <2>2. rows' = rows /\ cut' = cut
    BY <1>11 DEF PassRefs
  <2>3. \A b \in Actors \ {a} : job'[b] = job[b]
    BY <1>1, <1>11 DEF PassRefs, Quit
  <2>4. ExpiryIsKept(id, rows[id].expires)'
    BY <1>3, <1>11, <2>2 DEF ExpiryIsKept, Here
  <2>5. CASE id # p.id
    <3>1. Holding(id)' = Holding(id)
      BY <1>11, <2>5 DEF PassRefs, Holding, p
    <3>2. \A b \in Actors : job[b].step = "refs" /\ Current(b).id = id => job'[b] = job[b]
      BY <2>3, <2>5 DEF p
    <3>3. ASSUME rows[id].before # None, rows[id].expires # None PROVE Protected(id)'
      BY <1>3, <1>11, <2>2, <3>1, <3>2, <3>3, ProtectionStays
    <3> QED
      BY <2>2, <2>4, <3>3
  <2>6. CASE id = p.id
    <3>1. refs' = {x \in refs : x[1] # p.id} \cup ({p.id} \X p.media)
      BY <1>11, <2>6 DEF PassRefs, p
    <3>2. p.media \subseteq Versions
      BY <2>1 DEF Plan
    <3>3. Holding(id)' = p.media
      BY <2>6, <3>1, <3>2 DEF Holding
    <3>4. ASSUME rows[id].before # None PROVE MediaOf(rows[id]) \subseteq Holding(id)'
      BY <1>11, <2>1, <2>6, <3>3, <3>4 DEF PlanHolds
    <3> QED
      BY <2>2, <2>4, <3>4 DEF Protected
  <2> QED
    BY <2>5, <2>6
<1>12. ASSUME Here(id), NEW a \in Actors, Die(a)
       PROVE  /\ ExpiryIsKept(id, rows[id].expires)'
              /\ rows'[id].before # None /\ rows'[id].expires # None => Protected(id)'
  <2>1. rows' = rows /\ refs' = refs /\ cut \subseteq cut'
    BY <1>12 DEF Die
  <2>2. \A b \in Actors \ {a} : job'[b] = job[b]
    BY <1>1, <1>12 DEF Die, Quit
  <2>3. job[a].step = "refs" => Current(a).id \in cut'
    BY <1>12 DEF Die
  <2>4. ExpiryIsKept(id, rows[id].expires)'
    BY <1>3, <1>12, <2>1 DEF ExpiryIsKept, Here
  <2>5. Holding(id)' = Holding(id)
    BY <2>1 DEF Holding
  <2>6. ASSUME rows[id].before # None, rows[id].expires # None PROVE Protected(id)'
    BY <1>3, <1>12, <2>1, <2>2, <2>3, <2>5, <2>6, ProtectionStays
  <2> QED
    BY <2>1, <2>4, <2>6
<1>13. ASSUME Here(id), NEW a \in Requests, Apply(a) PROVE Same
  <2>1. rows'[id] = rows[id]
    <3>1. used + 1 # id
      BY <1>13, IdBelow
    <3> QED
      BY <1>1, <1>13, <3>1 DEF Apply, NewEntry
  <2> QED
    BY <1>1, <1>13, <2>1 DEF Apply, Applies, NewEntry, Goto
<1>14. ASSUME Here(id), NEW a \in Requests, MarkReverted(a) PROVE Same
  <2>1. rows'[id].expires = rows[id].expires
    <3>1. rows[id] \in Entry
      BY <1>1, <1>14, HereIsEntry
    <3>2. rows'[id] = rows[id] \/ rows'[id] = [rows[id] EXCEPT !.status = "reverted"]
      BY <1>1, <1>14 DEF MarkReverted, Mark
    <3> QED
      BY <3>1, <3>2 DEF Entry
  <2> QED
    BY <1>1, <1>14, <2>1 DEF MarkReverted, Goto
<1>15. ASSUME Here(id), DeleteOld
       PROVE  /\ ExpiryIsKept(id, rows[id].expires)'
              /\ rows'[id].before # None /\ rows'[id].expires # None => Protected(id)'
  <2>1. PICK ids \in SUBSET Ids : Delete(ids)
    BY <1>15 DEF DeleteOld, FirstOf
  <2>2. rows'[id] = rows[id] /\ id \notin ids
    BY <1>1, <2>1 DEF Delete, Here, Absent
  <2>3. Holding(id) \subseteq Holding(id)'
    BY <2>1, <2>2 DEF Delete, Holding
  <2>4. job[Cron].step = "dispose" /\ cut' = cut /\ \A b \in Actors \ {Cron} : job'[b] = job[b]
    BY <1>1, <1>15 DEF DeleteOld, Quit
  <2> QED
    BY <1>6, <1>15, <2>2, <2>3, <2>4
<1>16. ASSUME Here(id), NEW v \in Versions, Edit(v) PROVE Same
  <2>1. rows'[id] = rows[id]
    <3>1. used + 1 # id
      BY <1>16, IdBelow
    <3> QED
      BY <1>1, <1>16, <3>1 DEF Edit, NewEntry
  <2> QED
    BY <1>16, <2>1 DEF Edit, NewEntry
<1>17. ASSUME Here(id), LogOther PROVE Same
  <2>1. rows'[id] = rows[id]
    <3>1. used + 1 # id
      BY <1>17, IdBelow
    <3> QED
      BY <1>1, <1>17, <3>1 DEF LogOther, NewEntry
  <2> QED
    BY <1>17, <2>1 DEF LogOther, NewEntry
<1>18. ASSUME Here(id), NEW v \in Versions, Quarantine(v) PROVE Same
  <2>1. rows'[id].expires = rows[id].expires
    <3>1. rows[id] \in Entry
      BY <1>1, <1>18, HereIsEntry
    <3>2. rows'[id] = rows[id] \/ rows'[id] = [rows[id] EXCEPT !.status = "available"]
      BY <1>18, QuarantineMarks
    <3> QED
      BY <3>1, <3>2 DEF Entry
  <2> QED
    BY <1>18, <2>1 DEF Quarantine
<1>19. ASSUME JobMoves PROVE Same
  <2>1. PICK a \in Actors, j \in Job : JobStep(a, j)
    BY <1>19, JobSteps
  <2>2. \A b \in Actors : job[b].step = "refs" => job'[b] = job[b]
    BY <1>1, <2>1 DEF JobStep
  <2> QED
    BY <1>19, <2>2, JobSteps
<1>20. ASSUME Tick \/ UNCHANGED vars PROVE Same
  BY <1>20 DEF Tick, vars
<1> HIDE DEF Same
<1> QED
  BY <1>4, <1>7, <1>8, <1>9, <1>10, <1>11, <1>12, <1>13, <1>14, <1>15, <1>16, <1>17,
     <1>18, <1>19, <1>20, StepCases

\* The mark of a revert stays, or a history knows what took it away.
LEMMA MarksStayKnown == IInv /\ [Next]_vars => MarksStay'
<1> SUFFICES ASSUME IInv, [Next]_vars, NEW id \in Ids, Here(id)'
             PROVE  /\ rows'[id].status = "reverted" => id \in marked'
                    /\ id \in marked' /\ rows'[id].before # None =>
                         rows'[id].status = "reverted" \/ id \in reopened'
  BY DEF MarksStay
<1> USE DEF table, history
<1>1. /\ TypeOK /\ job \in [Actors -> Job] /\ rows \in [Ids -> Entry \cup {Absent}]
      /\ Requests \subseteq Actors /\ marked \subseteq Ids
  BY DEF IInv, TypeOK, Actors
<1>2. \A a \in Actors : job[a].todo # {} => /\ Current(a) \in Plan /\ Current(a).id \in Ids
                                            /\ PlanHolds(Current(a))
  BY <1>1, CurrentIsPlanned DEF Job, Plan, IInv, PlansHold
<1>3. Here(id) => /\ rows[id].status = "reverted" => id \in marked
                  /\ id \in marked /\ rows[id].before # None =>
                       rows[id].status = "reverted" \/ id \in reopened
  BY DEF IInv, MarksStay
<1>4. CASE ~Here(id)
  <2>1. id = used + 1 /\ rows'[id].status = "not_applicable" /\ used \in Nat
    BY <1>4, EntriesGoOn
  <2>2. id \notin marked
    BY <2>1 DEF IInv, IdsAreUsed
  <2>3. id \notin marked'
    BY <1>4, <2>2, EntriesGoOn
  <2> QED
    BY <2>1, <2>3
<1>5. marked \subseteq marked' /\ (Here(id) /\ rows'[id].before # None =>
                                     rows'[id].before = rows[id].before)
  BY EntriesGoOn
<1> DEFINE Same == /\ rows'[id] = rows[id] /\ marked' = marked /\ reopened \subseteq reopened'
<1>6. ASSUME Here(id), Same
      PROVE  /\ rows'[id].status = "reverted" => id \in marked'
             /\ id \in marked' /\ rows'[id].before # None =>
                  rows'[id].status = "reverted" \/ id \in reopened'
  BY <1>3, <1>6
<1>7. ASSUME Here(id), NEW a \in Actors, PassDelete(a) PROVE Same
  BY <1>1, <1>7 DEF PassDelete, Delete, Here, Absent
<1>8. ASSUME Here(id), NEW a \in Actors, PassDispose(a)
      PROVE  /\ rows'[id].status = "reverted" => id \in marked'
             /\ id \in marked' /\ rows'[id].before # None =>
                  rows'[id].status = "reverted" \/ id \in reopened'
  <2> DEFINE p == Current(a)
  <2>1. p \in Plan /\ p.id \in Ids /\ PlanHolds(p)
    BY <1>2, <1>8 DEF PassDispose
  <2> HIDE DEF p
  <2>2. /\ rows' = IF Here(p.id) THEN [rows EXCEPT ![p.id] = Disposed(p)] ELSE rows
        /\ marked' = marked /\ reopened' = reopened
    BY <1>8 DEF PassDispose, p
  <2>3. CASE id # p.id
    BY <1>1, <1>6, <1>8, <2>1, <2>2, <2>3
  <2>4. CASE id = p.id
    <3>1. rows[id] \in Entry /\ rows'[id] = Disposed(p)
      BY <1>1, <1>8, <2>1, <2>2, <2>4, HereIsEntry
    <3>2. rows'[id].before = None /\ rows'[id].status = p.status
      BY <2>4, <3>1 DEF Disposed, Entry
    <3> QED
      BY <2>1, <2>2, <2>4, <3>2 DEF PlanHolds
  <2> QED
    BY <2>3, <2>4
<1>9. ASSUME Here(id), NEW a \in Actors, PassActivate(a)
      PROVE  /\ rows'[id].status = "reverted" => id \in marked'
             /\ id \in marked' /\ rows'[id].before # None =>
                  rows'[id].status = "reverted" \/ id \in reopened'
  <2> DEFINE p == Current(a)
  <2>1. p \in Plan /\ p.id \in Ids /\ PlanHolds(p) /\ p.op = "activate"
    BY <1>2, <1>9 DEF PassActivate
  <2> HIDE DEF p
  <2>2. /\ rows' = IF Here(p.id) THEN [rows EXCEPT ![p.id].expires = p.expires,
                                                   ![p.id].status = p.status]
                   ELSE rows
        /\ IF Here(p.id) THEN Overwrites(p.id, p.status) ELSE UNCHANGED reopened
        /\ marked' = marked
    BY <1>9 DEF PassActivate, p
  <2>3. CASE id # p.id
    BY <1>1, <1>6, <1>9, <2>1, <2>2, <2>3 DEF Overwrites
  <2>4. CASE id = p.id
    <3>1. rows[id] \in Entry
      BY <1>1, <1>9, HereIsEntry
    <3>2. rows' = [rows EXCEPT ![id] = [rows[id] EXCEPT !.expires = p.expires, !.status = p.status]]
      BY <1>1, <1>9, <2>2, <2>4
    <3>3. rows'[id].status = p.status
      BY <1>1, <3>1, <3>2 DEF Entry
    <3>4. reopened' = IF rows[id].status = "reverted" /\ p.status \in Revertible \ {"reverted"}
                      THEN reopened \cup {id} ELSE reopened
      BY <1>9, <2>2, <2>4 DEF Overwrites
    <3>5. rows'[id].before # None => p.status \in Revertible
      BY <1>5, <1>9, <2>1, <2>4 DEF PlanHolds
    <3>6. p.status = "reverted" => id \in marked
      BY <2>1, <2>4 DEF PlanHolds
    <3> QED
      BY <1>3, <1>5, <1>9, <2>2, <3>3, <3>4, <3>5, <3>6
  <2> QED
    BY <2>3, <2>4
<1>10. ASSUME Here(id), NEW a \in Requests, MarkReverted(a)
       PROVE  /\ rows'[id].status = "reverted" => id \in marked'
              /\ id \in marked' /\ rows'[id].before # None =>
                   rows'[id].status = "reverted" \/ id \in reopened'
  <2>1. job[a].row \in Ids
    BY <1>1, <1>10 DEF MarkReverted, IInv, StepsFollow, Working
  <2>2. CASE id = job[a].row
    <3>1. rows[id] \in Entry
      BY <1>1, <1>10, HereIsEntry
    <3>2. rows'[id] = [rows[id] EXCEPT !.status = "reverted"] /\ id \in marked'
      BY <1>1, <1>10, <2>2 DEF MarkReverted, Mark
    <3> QED
      BY <3>1, <3>2 DEF Entry
  <2>3. CASE id # job[a].row
    <3>1. rows'[id] = rows[id] /\ (id \in marked' <=> id \in marked)
          /\ (id \in reopened' <=> id \in reopened)
      BY <1>1, <1>10, <2>1, <2>3 DEF MarkReverted, Mark
    <3> QED
      BY <1>3, <1>10, <3>1
  <2> QED
    BY <2>2, <2>3
<1>11. ASSUME Here(id), NEW v \in Versions, Quarantine(v)
       PROVE  /\ rows'[id].status = "reverted" => id \in marked'
              /\ id \in marked' /\ rows'[id].before # None =>
                   rows'[id].status = "reverted" \/ id \in reopened'
  <2>1. marked' = marked /\ reopened \subseteq reopened'
    BY <1>11, QuarantineMarks DEF Quarantine
  <2>2. CASE rows'[id] = rows[id]
    BY <1>6, <1>11, <2>1, <2>2
  <2>3. CASE rows'[id] # rows[id]
    <3>1. /\ rows'[id] = [rows[id] EXCEPT !.status = "available"]
          /\ rows[id].status = "reverted" => id \in reopened'
      BY <1>11, <2>3, QuarantineMarks
    <3>2. rows'[id].status = "available"
      BY <1>1, <1>11, <3>1, HereIsEntry DEF Entry
    <3> QED
      BY <1>3, <1>5, <1>11, <2>1, <3>1, <3>2
  <2> QED
    BY <2>2, <2>3
<1>12. ASSUME Here(id), NEW a \in Requests, Apply(a) PROVE Same
  <2>1. used + 1 # id
    BY <1>12, IdBelow
  <2> QED
    BY <1>1, <1>12, <2>1 DEF Apply, NewEntry
<1>13. ASSUME Here(id), DeleteOld PROVE Same
  <2>1. PICK ids \in SUBSET Ids : Delete(ids)
    BY <1>13 DEF DeleteOld, FirstOf
  <2> QED
    BY <1>1, <1>13, <2>1 DEF DeleteOld, Delete, Here, Absent
<1>14. ASSUME Here(id), LogOther \/ \E v \in Versions : Edit(v) PROVE Same
  <2>1. used + 1 # id
    BY <1>14, IdBelow
  <2> QED
    BY <1>1, <1>14, <2>1 DEF LogOther, Edit, NewEntry
<1>15. ASSUME \/ \E a \in Actors : PassRefs(a) \/ Die(a)
              \/ JobMoves \/ Tick \/ UNCHANGED vars
       PROVE  Same
  BY <1>15, JobSteps DEF PassRefs, Die, Tick, vars
<1> HIDE DEF Same
<1> QED
  BY <1>4, <1>6, <1>7, <1>8, <1>9, <1>10, <1>11, <1>12, <1>13, <1>14, <1>15, StepCases

-----------------------------------------------------------------------------
(* Theorems.                                                               *)

\* An empty log satisfies the invariant.
LEMMA InitEstablishesIInv == Init => IInv
<1> SUFFICES ASSUME Init PROVE IInv
  OBVIOUS
<1>1. \A id \in Ids : ~Here(id)
  BY DEF Init, Here, Absent
<1>2. \A a \in Actors : job[a] = Idle
  BY DEF Init
<1>3. TypeOK
  <2>1. Idle \in Job
    BY DEF Idle, Job
  <2>2. 0 \in 0..MaxRows /\ 0 \in 0..MaxTime /\ 0 \in 0..MaxFaults /\ {0, Older} \subseteq Versions
    BY TimeAssumption DEF TimeAssumption, Versions, Older
  <2>3. \A id \in Ids : Holding(id) = {}
    BY DEF Init, Holding
  <2> QED
    BY <2>1, <2>2, <2>3 DEF Init, TypeOK
<1>4. StepsFollow /\ PlansHold
  BY <1>2 DEF StepsFollow, PlansHold, Idle, Working
<1>5. IdsAreUsed /\ MediaIsHeld /\ MarksStay
  BY <1>1 DEF Init, IdsAreUsed, MediaIsHeld, MarksStay
<1> QED
  BY <1>3, <1>4, <1>5 DEF IInv

\* The conjuncts of the invariant stay together.
LEMMA StepKeepsIInv == IInv /\ [Next]_vars => IInv'
  BY TypeCorrect, IdsStayUsed, PlansStay, StepsStay, MediaStaysHeld, MarksStayKnown DEF IInv

\* The inductive invariant holds of every execution.
THEOREM InvariantHolds == Spec => []IInv
  BY InitEstablishesIInv, StepKeepsIInv, PTL DEF Spec

\* The variables keep their types, and media is held for entries that are there.
THEOREM TypesHold == Spec => []TypeOK
<1>1. IInv => TypeOK
  BY DEF IInv
<1> QED
  BY <1>1, InvariantHolds, PTL

\* While an entry can be reverted its media is held back from the purge, unless a
\* failure cut the activation of the entry in two.
THEOREM LiveEntriesKeepMedia == Spec => []LiveEntriesHoldMedia
<1>1. IInv => LiveEntriesHoldMedia
  BY DEF IInv, MediaIsHeld, LiveEntriesHoldMedia, Protected, MediaOf
<1> QED
  BY <1>1, InvariantHolds, PTL

\* Who reverts an entry that is marked had looked at it when no mark was there.
THEOREM RepeatsAreRaces == Spec => RepeatedRevertsAreRaces
<1>1. ASSUME IInv, NEW a \in Requests, Apply(a) PROVE job[a].fresh = "yes"
  BY <1>1 DEF IInv, StepsFollow, Apply, Applies, Actors
<1>2. IInv => \A a \in Requests : Apply(a) => job[a].row \notin marked \/ job[a].fresh = "yes"
  BY <1>1
<1> QED
  BY <1>2, InvariantHolds, PTL DEF RepeatedRevertsAreRaces
=================================================================================
