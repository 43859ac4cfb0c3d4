----------------------------- MODULE AuditLifecycle -----------------------------
(***************************************************************************)
(* The life of the audit log: entries with snapshots of a card, the media  *)
(* they hold back (audit_media_refs), their revert for RevertTTL and their *)
(* deletion after AuditTTL (audit-retention.js), the revert request of     *)
(* worker.js and the scheduled maintenance that calls the retention.       *)
(*                                                                         *)
(* A retention pass, migrateAuditLifecycle, reads entries and then updates *)
(* them one statement at a time. It runs before a revert request takes the *)
(* site-state lock, after the revert, and in the maintenance; only the     *)
(* first of these does not hold the lock. The pass behind a card commit is *)
(* like that of a request that is refused after it.                        *)
(*                                                                         *)
(* There is one card. Each version of it is a number, stands for its media *)
(* too, and 0 is no card. The lock is the one of SiteStateLock.            *)
(***************************************************************************)
EXTENDS Integers, FiniteSets

CONSTANTS
    Requests, Cron,      \* the revert requests there are, and the maintenance
    RevertTTL, AuditTTL, \* REVERT_RETENTION_MS, AUDIT_RETENTION_MS
    Batch,               \* entries of a pass
    MaxRows, MaxEdits,   \* bounds on entries: all, and those not of reverts
    LastEdit, MaxTime,   \* bounds: no entry later, the end of time
    MaxFaults,           \* bound on failures
    None

ASSUME TimeAssumption ==
    /\ {RevertTTL, AuditTTL, Batch, MaxRows, MaxEdits} \subseteq Nat \ {0}
    /\ {LastEdit, MaxTime, MaxFaults} \subseteq Nat
    /\ RevertTTL < AuditTTL /\ LastEdit + AuditTTL <= MaxTime
    /\ MaxEdits < MaxRows
ASSUME SentinelAssumption == None \notin Nat \cup Requests \cup {Cron} /\ Cron \notin Requests

VARIABLES
    rows,            \* the table audit_logs
    refs,            \* the table audit_media_refs
    used,            \* entries ever made
    card,            \* the version shown
    away,            \* versions whose media is in quarantine
    now,
    holder,          \* of the site-state lock
    job,             \* what each request and the maintenance is doing
    marked,          \* history: entries marked as reverted
    reopened,        \* history: of these, the ones whose mark was overwritten
    cut,             \* history: activations that a failure cut in two
    faults

table == <<rows, refs, used>>
history == <<marked, reopened, cut>>
vars == <<table, card, away, now, holder, job, history, faults>>

-----------------------------------------------------------------------------
Ids == 1..MaxRows
Older == MaxRows + 1     \* a version from before the log
Versions == 0..Older
Actors == Requests \cup {Cron}
Absent == [action |-> "none"]
Statuses == {"not_applicable", "pending", "available", "reverted",
             "unavailable", "expired"}
Revertible == {"pending", "available", "reverted"}

\* before: None without before_json; snaps: before_json or after_json is there.
Entry == [action : {"sword", "revert", "user"}, created : 0..MaxTime,
          before : Versions \cup {None}, after : Versions \cup {None},
          expires : 0..(MaxTime + RevertTTL) \cup {None}, status : Statuses]

Plan == [id : Ids, op : {"delete", "expire", "dispose", "activate"},
         status : Statuses, expires : 0..(MaxTime + RevertTTL) \cup {None},
         media : SUBSET Versions]

\* fresh: when the request looked the entry had no mark, or not any more.
Job == [kind : {"idle", "asking", "revert", "cron", "done"},
        step : {"pass", "refs", "check", "lock", "apply", "mark", "again",
                "media", "dispose"},
        todo : SUBSET Plan, row : Ids \cup {None},
        fresh : {"yes", "no"}, tail : {"yes", "no"}]
Idle == [kind |-> "idle", step |-> "pass", todo |-> {}, row |-> None,
         fresh |-> "no", tail |-> "no"]

Here(id) == rows[id].action # "none"
Snaps(r) == r.before # None \/ r.after # None

\* extractAuditMediaKeys. Mutant: the snapshot after the change is left out.
MediaOf_Before(r) == {r.before} \ {None, 0}
MediaOf(r) == {r.before, r.after} \ {None, 0}
Holding(id) == {v \in Versions : <<id, v>> \in refs}

TypeOK ==
    /\ rows \in [Ids -> Entry \cup {Absent}]
    /\ refs \subseteq Ids \X Versions
    /\ \A id \in Ids : Holding(id) # {} => Here(id)
    /\ used \in 0..MaxRows /\ card \in Versions /\ away \subseteq Versions
    /\ now \in 0..MaxTime
    /\ holder \in Actors \cup {None}
    /\ job \in [Actors -> Job]
    /\ reopened \subseteq marked /\ marked \subseteq Ids /\ cut \subseteq Ids
    /\ faults \in 0..MaxFaults

Init ==
    /\ rows = [id \in Ids |-> Absent] /\ refs = {} /\ used = 0
    /\ card \in {0, Older} /\ away = {} /\ now = 0
    /\ holder = None
    /\ job = [a \in Actors |-> Idle]
    /\ marked = {} /\ reopened = {} /\ cut = {}
    /\ faults = 0

-----------------------------------------------------------------------------
(* classifyAuditLifecycle                                                  *)

Reversible(r) == r.action \in {"sword", "revert"}
ExpiryOf(r) == IF r.expires = None THEN r.created + RevertTTL ELSE r.expires

Operation(r) ==
    CASE now >= r.created + AuditTTL -> "delete"
      [] now < r.created + AuditTTL /\ now >= ExpiryOf(r) ->
            IF Reversible(r) THEN "expire" ELSE "dispose"
      [] now < r.created + AuditTTL /\ now < ExpiryOf(r) ->
            IF Reversible(r) THEN "activate" ELSE "not_applicable"

\* normalizeActiveStatus
ActiveStatus(r) ==
    IF r.before = None THEN "unavailable"
    ELSE IF r.status \in Revertible THEN r.status ELSE "pending"

PlanFor(id) ==
    LET r == rows[id]  op == Operation(r)
    IN [id |-> id, op |-> op, media |-> MediaOf(r),
        expires |-> IF op \in {"expire", "activate"} THEN ExpiryOf(r) ELSE None,
        status |-> CASE op = "activate" -> ActiveStatus(r)
                     [] op = "expire" -> "expired"
                     [] OTHER -> "not_applicable"]

\* The entries that a pass selects. Mutant: the oldest are left to the last stage
\* of the maintenance.
Selected_NotOldest(id) ==
    LET r == rows[id]
    IN Here(id) /\ \/ r.created + RevertTTL <= now /\ Snaps(r)
                   \/ /\ Reversible(r)
                      /\ r.expires = None \/ r.status = "not_applicable"
Selected(id) ==
    LET r == rows[id]
    IN Here(id) /\ \/ r.created + AuditTTL <= now
                   \/ r.created + RevertTTL <= now /\ Snaps(r)
                   \/ /\ Reversible(r)
                      /\ r.expires = None \/ r.status = "not_applicable"

\* The first Batch of a set of entries, in the order of the table.
FirstOf(S) == {id \in S : Cardinality({i \in S : i < id}) < Batch}

PassPlans ==
    {p \in {PlanFor(id) : id \in FirstOf({id \in Ids : Selected(id)})} :
        p.op # "not_applicable"}

-----------------------------------------------------------------------------
(* A pass, one statement a step.                                           *)

Goto(a, step) == job' = [job EXCEPT ![a].step = step]

\* The end of a request, which gives back the lock.
Quit(a) ==
    /\ job' = [job EXCEPT ![a] = IF a = Cron THEN Idle ELSE [Idle EXCEPT !.kind = "done"]]
    /\ holder' = IF holder = a THEN None ELSE holder

Current(a) == CHOOSE p \in job[a].todo : \A q \in job[a].todo : p.id <= q.id
Rest(a) == job[a].todo \ {Current(a)}

\* A status that replaces the mark of a revert.
Overwrites(id, status) ==
    reopened' = IF rows[id].status = "reverted" /\ status \in Revertible \ {"reverted"}
                THEN reopened \cup {id} ELSE reopened

Delete(ids) ==
    /\ rows' = [id \in Ids |-> IF id \in ids THEN Absent ELSE rows[id]]
    /\ refs' = {x \in refs : x[1] \notin ids}

Disposed(p) == [rows[p.id] EXCEPT !.before = None, !.after = None,
                                  !.expires = p.expires, !.status = p.status]

PassDelete(a) ==
    /\ job[a].step = "pass" /\ job[a].todo # {} /\ Current(a).op = "delete"
    /\ Delete({Current(a).id})
    /\ job' = [job EXCEPT ![a].todo = Rest(a)]
    /\ UNCHANGED <<used, card, away, now, holder, history, faults>>

\* A disposal, of the pass or of the maintenance. Its two statements are one
\* step: without a snapshot the media held does not count any more.
PassDispose(a) ==
    LET p == Current(a)
    IN /\ job[a].step \in {"pass", "dispose"} /\ job[a].todo # {}
       /\ p.op \in {"expire", "dispose"} \/ job[a].step = "dispose"
       /\ rows' = IF Here(p.id) THEN [rows EXCEPT ![p.id] = Disposed(p)] ELSE rows
       /\ refs' = {x \in refs : x[1] # p.id}
       /\ job' = [job EXCEPT ![a].todo = Rest(a)]
       /\ UNCHANGED <<used, card, away, now, holder, history, faults>>

\* An activation, whose second statement comes later.
PassActivate(a) ==
    LET p == Current(a)
    IN /\ job[a].step = "pass" /\ job[a].todo # {} /\ p.op = "activate"
       /\ IF Here(p.id)
          THEN /\ rows' = [rows EXCEPT ![p.id].expires = p.expires,
                                       ![p.id].status = p.status]
               /\ Overwrites(p.id, p.status)
          ELSE UNCHANGED <<rows, reopened>>
       /\ Goto(a, "refs")
       /\ UNCHANGED <<refs, used, card, away, now, holder, marked, cut, faults>>

\* recordAuditMediaRefs, in one batch; an entry that has gone meanwhile cannot be
\* referred to, and the request fails.
PassRefs(a) ==
    LET p == Current(a)
    IN /\ job[a].step = "refs"
       /\ IF Here(p.id) \/ p.media = {}
          THEN /\ refs' = {x \in refs : x[1] # p.id} \cup ({p.id} \X p.media)
               /\ job' = [job EXCEPT ![a].step = "pass", ![a].todo = Rest(a)]
               /\ UNCHANGED holder
          ELSE Quit(a) /\ UNCHANGED refs
       /\ UNCHANGED <<rows, used, card, away, now, history, faults>>

PassEnds(a) ==
    /\ job[a].step = "pass" /\ job[a].todo = {} /\ job[a].kind \in {"revert", "cron"}
    /\ CASE job[a].kind = "cron" -> Goto(a, "media") /\ UNCHANGED holder
         [] job[a].kind = "revert" /\ job[a].tail = "no" ->
              Goto(a, "check") /\ UNCHANGED holder
         [] OTHER -> Quit(a)
    /\ UNCHANGED <<table, card, away, now, history, faults>>

-----------------------------------------------------------------------------
(* The revert request.                                                     *)

Begin(a, kind, row) ==
    job' = [job EXCEPT ![a] = [Idle EXCEPT !.kind = kind, !.row = row,
                                           !.todo = PassPlans]]

\* authorizeAuditRevertRequest
Authorized(id) ==
    LET r == rows[id]
        status == IF r.status = "not_applicable" THEN PlanFor(id).status ELSE r.status
    IN /\ Here(id) /\ Operation(r) = "activate"
       /\ r.before # None /\ status \in Revertible

\* assertAuditNotAlreadyReverted. Mutant: the status "reverted" is among those
\* that isAuditRevertible accepts, and nothing else refuses it.
NotYet_Unasked(id) == TRUE
NotYet(id) == rows[id].status # "reverted"

\* handleListAudit: the page shows the newest entries, all of them here.
Listed == {id \in Ids : Here(id)}

\* enrichAuditResponse reads them a second time. (One that has gone by then is
\* passed on as it is; there is nothing for its request to find.)
CanRevert(id) == Authorized(id)

\* markHistoryOnlyAuditEntries, which takes the button from the others.
WithButton == {id \in Listed : CanRevert(id) /\ NotYet(id)}

\* renderAuditList. An editor who presses the button types a phrase and may have
\* to log in again before the request is sent.
OpenConfirmation(a, id) ==
    /\ job[a].kind = "idle" /\ id \in WithButton
    /\ job' = [job EXCEPT ![a] = [Idle EXCEPT !.kind = "asking", !.row = id]]
    /\ UNCHANGED <<table, card, away, now, holder, history, faults>>

StartRevert(a) ==
    /\ job[a].kind = "asking"
    /\ Begin(a, "revert", job[a].row)
    /\ UNCHANGED <<table, card, away, now, holder, history, faults>>

Check(a) ==
    LET id == job[a].row
    IN /\ job[a].step = "check"
       /\ IF Authorized(id) /\ NotYet(id)
          THEN /\ job' = [job EXCEPT ![a].step = "lock",
                            ![a].fresh = IF id \in marked \ reopened THEN "no" ELSE "yes"]
               /\ UNCHANGED holder
          ELSE Quit(a)
       /\ UNCHANGED <<table, card, away, now, history, faults>>

Lock(a) ==
    /\ job[a].step = "lock" /\ holder = None /\ used < MaxRows
    /\ holder' = a
    /\ Goto(a, "apply")
    /\ UNCHANGED <<table, card, away, now, history, faults>>

\* handleAuditRevert, which reads the entry again and takes its snapshot from
\* there; restoreSnapshotMedia has brought back the media of the first reading.
Applies(a) ==
    LET id == job[a].row
    IN /\ job[a].step = "apply" /\ Here(id)
       /\ rows[id].action = "sword" /\ rows[id].before # None

\* One field cannot be reverted when the card has gone.
ApplyRefused(a) ==
    /\ job[a].step = "apply" /\ (~Applies(a) \/ card = 0)
    /\ Quit(a)
    /\ UNCHANGED <<table, card, away, now, history, faults>>

NewEntry(action, before, after) ==
    /\ used' = used + 1
    /\ rows' = [rows EXCEPT ![used + 1] =
                  [action |-> action, created |-> now, before |-> before,
                   after |-> after, expires |-> None, status |-> "not_applicable"]]
    /\ UNCHANGED refs

\* restoreSwordSnapshot brings the snapshot back; the revert of one field may
\* leave the card with the media it has.
Restored(id) == {rows[id].before} \cup ({card} \ {0})

\* The card and then the entry of the revert.
Apply(a) ==
    /\ Applies(a)
    /\ card' \in Restored(job[a].row)
    /\ away' = away \ {rows[job[a].row].before}
    /\ NewEntry("revert", IF card = 0 THEN None ELSE card, card')
    /\ Goto(a, "mark")
    /\ UNCHANGED <<now, holder, history, faults>>

\* markAuditReverted, and the pass that follows it.
Mark(id) == IF Here(id) THEN [rows EXCEPT ![id].status = "reverted"] ELSE rows

MarkReverted(a) ==
    /\ job[a].step = "mark"
    /\ rows' = Mark(job[a].row)
    /\ marked' = IF Here(job[a].row) THEN marked \cup {job[a].row} ELSE marked
    /\ reopened' = reopened \ {job[a].row}
    /\ Goto(a, "again")
    /\ UNCHANGED <<refs, used, card, away, now, holder, cut, faults>>

\* Before the lock is given back.
PassAgain(a) ==
    /\ job[a].step = "again"
    /\ job' = [job EXCEPT ![a].step = "pass", ![a].tail = "yes", ![a].todo = PassPlans]
    /\ UNCHANGED <<table, card, away, now, holder, history, faults>>

-----------------------------------------------------------------------------
(* The maintenance: a pass, the media, the old snapshots, the old entries. *)

StartCron ==
    /\ job[Cron].kind = "idle" /\ holder = None
    /\ holder' = Cron
    /\ Begin(Cron, "cron", None)
    /\ UNCHANGED <<table, card, away, now, history, faults>>

\* disposeExpiredAuditSnapshots
DisposalPlans ==
    {PlanFor(id) : id \in FirstOf({id \in Ids :
        Here(id) /\ Snaps(rows[id]) /\ rows[id].created + RevertTTL <= now})}

\* The stages of the media may fail, every time; none of the later ones runs
\* then.
Media ==
    /\ job[Cron].step = "media"
    /\ \/ Quit(Cron)
       \/ /\ job' = [job EXCEPT ![Cron].step = "dispose", ![Cron].tail = "yes",
                                ![Cron].todo = DisposalPlans]
          /\ UNCHANGED holder
    /\ UNCHANGED <<table, card, away, now, history, faults>>

\* deleteExpiredAuditLogs
DeleteOld ==
    /\ job[Cron].step = "dispose" /\ job[Cron].todo = {}
    /\ Delete(FirstOf({id \in Ids : Here(id) /\ rows[id].created + AuditTTL <= now}))
    /\ Quit(Cron)
    /\ UNCHANGED <<used, card, away, now, history, faults>>

-----------------------------------------------------------------------------
(* The rest of the system.                                                 *)

\* A mutation of the card, with its entry; v is 0 when it deletes the card.
Edit(v) ==
    /\ holder = None /\ used < MaxEdits /\ now <= LastEdit
    /\ v \in {0, used + 1} /\ v # card
    /\ card' = v
    /\ NewEntry("sword", IF card = 0 THEN None ELSE card, IF v = 0 THEN None ELSE v)
    /\ UNCHANGED <<away, now, holder, job, history, faults>>

\* A change of something else, a user for one: snapshots without media.
LogOther ==
    /\ used < MaxEdits /\ now <= LastEdit
    /\ NewEntry("user", 0, 0)
    /\ UNCHANGED <<card, away, now, holder, job, history, faults>>

\* findAuditProtection: the entry for which media goes to quarantine.
Protects(id, v) ==
    /\ <<id, v>> \in refs /\ rows[id].before # None
    /\ rows[id].expires # None /\ rows[id].expires > now
Later(i, j) == \/ rows[i].expires > rows[j].expires
               \/ rows[i].expires = rows[j].expires /\ i >= j

\* Under the lock, in a mutation or in the maintenance. updateAuditStatus does
\* not look at the status it overwrites.
Quarantine(v) ==
    /\ holder = None \/ job[Cron].step = "media"
    /\ v \notin away \cup {0, card} /\ \E id \in Ids : <<id, v>> \in refs
    /\ away' = away \cup {v}
    /\ LET S == {id \in Ids : Protects(id, v)}
       IN IF S = {} THEN UNCHANGED <<rows, reopened>>
          ELSE LET id == CHOOSE i \in S : \A j \in S : Later(i, j)
               IN /\ rows' = [rows EXCEPT ![id].status = "available"]
                  /\ Overwrites(id, "available")
    /\ UNCHANGED <<refs, used, card, now, holder, job, marked, cut, faults>>

\* A request or the maintenance ends where it is; the lock lapses.
Die(a) ==
    /\ job[a].kind \in {"revert", "cron"} /\ faults < MaxFaults
    /\ faults' = faults + 1
    /\ cut' = IF job[a].step = "refs" THEN cut \cup {Current(a).id} ELSE cut
    /\ Quit(a)
    /\ UNCHANGED <<table, card, away, now, marked, reopened>>

Tick ==
    /\ now < MaxTime
    /\ now' = now + 1
    /\ UNCHANGED <<table, card, away, holder, job, history, faults>>

-----------------------------------------------------------------------------
PassStep(a) == PassDelete(a) \/ PassDispose(a) \/ PassActivate(a)
               \/ PassRefs(a) \/ PassEnds(a)
RevertStep(a) == Check(a) \/ Apply(a) \/ ApplyRefused(a) \/ MarkReverted(a)
                  \/ PassAgain(a)
CronStep == Media \/ DeleteOld

Next ==
    \/ \E a \in Requests :
        \/ \E id \in Ids : OpenConfirmation(a, id)
        \/ StartRevert(a) \/ Lock(a) \/ RevertStep(a)
    \/ \E a \in Actors : PassStep(a) \/ Die(a)
    \/ StartCron \/ CronStep
    \/ \E v \in Versions : Edit(v) \/ Quarantine(v)
    \/ LogOther \/ Tick

\* Requests and the maintenance go on, and the maintenance, which the scheduler
\* starts for ever, gets the lock some time.
Fairness ==
    /\ \A a \in Actors : WF_vars(PassStep(a))
    /\ \A a \in Requests : WF_vars(RevertStep(a))
    /\ WF_vars(CronStep) /\ SF_vars(StartCron) /\ WF_vars(Tick)

Spec == Init /\ [][Next]_vars /\ Fairness

-----------------------------------------------------------------------------
(* Properties.                                                             *)

\* An entry that was marked as reverted is reverted again only by a request that
\* had looked at it before the mark was there, or when an activation that had read
\* it before, or the quarantine of its media, had taken the mark away
\* (worker.js:490, audit-retention.js:132, media-quarantine.js:121).
RepeatedRevertsAreRaces ==
    [][\A a \in Requests : Apply(a) =>
         job[a].row \notin marked \/ job[a].fresh = "yes"]_vars

\* While an entry can be reverted the media of its snapshots is held back from
\* the purge, although passes over stale readings, disposals and reverts cross;
\* a failure between the two statements of its activation is the one exception
\* (audit-retention.js:132-137).
LiveEntriesHoldMedia ==
    \A id \in Ids :
        (Here(id) /\ Reversible(rows[id]) /\ rows[id].before # None
         /\ rows[id].status \in Revertible
         /\ rows[id].expires # None /\ rows[id].expires > now)
            => \/ {rows[id].before, rows[id].after} \ {None, 0} \subseteq Holding(id)
               \/ id \in cut
               \/ \E a \in Actors : job[a].step = "refs" /\ Current(a).id = id

\* Every entry goes in the end, its snapshots and its hold on media with it, even
\* if the media stages of the maintenance fail every time
\* (security-maintenance.js:52-84).
EntriesGo ==
    \A id \in Ids :
        Here(id) /\ rows[id].created + AuditTTL <= MaxTime
            ~> ~Here(id) /\ Holding(id) = {}
================================================================================
