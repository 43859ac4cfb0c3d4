--------------------------- MODULE MediaQuarantine ---------------------------
(***************************************************************************)
(* What becomes of one media set when no card shows it any more:           *)
(*   reconcileDetachedMedia copies its objects into the private quarantine *)
(*   bucket, takes it out of the site state and deletes the live objects;  *)
(*   recoverIncompleteQuarantineTransitions finishes a transition that     *)
(*   stopped half way;                                                     *)
(*   restoreSnapshotMedia brings it back before an audit entry is reverted;*)
(*   purgeExpiredQuarantine destroys the private copies when the audit     *)
(*   entry that protects them has expired.                                 *)
(* Each transition is recorded in a manifest (table media_quarantine) with *)
(* one row per object (media_quarantine_objects), and its steps touch D1   *)
(* and two R2 buckets one call at a time: a request may die between any    *)
(* two of them, and a call may fail.                                       *)
(*                                                                         *)
(* One job at a time holds the site-state lock: a request that edits or    *)
(* reverts, or the daily maintenance. Time passes in days between jobs.    *)
(* The manifests of other media sets matter only as they take up the limit *)
(* of a recovery run.                                                      *)
(***************************************************************************)
EXTENDS Naturals, FiniteSets, FiniteSetsExt

CONSTANTS
    MaxParts,    \* the set's objects: low, medium and original variant
    MaxManifests, \* bound on the manifests
    MaxAudits,   \* bound on the audit entries
    Retention,   \* REVERT_RETENTION_MS, in days
    MaxTime,     \* bound on the days
    MaxFaults,   \* bound: jobs that die, calls that fail, objects lost
    Losses,      \* whether the cleanup of staged uploads takes live objects
    Reverts      \* whether audit entries are reverted

ASSUME BoundAssumption ==
    /\ MaxParts \in Nat \ {0} /\ MaxManifests \in Nat /\ MaxAudits \in Nat
    /\ Retention \in Nat \ {0} /\ MaxTime \in Nat /\ MaxFaults \in Nat
    /\ Reverts \in BOOLEAN /\ Losses \in BOOLEAN

\* Rows get ids in the order in which they are inserted; 0 is no row.
Parts == 1..MaxParts
Manifests == 1..MaxManifests
Audits == 1..MaxAudits
NoManifest == 0
NoAudit == 0

VARIABLES
    shown,       \* a card of the site state has the set in a media field
    described,   \* the site state has the set's variants and objects
    live,        \* its objects in the live bucket
    private,     \* its objects in the quarantine bucket, by manifest
    manifest,    \* media_quarantine
    copies,      \* media_quarantine_objects by manifest: TRUE if 'copied'
    audit,       \* audit_logs: the rows whose snapshots name the set
    now,
    job,         \* "none", "maintenance", "edit" or "revert"
    pc,          \* the next step of the job
    cur,         \* the manifest it works on
    via,         \* which routine runs the shared steps
    done,        \* objects its current loop is through with
    reverting,   \* the audit entry a revert is about
    faults,      \* history: what went wrong, and the live objects lost to it
    lost,
    held,        \* history: values of shown that an isolate may hold
    late,        \* history: entries that came while a manifest of the set was
                 \* open, or the set away
    mislaid      \* history: a manifest was taken for restored though it was not

site == <<shown, described>>
buckets == <<live, private>>
tables == <<manifest, copies, audit>>
control == <<job, pc, cur, via, done, reverting>>
past == <<held, late, mislaid>>
fate == <<faults, lost, past>>
vars == <<site, buckets, tables, now, control, fate>>

\* Statuses the unique index idx_media_quarantine_active_base covers, those of
\* findActiveManifest, and those of a transition that is to be recovered.
Indexed == {"pending", "copying", "quarantined", "restoring", "purging"}
Open == {"pending", "copying", "quarantined", "restoring", "failed"}
Incomplete == {"pending", "copying", "failed", "restoring"}

Absent == [status |-> "absent", audit |-> NoAudit, purgeAfter |-> 0]
Unwritten == [status |-> "absent", expires |-> 0, needs |-> FALSE,
              kind |-> "sword"]

TypeOK ==
    /\ shown \in BOOLEAN /\ described \in BOOLEAN
    /\ live \subseteq Parts
    /\ private \in [Manifests -> SUBSET Parts]
    /\ manifest \in [Manifests ->
         [status : Indexed \cup {"absent", "failed", "restored", "purged",
                                 "unavailable"},
          audit : Audits \cup {NoAudit}, purgeAfter : Nat]]
    /\ copies \in [Manifests -> UNION {[rows -> BOOLEAN] : rows \in SUBSET Parts}]
    /\ audit \in [Audits ->
         [status : {"absent", "pending", "available", "reverted",
                    "unavailable", "expired"},
          expires : Nat, needs : BOOLEAN, kind : {"sword", "revert"}]]
    /\ now \in 0..MaxTime
    /\ job \in {"none", "maintenance", "edit", "revert"}
    /\ pc \in {"idle", "recover", "recopy", "reconcile", "rows", "copy",
               "unlink", "delete", "settle", "purge", "purging", "restore",
               "describe", "mark", "apply"}
    /\ (job = "none") = (pc = "idle")
    /\ cur \in Manifests \cup {NoManifest}
    /\ via \in {"none", "recover", "reconcile"}
    /\ done \subseteq Parts
    /\ reverting \in Audits \cup {NoAudit}
    /\ faults \in 0..MaxFaults /\ lost \subseteq Parts
    /\ shown \in held /\ held \subseteq BOOLEAN
    /\ late \subseteq Audits /\ mislaid \in BOOLEAN
    \* Rows refer to rows that exist.
    /\ \A m \in Manifests :
         /\ DOMAIN copies[m] # {} => manifest[m].status # "absent"
         /\ manifest[m].audit # NoAudit
               => audit[manifest[m].audit].status # "absent"

\* A published card with one media set.
Init ==
    /\ shown = TRUE /\ described = TRUE
    /\ live = Parts
    /\ private = [m \in Manifests |-> {}]
    /\ manifest = [m \in Manifests |-> Absent]
    /\ copies = [m \in Manifests |-> [p \in {} |-> FALSE]]
    /\ audit = [a \in Audits |-> Unwritten]
    /\ now = 0
    /\ job = "none" /\ pc = "idle"
    /\ cur = NoManifest /\ via = "none" /\ done = {}
    /\ reverting = NoAudit
    /\ faults = 0 /\ lost = {}
    /\ held = {shown} /\ late = {} /\ mislaid = FALSE

-----------------------------------------------------------------------------
(* Buckets. A loop over a manifest's rows goes in the order of live keys.  *)

IsNext(p, rows) == p \in rows /\ \A q \in rows : p <= q

Rows == DOMAIN copies[cur]
Copied == {p \in Rows : copies[cur][p]}

\* The next object to copy: the reconciliation skips the rows marked 'copied',
\* the recovery those whose private copy exists.
PutPrivate(p) ==
    /\ \/ pc = "copy" /\ IsNext(p, Rows \ Copied) /\ p \in live
       \/ /\ pc = "recopy" /\ IsNext(p, Rows \ done)
          /\ p \in private[cur] \cup live
    /\ private' = [private EXCEPT ![cur] = @ \cup {p}]
    /\ UNCHANGED live

PutLive(p) ==
    /\ pc = "restore" /\ cur # NoManifest
    /\ IsNext(p, Rows \ done) /\ p \in private[cur]
    /\ live' = live \cup {p}
    /\ UNCHANGED private

DeletePrivate(p) ==
    /\ pc = "purging"
    /\ IsNext(p, Rows \ done)
    /\ private' = [private EXCEPT ![cur] = @ \ {p}]
    /\ UNCHANGED live

-----------------------------------------------------------------------------
(* Control of a job.                                                       *)

Goto(step) == pc' = step /\ done' = {}
EndJob ==
    /\ job' = "none" /\ Goto("idle")
    /\ cur' = NoManifest /\ via' = "none" /\ reverting' = NoAudit

Keep == UNCHANGED <<job, cur, via, reverting>>
Start(kind, step) ==
    /\ job = "none"
    /\ job' = kind /\ Goto(step)
    /\ UNCHANGED <<cur, via>>

\* What a routine hands over to: reconcile follows recover, purge follows
\* reconcile in the maintenance only.
EndRecover == Goto("reconcile") /\ Keep
EndReconcile ==
    IF job = "maintenance" THEN Goto("purge") /\ Keep ELSE EndJob

\* The request or the maintenance run is gone.
Crash ==
    /\ job # "none"
    /\ faults < MaxFaults
    /\ faults' = faults + 1
    /\ EndJob
    /\ UNCHANGED <<site, buckets, tables, now, lost, past>>

\* A job dies between two calls this module takes as one: a bucket has changed
\* but the row that records it has not, or the site state has changed but there
\* is no audit row and no mark of the revert yet.
CrashUnrecorded ==
    /\ faults < MaxFaults
    /\ faults' = faults + 1
    /\ EndJob
    /\ \/ /\ \E p \in Parts : PutPrivate(p) \/ PutLive(p) \/ DeletePrivate(p)
          /\ UNCHANGED <<shown, held>>
       \/ /\ job = "none" \/ pc = "apply"
          /\ shown' = ~shown /\ held' = held \cup {shown'}
          /\ UNCHANGED buckets
    /\ UNCHANGED <<described, tables, now, lost, late, mislaid>>

\* An upload that was never marked as committed expires, and
\* deleteExpiredStagedMedia deletes its objects although the site uses them
\* (see CardCommit).
LoseObject(p) ==
    /\ Losses
    /\ job = "none"
    /\ p \in live
    /\ faults < MaxFaults
    /\ faults' = faults + 1
    /\ live' = live \ {p} /\ lost' = lost \cup {p}
    /\ UNCHANGED <<site, private, tables, now, control, past>>

Tick ==
    /\ job = "none"
    /\ now < MaxTime
    /\ now' = now + 1
    /\ UNCHANGED <<site, buckets, tables, control, fate>>

-----------------------------------------------------------------------------
(* Tables.                                                                 *)

\* Another row of the set is in the index: an UPDATE or INSERT that would add
\* m to it throws.
Conflicts(m, status) ==
    /\ status \in Indexed
    /\ \E n \in Manifests \ {m} : manifest[n].status \in Indexed

SetStatus(m, status) ==
    /\ ~Conflicts(m, status)
    /\ manifest' = [manifest EXCEPT ![m].status = status]

\* updateObjectStatus
SetCopied(m, p, value) ==
    copies' = [copies EXCEPT ![m] = [@ EXCEPT ![p] = value]]

\* updateAuditStatus, for the audit entry a manifest may have.
AuditSet(a, status) ==
    IF a = NoAudit THEN audit ELSE [audit EXCEPT ![a].status = status]

\* findActiveManifest
OpenManifests == {m \in Manifests : manifest[m].status \in Open}

\* findAuditProtection: the entry that expires last, the newest of those,
\* reverted or not.
Protecting == {a \in Audits : /\ audit[a].status # "absent"
                              /\ audit[a].expires > now}
\* Mutant: the entry that expires first.
Protections_First ==
    {a \in Protecting :
       \A b \in Protecting \ {a} :
          \/ audit[b].expires > audit[a].expires
          \/ audit[b].expires = audit[a].expires /\ b > a}

Protections ==
    {a \in Protecting :
       \A b \in Protecting \ {a} :
          \/ audit[b].expires < audit[a].expires
          \/ audit[b].expires = audit[a].expires /\ b < a}

FreeAudit(a) == /\ audit[a].status = "absent"
                /\ \A b \in Audits : b < a => audit[b].status # "absent"
FreeManifest(m) ==
    /\ manifest[m].status = "absent"
    /\ \A n \in Manifests : n < m => manifest[n].status # "absent"

\* writeAuditLog, for an edit.
NewAudit(needs) ==
    \E a \in Audits :
        /\ FreeAudit(a)
        /\ audit' = [audit EXCEPT ![a] =
             [status |-> "pending", expires |-> now + Retention,
              needs |-> needs, kind |-> "sword"]]
        /\ late' = IF described /\ OpenManifests = {} THEN late ELSE late \cup {a}

-----------------------------------------------------------------------------
(* Requests.                                                               *)

\* An edit whose audit row names the set before or after it, and needs it to be
\* reverted in the first case.
EditTo(before, after) ==
    /\ shown' = after /\ held' = held \cup {after}
    /\ IF before \/ after THEN NewAudit(before) ELSE UNCHANGED <<audit, late>>
    /\ UNCHANGED <<described, buckets, manifest, copies, now, reverting,
                   faults, lost, mislaid>>

\* The editor's commit route reads the state afresh, takes only keys that the state
\* describes, and ends there.
CommitEdit ==
    /\ job = "none"
    /\ \E after \in BOOLEAN :
          /\ shown \/ after
          /\ after => described
          /\ EditTo(shown, after)
    /\ UNCHANGED <<job, pc, cur, via, done>>

\* The older routes start from the card that their isolate holds, and take every
\* key: a set that nothing describes has a descriptor made up for it. They go on.
RouteEdit ==
    /\ \E before \in held, after \in BOOLEAN : EditTo(before, after)
    /\ Start("edit", "recover")

\* authorizeAuditRevertRequest and assertAuditNotAlreadyReverted
Revertible(a) ==
    /\ audit[a].kind = "sword"
    /\ audit[a].status \in {"pending", "available"}
    /\ now < audit[a].expires

BeginRevert(a) ==
    /\ Reverts
    /\ Revertible(a)
    /\ Start("revert", IF audit[a].needs THEN "restore" ELSE "apply")
    /\ reverting' = a
    /\ UNCHANGED <<site, buckets, tables, now, fate>>

\* restoreSnapshotMedia: a set the state still describes is left alone, else
\* the open manifest is looked up.
FindCopies ==
    /\ pc = "restore" /\ cur = NoManifest
    /\ IF described THEN Goto("apply") /\ Keep
       ELSE \/ \E m \in OpenManifests :
                  /\ manifest[m].purgeAfter > now
                  /\ cur' = m /\ UNCHANGED <<job, pc, via, done, reverting>>
            \/ /\ \A m \in OpenManifests : manifest[m].purgeAfter <= now
               /\ EndJob
    /\ UNCHANGED <<site, buckets, tables, now, fate>>

\* A missing private copy would end the request here. An open manifest of a set
\* that is out of the site state never lacks one: else the job would be stuck.
RestoreObject(p) ==
    /\ PutLive(p)
    /\ SetCopied(cur, p, FALSE)
    /\ done' = done \cup {p}
    /\ Keep /\ UNCHANGED pc
    /\ UNCHANGED <<site, manifest, audit, now, fate>>

RestoreState ==
    /\ pc = "restore" /\ cur # NoManifest
    /\ done = Rows
    /\ described' = TRUE
    /\ Goto("mark") /\ Keep
    /\ UNCHANGED <<shown, buckets, tables, now, fate>>

RestoreMark ==
    /\ pc = "mark"
    /\ SetStatus(cur, "restored")
    /\ Goto("apply") /\ Keep
    /\ UNCHANGED <<site, buckets, copies, audit, now, fate>>

\* The entry is marked as reverted. The new entry names the set if the card did
\* before the revert, or does now.
MarkReverted(a, names) ==
    IF names
    THEN \E b \in Audits :
           /\ FreeAudit(b)
           /\ audit' = [audit EXCEPT
                ![a].status = "reverted",
                ![b] = [status |-> "pending", expires |-> now + Retention,
                        needs |-> FALSE, kind |-> "revert"]]
    ELSE audit' = [audit EXCEPT ![a].status = "reverted"]

\* handleAuditRevert restores the whole snapshot, or one field of it in the card
\* that its isolate holds; it may also reject the request, which then ends without
\* recovery.
ApplyRevert ==
    /\ pc = "apply"
    /\ \/ \E before \in held :
             /\ shown' \in {before, audit[reverting].needs}
             /\ MarkReverted(reverting, before \/ shown')
             /\ Goto("recover") /\ Keep
       \/ EndJob /\ UNCHANGED <<shown, audit>>
    /\ held' = held \cup {shown'}
    /\ UNCHANGED <<described, buckets, manifest, copies, now, faults, lost, late,
                   mislaid>>

BeginMaintenance ==
    /\ Start("maintenance", "recover")
    /\ UNCHANGED <<site, buckets, tables, now, reverting, fate>>

-----------------------------------------------------------------------------
(* recoverIncompleteQuarantineTransitions                                  *)

ToRecover == {m \in Manifests : manifest[m].status \in Incomplete}

\* Nothing to do, or the limit of the run (two in a request, eight in the
\* maintenance) goes to the manifests of other media sets.
RecoverNone ==
    /\ pc = "recover"
    /\ EndRecover
    /\ UNCHANGED <<site, buckets, tables, now, fate>>

\* Mutant: whether a card shows the set is not looked at.
Recover_AnyMedia(m) ==
    /\ pc = "recover"
    /\ m \in ToRecover
    /\ Goto("recopy")
    /\ cur' = m /\ via' = "recover"
    /\ UNCHANGED <<site, buckets, tables, now, fate, job, reverting>>

Recover(m) ==
    /\ pc = "recover"
    /\ m \in ToRecover
    /\ \/ /\ shown
          /\ SetStatus(m, "restored")
          /\ UNCHANGED <<job, pc, cur, via, done, reverting>>
          /\ mislaid' = (mislaid \/ ~described)
       \/ /\ ~shown
          /\ Goto("recopy")
          /\ cur' = m /\ via' = "recover"
          /\ UNCHANGED <<manifest, job, reverting, mislaid>>
    /\ UNCHANGED <<site, buckets, copies, audit, now, faults, lost, held, late>>

RecoverObject(p) ==
    /\ pc = "recopy" /\ PutPrivate(p)
    /\ SetCopied(cur, p, TRUE)
    /\ done' = done \cup {p}
    /\ Keep /\ UNCHANGED pc
    /\ UNCHANGED <<site, manifest, audit, now, fate>>

\* Both copies are gone.
RecoverMissing(p) ==
    /\ pc = "recopy"
    /\ IsNext(p, Rows \ done)
    /\ p \notin private[cur] \cup live
    /\ SetStatus(cur, "unavailable")
    /\ audit' = AuditSet(manifest[cur].audit, "unavailable")
    /\ Goto("recover") /\ Keep
    /\ UNCHANGED <<site, buckets, copies, now, fate>>

RecoverCopied ==
    /\ pc = "recopy"
    /\ done = Rows
    /\ Goto("unlink") /\ Keep
    /\ UNCHANGED <<site, buckets, tables, now, fate>>

-----------------------------------------------------------------------------
(* reconcileDetachedMedia                                                  *)

Detached == described /\ ~shown

\* A set that is not detached, or was uploaded within the last 15 minutes. The
\* bound on the manifests ends a job here, too.
ReconcileNone ==
    /\ pc = "reconcile"
    /\ \/ ~Detached
       \/ now = 0
       \/ OpenManifests = {} /\ ~\E m \in Manifests : FreeManifest(m)
    /\ EndReconcile
    /\ UNCHANGED <<site, buckets, tables, now, fate>>

\* getUnprotectedPurgeAfter: the maintenance counts from the upload.
UnprotectedDeadline ==
    IF job = "maintenance" THEN Max({now, Retention}) ELSE now + Retention

\* A set with no open manifest gets one; the INSERT fails while another one is
\* being purged.
NewManifest(m) ==
    /\ pc = "reconcile" /\ Detached
    /\ OpenManifests = {}
    /\ FreeManifest(m)
    /\ IF Conflicts(m, "pending") THEN EndJob /\ UNCHANGED manifest
       ELSE /\ \/ \E a \in Protections :
                    manifest' = [manifest EXCEPT ![m] =
                      [status |-> "pending", audit |-> a,
                       purgeAfter |-> audit[a].expires]]
               \/ /\ Protections = {}
                  /\ manifest' = [manifest EXCEPT ![m] =
                      [status |-> "pending", audit |-> NoAudit,
                       purgeAfter |-> UnprotectedDeadline]]
            /\ Goto("rows") /\ cur' = m /\ via' = "reconcile"
            /\ UNCHANGED <<job, reverting>>
    /\ UNCHANGED <<site, buckets, copies, audit, now, fate>>

InsertRow(p) ==
    /\ pc = "rows"
    /\ IsNext(p, Parts \ Rows)
    /\ copies' = [copies EXCEPT ![cur] =
         [q \in DOMAIN @ \cup {p} |-> q # p /\ @[q]]]
    /\ Keep /\ UNCHANGED <<pc, done>>
    /\ UNCHANGED <<site, buckets, manifest, audit, now, fate>>

\* Mutant: a manifest found open is left to the recovery.
BeginCopy_NewOnly(m) ==
    /\ \/ /\ pc = "rows" /\ m = cur /\ DOMAIN copies[m] = Parts
          /\ SetStatus(m, "copying")
          /\ Goto("copy") /\ via' = "reconcile" /\ UNCHANGED <<job, reverting>>
          /\ cur' = m
       \/ /\ pc = "reconcile" /\ Detached /\ m \in OpenManifests
          /\ EndReconcile
          /\ UNCHANGED manifest
    /\ UNCHANGED <<site, buckets, copies, audit, now, fate>>

\* completeQuarantineManifest; the error of a failing call marks the manifest.
\* Nothing completes the rows of a manifest found open.
BeginCopy(m) ==
    /\ \/ pc = "rows" /\ m = cur /\ DOMAIN copies[m] = Parts
       \/ pc = "reconcile" /\ Detached /\ m \in OpenManifests
    /\ SetStatus(m, "copying")
    /\ Goto("copy") /\ cur' = m /\ via' = "reconcile"
    /\ UNCHANGED <<site, buckets, copies, audit, now, fate, job, reverting>>

CopyRefused(m) ==
    /\ pc = "reconcile" /\ Detached /\ m \in OpenManifests
    /\ Conflicts(m, "copying")
    /\ SetStatus(m, "failed")
    /\ EndJob
    /\ UNCHANGED <<site, buckets, copies, audit, now, fate>>

CopyObject(p) ==
    /\ pc = "copy" /\ PutPrivate(p)
    /\ SetCopied(cur, p, TRUE)
    /\ Keep /\ UNCHANGED <<pc, done>>
    /\ UNCHANGED <<site, manifest, audit, now, fate>>

CopyMissing(p) ==
    /\ pc = "copy"
    /\ IsNext(p, Rows \ Copied)
    /\ p \notin live
    /\ audit' = AuditSet(manifest[cur].audit, "unavailable")
    /\ SetStatus(cur, "failed")
    /\ EndJob
    /\ UNCHANGED <<site, buckets, copies, now, fate>>

\* A put fails: the manifest is marked and the error thrown.
CopyFails ==
    /\ pc \in {"copy", "recopy"}
    /\ faults < MaxFaults
    /\ faults' = faults + 1
    /\ SetStatus(cur, "failed")
    /\ EndJob
    /\ UNCHANGED <<site, buckets, copies, audit, now, lost, past>>

\* Mutant: the copies are not awaited.
AllCopied_NotAwaited ==
    /\ pc = "copy"
    /\ Goto("unlink") /\ Keep
    /\ UNCHANGED <<site, buckets, tables, now, fate>>

AllCopied ==
    /\ pc = "copy"
    /\ Copied = Rows
    /\ Goto("unlink") /\ Keep
    /\ UNCHANGED <<site, buckets, tables, now, fate>>

-----------------------------------------------------------------------------
(* The steps recovery and reconciliation share.                            *)

Unlink ==
    /\ pc = "unlink"
    /\ described' = FALSE
    /\ Goto("delete") /\ Keep
    /\ UNCHANGED <<shown, buckets, tables, now, fate>>

DeleteLive(p) ==
    /\ pc = "delete"
    /\ IsNext(p, Rows \cap live)
    /\ live' = live \ {p}
    /\ Keep /\ UNCHANGED <<pc, done>>
    /\ UNCHANGED <<site, private, tables, now, fate>>

Settle ==
    /\ pc = "delete"
    /\ Rows \cap live = {}
    /\ IF Conflicts(cur, "quarantined")
       THEN /\ IF via = "recover" THEN UNCHANGED manifest
                                  ELSE SetStatus(cur, "failed")
            /\ EndJob
            /\ UNCHANGED audit
       ELSE /\ SetStatus(cur, "quarantined")
            /\ audit' = AuditSet(manifest[cur].audit, "available")
            /\ IF via = "recover" THEN Goto("recover") /\ Keep
                                  ELSE EndReconcile
    /\ UNCHANGED <<site, buckets, copies, now, fate>>

-----------------------------------------------------------------------------
(* purgeExpiredQuarantine                                                  *)

Expired == {m \in Manifests : /\ manifest[m].status \notin {"absent", "purged"}
                              /\ manifest[m].purgeAfter <= now}

PurgeNone ==
    /\ pc = "purge"
    /\ Expired = {}
    /\ EndJob
    /\ UNCHANGED <<site, buckets, tables, now, fate>>

\* The manifest that expired first. A restored one enters the index again.
BeginPurge(m) ==
    /\ pc = "purge"
    /\ m \in Expired
    /\ \A n \in Expired : manifest[m].purgeAfter <= manifest[n].purgeAfter
    /\ IF Conflicts(m, "purging") THEN EndJob /\ UNCHANGED manifest
       ELSE /\ SetStatus(m, "purging")
            /\ Goto("purging") /\ cur' = m
            /\ UNCHANGED <<job, via, reverting>>
    /\ UNCHANGED <<site, buckets, copies, audit, now, fate>>

PurgeObject(p) ==
    /\ DeletePrivate(p)
    /\ SetCopied(cur, p, FALSE)
    /\ done' = done \cup {p}
    /\ Keep /\ UNCHANGED pc
    /\ UNCHANGED <<site, manifest, audit, now, fate>>

\* Mutant: the manifest stays 'purging'.
EndPurge_KeepStatus ==
    /\ pc = "purging"
    /\ done = Rows
    /\ audit' = AuditSet(manifest[cur].audit, "expired")
    /\ Goto("purge") /\ Keep
    /\ UNCHANGED <<site, buckets, manifest, copies, now, fate>>

EndPurge ==
    /\ pc = "purging"
    /\ done = Rows
    /\ SetStatus(cur, "purged")
    /\ audit' = AuditSet(manifest[cur].audit, "expired")
    /\ Goto("purge") /\ Keep
    /\ UNCHANGED <<site, buckets, copies, now, fate>>

-----------------------------------------------------------------------------
Requests == CommitEdit \/ RouteEdit \/ (\E a \in Audits : BeginRevert(a)) \/ Tick
Begins ==
    Requests \/ BeginMaintenance \/ Crash \/ CrashUnrecorded
    \/ (\E p \in Parts : LoseObject(p))

RestoreStep ==
    \/ FindCopies \/ RestoreState \/ RestoreMark
    \/ ApplyRevert
    \/ \E p \in Parts : RestoreObject(p)
RecoverStep ==
    \/ RecoverNone \/ RecoverCopied
    \/ \E m \in Manifests : Recover(m)
    \/ \E p \in Parts : RecoverObject(p) \/ RecoverMissing(p)
ReconcileStep ==
    \/ ReconcileNone \/ AllCopied
    \/ \E m \in Manifests : NewManifest(m) \/ BeginCopy(m) \/ CopyRefused(m)
    \/ \E p \in Parts : InsertRow(p) \/ CopyObject(p) \/ CopyMissing(p)
SharedStep == Unlink \/ Settle \/ \E p \in Parts : DeleteLive(p)
PurgeStep ==
    \/ PurgeNone \/ EndPurge
    \/ \E m \in Manifests : BeginPurge(m)
    \/ \E p \in Parts : PurgeObject(p)

JobStep ==
    RestoreStep \/ RecoverStep \/ ReconcileStep \/ SharedStep \/ PurgeStep

Next == Begins \/ CopyFails \/ JobStep

Spec == Init /\ [][Next]_vars

\* A job's steps go on until it ends or dies, and the maintenance runs daily.
FairSpec == Spec /\ WF_vars(JobStep) /\ SF_vars(BeginMaintenance)

-----------------------------------------------------------------------------
(* Properties.                                                             *)

\* What a card shows is there, and stays: no transition, whether it stops half way,
\* is recovered, reverted or started again, takes an object of it or its place in
\* the site state. Only an older route may show what is away (worker.js:2681).
ShownMediaIsComplete ==
    /\ [](shown /\ described => Parts \ lost \subseteq live)
    /\ [][shown /\ described => described']_vars

Stored == live \cup UNION {private[m] : m \in Manifests}

\* README: "Detached or replaced media is copied to the private quarantine
\* bucket before the live copy is removed": until a purge begins, each object
\* is in one of the buckets.
CopiedBeforeRemoved ==
    (\A m \in Manifests : manifest[m].status \notin {"purging", "purged"})
        => Parts \ lost \subseteq Stored

NeedsMedia(a) == Revertible(a) /\ audit[a].needs

Restorable ==
    \/ described
    \/ \E m \in OpenManifests : /\ manifest[m].purgeAfter > now
                                /\ DOMAIN copies[m] \subseteq private[m]
                                /\ live \cup private[m] = Parts

\* README: "Revertible media and complete audit snapshots expire exactly 14
\* days after the original audit action": as long as an entry can be reverted,
\* its media can be restored, wherever jobs have died or calls failed. That is so
\* of an entry that came before the manifest of its set; one that came while a
\* manifest was open is bound to the deadline of that manifest
\* (media-quarantine.js:60). And it is so while no upload's objects were cleaned up
\* and no recovery took a set for restored that an older route had shown while it
\* was away (media-transition-recovery.js:28).
RevertFindsMedia ==
    lost = {} /\ ~mislaid
        => \A a \in Audits \ late : NeedsMedia(a) => Restorable

\* Without reverts and without failures, that is so.
ExpiredIsPurgedIfUndisturbed ==
    \A m \in Manifests : m \in Expired ~> m \notin Expired \/ faults > 0

\* Media that stays detached leaves the site state, though one job may stop
\* half way and one call fail.
DetachedIsUnlinked == Detached /\ now > 0 ~> ~Detached
=============================================================================
