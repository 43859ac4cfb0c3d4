-------------------------- MODULE MediaQuarantineProofs --------------------------
(***************************************************************************)
(* What holds of detached media for any number of objects, manifests,      *)
(* audit entries, days and faults.                                         *)
(*                                                                         *)
(* The inductive invariant follows the objects. As long as the site state  *)
(* describes the set, all of it is live; from then on an object is live or *)
(* has a row in the one manifest that is open. Live objects are deleted    *)
(* only for rows whose private copy was made, and no copy is deleted       *)
(* before its manifest is being purged.                                    *)
(*                                                                         *)
(* A set that is out of the site state has private copies for all rows of  *)
(* its open manifest, and that manifest lasts as long as any entry that    *)
(* came before it can be reverted, whatever has died or failed since.      *)
(***************************************************************************)
EXTENDS MediaQuarantine, WellFoundedInduction, TLAPS

Moving == {"recopy", "rows", "copy", "unlink", "delete"}

\* What a job takes objects away for is detached and has an open manifest.
JobsMoveDetached ==
    /\ pc = "idle" => cur = NoManifest
    /\ pc \in Moving => cur \in OpenManifests /\ ~shown
    /\ pc = "delete" => ~described
    /\ pc \in {"unlink", "delete"} => Rows \subseteq private[cur]
    /\ pc = "recopy" => done \subseteq private[cur]
    /\ pc = "restore" => done \subseteq live
    /\ pc = "restore" /\ cur # NoManifest => cur \in OpenManifests /\ ~described
    /\ pc = "mark" => cur \in OpenManifests /\ described
    /\ pc = "purging" => cur \in Manifests /\ manifest[cur].status = "purging"
    /\ pc \in {"restore", "mark", "apply"} =>
         reverting \in Audits /\ audit[reverting].status # "absent"

OneIsOpen == \A m, n \in OpenManifests : m = n

\* A row that says "copied" is right until its manifest is purged.
CopiedIsPrivate ==
    \A m \in Manifests : \A p \in DOMAIN copies[m] :
        copies[m][p] => \/ p \in private[m]
                        \/ manifest[m].status \in {"purging", "purged"}

\* Where the set's objects are.
ObjectsAreKept ==
    /\ described => Parts \ lost \subseteq live
    /\ ~described => \A m \in OpenManifests :
         Parts \ lost \subseteq live \cup DOMAIN copies[m]

\* No entry expires later than one that is made now.
EntriesExpire ==
    \A a \in Audits : /\ audit[a].expires <= now + Retention
                      /\ audit[a].status = "absent" => ~audit[a].needs

\* Rows are added and copied for a set that is described; once it is not, each row of
\* the open manifest has its private copy.
RowsArePrivate ==
    /\ pc \in {"rows", "copy"} => described
    /\ ~described => \A m \in OpenManifests : DOMAIN copies[m] \subseteq private[m]

\* An entry that came before the open manifest does not outlast it, and a set that such
\* an entry needs is described or has one.
EntriesAreCovered ==
    \A a \in Audits \ late : audit[a].needs /\ audit[a].expires > now =>
        /\ \A m \in OpenManifests : manifest[m].purgeAfter >= audit[a].expires
        /\ lost = {} /\ ~mislaid => described \/ OpenManifests # {}

IInv ==
    /\ TypeOK /\ JobsMoveDetached /\ OneIsOpen /\ CopiedIsPrivate /\ ObjectsAreKept
    /\ RowsArePrivate /\ CopiedBeforeRemoved /\ EntriesExpire /\ EntriesAreCovered
USE BoundAssumption

-----------------------------------------------------------------------------
(* Numbers.                                                                *)

\* A set of numbers that is not empty has a least one.
LEMMA LeastOfNaturals ==
    ASSUME NEW S \in SUBSET Nat, S # {}
    PROVE  \E m \in S : \A n \in S : m <= n
<1> DEFINE less == {p \in Nat \X Nat : p[1] < p[2]}
<1>1. IsWellFoundedOn(less, Nat)
  BY NatLessThanWellFounded DEF OpToRel
<1> HIDE DEF less
<1>2. PICK m \in S : \A n \in S : <<n, m>> \notin less
  BY <1>1, WFMin
<1>3. ASSUME NEW n \in S PROVE m <= n
  <2>1. <<n, m>> \in Nat \X Nat /\ <<n, m>>[1] = n /\ <<n, m>>[2] = m
    OBVIOUS
  <2>2. ~(n < m)
    BY <1>2, <2>1 DEF less
  <2> QED
    BY <2>2
<1> QED
  BY <1>3

\* The deadline of media that no entry protects is a day.
LEMMA DeadlineTypes == TypeOK => UnprotectedDeadline \in Nat
<1> SUFFICES ASSUME TypeOK PROVE UnprotectedDeadline \in Nat
  OBVIOUS
<1>1. now \in Nat /\ Retention \in Nat
  BY DEF TypeOK
<1>2. \E x \in {now, Retention} : \A y \in {now, Retention} : x >= y
  <2>1. CASE now >= Retention
    BY <1>1, <2>1
  <2>2. CASE Retention >= now
    BY <1>1, <2>2
  <2> QED
    BY <1>1, <2>1, <2>2
<1>3. Max({now, Retention}) \in {now, Retention}
  BY <1>2 DEF Max
<1> QED
  BY <1>1, <1>3 DEF UnprotectedDeadline

\* If some entry protects the media, one of them expires last.
LEMMA LatestProtects ==
    ASSUME TypeOK, EntriesExpire
    PROVE  /\ Protections \subseteq Protecting
           /\ \A a \in Protections : \A b \in Protecting :
                audit[b].expires <= audit[a].expires
           /\ Protections = {} => Protecting = {}
<1>1. \A a \in Audits : audit[a].expires \in Nat /\ a \in Nat /\ a <= MaxAudits
  BY DEF TypeOK, Audits
<1>2. ASSUME NEW a \in Protections, NEW b \in Protecting
      PROVE  audit[b].expires <= audit[a].expires
  BY <1>1 DEF Protections, Protecting
<1>3. ASSUME Protecting # {} PROVE Protections # {}
  <2> DEFINE last == now + Retention
  <2>1. \A a \in Protecting : a \in Audits /\ audit[a].expires <= last /\ last \in Nat
    BY DEF EntriesExpire, Protecting, TypeOK
  <2> DEFINE T == {last - audit[a].expires : a \in Protecting}
  <2>2. T \in SUBSET Nat /\ T # {}
    BY <1>1, <1>3, <2>1
  <2> HIDE DEF T, last
  <2>3. PICK t \in T : \A n \in T : t <= n
    BY <2>2, LeastOfNaturals
  <2>4. PICK c \in Protecting : t = last - audit[c].expires
    BY DEF T
  <2>5. ASSUME NEW b \in Protecting PROVE audit[b].expires <= audit[c].expires
    <3>1. last - audit[b].expires \in T
      BY DEF T
    <3>2. last - audit[c].expires <= last - audit[b].expires
      BY <2>3, <2>4, <3>1
    <3>3. last \in Nat /\ audit[b].expires \in Nat /\ audit[c].expires \in Nat
      BY <1>1, <2>1
    <3> QED
      BY <3>2, <3>3
  <2> DEFINE U == {MaxAudits - a : a \in {b \in Protecting :
                                            audit[b].expires = audit[c].expires}}
  <2>6. U \in SUBSET Nat /\ U # {}
    BY <1>1, <2>1
  <2> HIDE DEF U
  <2>7. PICK u \in U : \A n \in U : u <= n
    BY <2>6, LeastOfNaturals
  <2>8. PICK a \in Protecting : audit[a].expires = audit[c].expires /\ u = MaxAudits - a
    BY DEF U
  <2>9. ASSUME NEW b \in Protecting \ {a}
        PROVE  \/ audit[b].expires < audit[a].expires
               \/ audit[b].expires = audit[a].expires /\ b < a
    <3>1. audit[b].expires <= audit[a].expires
      BY <2>5, <2>8
    <3>2. ASSUME audit[b].expires = audit[a].expires PROVE b < a
      <4>1. MaxAudits - b \in U
        BY <2>8, <3>2 DEF U
      <4>2. MaxAudits - a <= MaxAudits - b
        BY <2>7, <2>8, <4>1
      <4>3. a \in Nat /\ b \in Nat /\ MaxAudits \in Nat
        BY <1>1, <2>1
      <4> QED
        BY <4>2, <4>3
    <3>3. audit[a].expires \in Nat /\ audit[b].expires \in Nat
      BY <1>1, <2>1
    <3> QED
      BY <3>1, <3>2, <3>3
  <2> QED
    BY <2>9 DEF Protections
<1> QED
  BY <1>2, <1>3 DEF Protections

-----------------------------------------------------------------------------
(* Rows.                                                                   *)

\* The rows of a manifest are of objects of the set.
LEMMA RowTypes ==
    ASSUME TypeOK, NEW m \in Manifests
    PROVE  /\ DOMAIN copies[m] \subseteq Parts
           /\ copies[m] \in [DOMAIN copies[m] -> BOOLEAN]
  BY DEF TypeOK

\* A change of one row changes no other.
LEMMA RowSet ==
    ASSUME TypeOK, cur \in Manifests, NEW p \in Rows, NEW value \in BOOLEAN,
           SetCopied(cur, p, value)
    PROVE  /\ copies' \in [Manifests -> UNION {[rows -> BOOLEAN] : rows \in SUBSET Parts}]
           /\ \A m \in Manifests :
                /\ DOMAIN copies'[m] = DOMAIN copies[m]
                /\ \A q \in DOMAIN copies[m] : copies'[m][q] =
                     IF m = cur /\ q = p THEN value ELSE copies[m][q]
<1>1. DOMAIN copies[cur] \subseteq Parts /\ copies[cur] \in [DOMAIN copies[cur] -> BOOLEAN]
  BY RowTypes
<1>2. /\ DOMAIN copies'[cur] = DOMAIN copies[cur]
      /\ copies'[cur] \in [DOMAIN copies[cur] -> BOOLEAN]
      /\ \A q \in DOMAIN copies[cur] :
           copies'[cur][q] = IF q = p THEN value ELSE copies[cur][q]
  BY <1>1 DEF SetCopied, Rows, TypeOK
<1>3. \A m \in Manifests : m # cur => copies'[m] = copies[m]
  BY DEF SetCopied, TypeOK
<1>4. copies'[cur] \in UNION {[rows -> BOOLEAN] : rows \in SUBSET Parts}
  BY <1>1, <1>2
<1>5. copies' \in [Manifests -> UNION {[rows -> BOOLEAN] : rows \in SUBSET Parts}]
  BY <1>3, <1>4 DEF SetCopied, TypeOK
<1> QED
  BY <1>2, <1>3, <1>5

\* A row that is inserted says that its object is not copied.
LEMMA RowInserted ==
    ASSUME TypeOK, cur \in Manifests, NEW p \in Parts, InsertRow(p)
    PROVE  /\ copies' \in [Manifests -> UNION {[rows -> BOOLEAN] : rows \in SUBSET Parts}]
           /\ \A m \in Manifests :
                /\ DOMAIN copies[m] \subseteq DOMAIN copies'[m]
                /\ m # cur => copies'[m] = copies[m]
                /\ \A q \in DOMAIN copies'[m] :
                     copies'[m][q] => q \in DOMAIN copies[m] /\ copies[m][q]
<1>1. DOMAIN copies[cur] \subseteq Parts /\ copies[cur] \in [DOMAIN copies[cur] -> BOOLEAN]
  BY RowTypes
<1> DEFINE rows == DOMAIN copies[cur] \cup {p}
           new == [q \in rows |-> q # p /\ copies[cur][q]]
<1>2. copies' = [copies EXCEPT ![cur] = new]
  BY DEF InsertRow
<1>3. new \in [rows -> BOOLEAN] /\ rows \in SUBSET Parts
  BY <1>1
<1>4. DOMAIN new = rows /\ \A q \in rows : new[q] => q # p /\ copies[cur][q]
  OBVIOUS
<1> HIDE DEF new
<1>5. copies'[cur] = new /\ \A m \in Manifests : m # cur => copies'[m] = copies[m]
  BY <1>2 DEF TypeOK
<1>6. new \in UNION {[some -> BOOLEAN] : some \in SUBSET Parts}
  BY <1>3
<1>7. copies' \in [Manifests -> UNION {[some -> BOOLEAN] : some \in SUBSET Parts}]
  BY <1>2, <1>6 DEF TypeOK
<1>8. \A q \in DOMAIN copies'[cur] : copies'[cur][q] => q \in DOMAIN copies[cur] /\ copies[cur][q]
  BY <1>4, <1>5
<1> QED
  BY <1>4, <1>5, <1>7, <1>8
-----------------------------------------------------------------------------
(* What a step may do to rows, objects and manifests.                      *)

\* Rows are never taken away; only the transition that makes them adds one, and one
\* says "copied" only when the private object is there.
LEMMA RowMoves ==
    ASSUME IInv, [Next]_vars
    PROVE  /\ copies' \in [Manifests -> UNION {[rows -> BOOLEAN] : rows \in SUBSET Parts}]
           /\ \A m \in Manifests :
                /\ DOMAIN copies[m] \subseteq DOMAIN copies'[m]
                /\ DOMAIN copies'[m] # DOMAIN copies[m] =>
                     m = cur /\ cur' = cur /\ pc = "rows" /\ pc' = "rows"
                /\ \A q \in DOMAIN copies'[m] : copies'[m][q] =>
                     \/ q \in DOMAIN copies[m] /\ copies[m][q]
                     \/ m = cur /\ q \in private'[m]
<1> DEFINE Goal(rowsOf, copy) ==
      /\ copy \in [Manifests -> UNION {[rows -> BOOLEAN] : rows \in SUBSET Parts}]
      /\ \A m \in Manifests :
           /\ DOMAIN rowsOf[m] \subseteq DOMAIN copy[m]
           /\ DOMAIN copy[m] # DOMAIN rowsOf[m] =>
                m = cur /\ cur' = cur /\ pc = "rows" /\ pc' = "rows"
           /\ \A q \in DOMAIN copy[m] : copy[m][q] =>
                \/ q \in DOMAIN rowsOf[m] /\ rowsOf[m][q]
                \/ m = cur /\ q \in private'[m]
<1>1. ASSUME NEW p \in Parts, RecoverObject(p) \/ CopyObject(p) PROVE Goal(copies, copies')
  <2>1. cur \in Manifests /\ p \in Rows /\ SetCopied(cur, p, TRUE)
    BY <1>1 DEF RecoverObject, CopyObject, PutPrivate, IsNext, Copied, IInv,
       JobsMoveDetached, Moving, OpenManifests
  <2>2. p \in private'[cur]
    <3>1. private' = [private EXCEPT ![cur] = @ \cup {p}]
      BY <1>1 DEF RecoverObject, CopyObject, PutPrivate
    <3>2. private \in [Manifests -> SUBSET Parts]
      BY DEF IInv, TypeOK
    <3> QED
      BY <2>1, <3>1, <3>2
  <2>3. /\ copies' \in [Manifests -> UNION {[rows -> BOOLEAN] : rows \in SUBSET Parts}]
        /\ \A m \in Manifests :
             /\ DOMAIN copies'[m] = DOMAIN copies[m]
             /\ \A q \in DOMAIN copies[m] : copies'[m][q] =
                  IF m = cur /\ q = p THEN TRUE ELSE copies[m][q]
    BY <2>1, RowSet DEF IInv
  <2>4. ASSUME NEW m \in Manifests, NEW q \in DOMAIN copies'[m], copies'[m][q]
        PROVE  (q \in DOMAIN copies[m] /\ copies[m][q]) \/ (m = cur /\ q \in private'[m])
    BY <2>2, <2>3, <2>4
  <2> QED
    BY <2>3, <2>4
<1>2. ASSUME NEW p \in Parts, RestoreObject(p) \/ PurgeObject(p) PROVE Goal(copies, copies')
  <2>1. cur \in Manifests /\ p \in Rows /\ SetCopied(cur, p, FALSE)
    BY <1>2 DEF RestoreObject, PurgeObject, PutLive, DeletePrivate, IsNext, IInv, TypeOK,
       JobsMoveDetached, OpenManifests
  <2> QED
    BY <2>1, RowSet DEF IInv
<1>3. ASSUME NEW p \in Parts, InsertRow(p) PROVE Goal(copies, copies')
  <2>1. cur \in Manifests /\ cur' = cur /\ pc = "rows" /\ pc' = "rows"
    BY <1>3 DEF InsertRow, Keep, IInv, JobsMoveDetached, Moving, OpenManifests
  <2> QED
    BY <1>3, <2>1, RowInserted DEF IInv
<1>4. ASSUME UNCHANGED copies PROVE Goal(copies, copies')
  BY <1>4 DEF IInv, TypeOK
<1>5. \/ UNCHANGED copies
      \/ \E p \in Parts : \/ RecoverObject(p) \/ CopyObject(p) \/ RestoreObject(p)
                          \/ PurgeObject(p) \/ InsertRow(p)
  BY DEF Next, Begins, Requests, JobStep, RestoreStep, RecoverStep, ReconcileStep,
     SharedStep, PurgeStep, CommitEdit, RouteEdit, EditTo, BeginRevert, Tick, BeginMaintenance, Crash,
     CrashUnrecorded, LoseObject, CopyFails, FindCopies, RestoreState, RestoreMark,
     ApplyRevert, RecoverNone, RecoverCopied, Recover, RecoverMissing, ReconcileNone,
     AllCopied, NewManifest, BeginCopy, CopyRefused, CopyMissing, Unlink, Settle,
     DeleteLive, PurgeNone, EndPurge, BeginPurge, vars, tables
<1> HIDE DEF Goal
<1>6. Goal(copies, copies')
  BY <1>1, <1>2, <1>3, <1>4, <1>5
<1> QED
  BY <1>6 DEF Goal

\* A private object goes only while its manifest is being purged.
LEMMA PrivateMoves ==
    ASSUME IInv, [Next]_vars
    PROVE  /\ private' \in [Manifests -> SUBSET Parts]
           /\ \A m \in Manifests :
                \/ private[m] \subseteq private'[m]
                \/ pc = "purging" /\ m = cur /\ manifest' = manifest
<1>1. ASSUME NEW p \in Parts, PutPrivate(p) \/ DeletePrivate(p)
      PROVE  cur \in Manifests
  BY <1>1 DEF PutPrivate, DeletePrivate, IInv, JobsMoveDetached, Moving, OpenManifests
<1>2. ASSUME NEW p \in Parts, PutPrivate(p)
      PROVE  /\ private' \in [Manifests -> SUBSET Parts]
             /\ \A m \in Manifests : private[m] \subseteq private'[m]
  BY <1>1, <1>2 DEF PutPrivate, IInv, TypeOK
<1>3. ASSUME NEW p \in Parts, DeletePrivate(p)
      PROVE  /\ private' \in [Manifests -> SUBSET Parts]
             /\ \A m \in Manifests : private[m] \subseteq private'[m] \/ m = cur
             /\ pc = "purging"
  BY <1>1, <1>3 DEF DeletePrivate, IInv, TypeOK
<1>4. \/ UNCHANGED private
      \/ \E p \in Parts : PutPrivate(p)
      \/ manifest' = manifest /\ \E p \in Parts : DeletePrivate(p)
  BY DEF Next, Begins, Requests, JobStep, RestoreStep, RecoverStep, ReconcileStep,
     SharedStep, PurgeStep, CommitEdit, RouteEdit, EditTo, BeginRevert, Tick, BeginMaintenance, Crash,
     CrashUnrecorded, LoseObject, CopyFails, FindCopies, RestoreState, RestoreMark,
     ApplyRevert, RecoverNone, RecoverCopied, Recover, RecoverMissing, ReconcileNone,
     AllCopied, NewManifest, BeginCopy, CopyRefused, CopyMissing, Unlink, Settle,
     DeleteLive, PurgeNone, EndPurge, BeginPurge, vars, tables, buckets, RestoreObject,
     RecoverObject, InsertRow, CopyObject, PurgeObject, PutLive
<1> QED
  BY <1>2, <1>3, <1>4 DEF IInv, TypeOK

\* A manifest begins for detached media when none is open, stays open until it is
\* restored, given up or purged, and is not used again once its purge began.
LEMMA ManifestMoves ==
    ASSUME IInv, [Next]_vars, NEW m \in Manifests
    PROVE  \/ manifest'[m] = manifest[m]
           \/ /\ NewManifest(m) /\ m \notin OpenManifests /\ OpenManifests = {} /\ described
              /\ manifest[m].status = "absent" /\ manifest'[m].status = "pending"
              /\ cur' = m /\ pc' = "rows"
           \/ /\ manifest'[m] = [manifest[m] EXCEPT !.status = manifest'[m].status]
              /\ \/ /\ manifest[m].status \in Open
                    /\ manifest'[m].status \in Open \cup {"restored", "unavailable"}
                 \/ BeginPurge(m) /\ manifest'[m].status = "purging"
                    /\ manifest[m].status # "absent"
                    /\ cur' = m /\ pc' = "purging"
                 \/ manifest[m].status = "purging" /\ manifest'[m].status = "purged"
<1> DEFINE Same(n) == manifest'[n] = manifest[n]
<1>1. cur \in Manifests \cup {NoManifest}
  BY DEF IInv, TypeOK
<1>2. ASSUME NEW n \in Manifests, NEW s \in {"copying", "failed", "quarantined", "restored",
               "unavailable", "purging", "purged"}, SetStatus(n, s)
      PROVE  /\ manifest'[n] = [manifest[n] EXCEPT !.status = s]
             /\ manifest'[n].status = s
             /\ \A o \in Manifests : o # n => Same(o)
  BY <1>2 DEF SetStatus, IInv, TypeOK
<1>3. ASSUME NEW n \in Manifests, NewManifest(n)
      PROVE  \/ Same(m)
             \/ /\ n = m /\ m \notin OpenManifests /\ OpenManifests = {} /\ described
                /\ manifest[m].status = "absent" /\ manifest'[m].status = "pending"
                /\ cur' = m /\ pc' = "rows"
  <2>1. CASE Conflicts(n, "pending")
    BY <1>3, <2>1 DEF NewManifest
  <2>2. CASE ~Conflicts(n, "pending")
    BY <1>3, <2>2 DEF NewManifest, FreeManifest, Goto, Detached, IInv, TypeOK
  <2> QED
    BY <2>1, <2>2
<1>4. ASSUME pc \in {"recopy", "copy", "delete", "mark"} \cup {"rows"}
      PROVE  cur \in Manifests /\ manifest[cur].status \in Open
  BY <1>4 DEF IInv, JobsMoveDetached, Moving, OpenManifests
<1>5. \/ UNCHANGED manifest
      \/ \E n \in Manifests : NewManifest(n)
      \/ \E n \in Manifests : BeginPurge(n) /\ SetStatus(n, "purging") /\ n \in Expired
                              /\ cur' = n /\ pc' = "purging"
      \/ pc = "purging" /\ SetStatus(cur, "purged")
      \/ \E n \in Manifests : n \in ToRecover /\ SetStatus(n, "restored")
      \/ pc = "mark" /\ SetStatus(cur, "restored")
      \/ \E n \in Manifests : /\ (pc = "rows" /\ n = cur) \/ n \in OpenManifests
                              /\ SetStatus(n, "copying") \/ SetStatus(n, "failed")
      \/ pc = "recopy" /\ SetStatus(cur, "unavailable")
      \/ pc \in {"copy", "recopy", "delete"}
         /\ (SetStatus(cur, "failed") \/ SetStatus(cur, "quarantined"))
  BY DEF Next, Begins, Requests, JobStep, RestoreStep, RecoverStep, ReconcileStep,
     SharedStep, PurgeStep, CommitEdit, RouteEdit, EditTo, BeginRevert, Tick, BeginMaintenance, Crash,
     CrashUnrecorded, LoseObject, CopyFails, FindCopies, RestoreState, RestoreMark,
     ApplyRevert, RecoverNone, RecoverCopied, Recover, RecoverMissing, ReconcileNone,
     AllCopied, BeginCopy, CopyRefused, CopyMissing, Unlink, Settle,
     DeleteLive, PurgeNone, EndPurge, BeginPurge, vars, tables, RestoreObject,
     RecoverObject, InsertRow, CopyObject, PurgeObject, Goto
<1> QED
  BY <1>1, <1>2, <1>3, <1>4, <1>5 DEF Expired, ToRecover, Incomplete, Open, OpenManifests,
     IInv, JobsMoveDetached
-----------------------------------------------------------------------------
(* Types.                                                                  *)

ManifestRecord ==
    [status : Indexed \cup {"absent", "failed", "restored", "purged", "unavailable"},
     audit : Audits \cup {NoAudit}, purgeAfter : Nat]
EntryRecord ==
    [status : {"absent", "pending", "available", "reverted", "unavailable", "expired"},
     expires : Nat, needs : BOOLEAN, kind : {"sword", "revert"}]

\* Each step leaves manifests.
LEMMA ManifestTypes == IInv /\ [Next]_vars => manifest' \in [Manifests -> ManifestRecord]
<1> SUFFICES ASSUME IInv, [Next]_vars PROVE manifest' \in [Manifests -> ManifestRecord]
  OBVIOUS
<1>1. manifest \in [Manifests -> ManifestRecord] /\ now \in Nat
  BY DEF IInv, TypeOK, ManifestRecord
<1>2. ASSUME NEW n \in Manifests, NEW s \in {"copying", "failed", "quarantined", "restored",
               "unavailable", "purging", "purged"}, SetStatus(n, s)
      PROVE  manifest' \in [Manifests -> ManifestRecord]
  BY <1>1, <1>2 DEF SetStatus, ManifestRecord, Indexed
<1>3. ASSUME NEW n \in Manifests, NewManifest(n)
      PROVE  manifest' \in [Manifests -> ManifestRecord]
  <2>1. \A a \in Protections : a \in Audits /\ audit[a].expires \in Nat
    BY DEF Protections, Protecting, IInv, TypeOK
  <2>2. UnprotectedDeadline \in Nat
    BY DeadlineTypes DEF IInv
  <2>3. \A a \in Audits \cup {NoAudit} : \A day \in Nat :
          [status |-> "pending", audit |-> a, purgeAfter |-> day] \in ManifestRecord
    BY DEF ManifestRecord, Indexed
  <2>4. \/ manifest' = manifest
        \/ \E a \in Audits \cup {NoAudit} : \E day \in Nat :
             manifest' = [manifest EXCEPT ![n] =
               [status |-> "pending", audit |-> a, purgeAfter |-> day]]
    <3>1. CASE Conflicts(n, "pending")
      BY <1>3, <3>1 DEF NewManifest
    <3>2. CASE ~Conflicts(n, "pending")
      BY <1>3, <2>1, <2>2, <3>2 DEF NewManifest
    <3> QED
      BY <3>1, <3>2
  <2> QED
    BY <1>1, <2>3, <2>4
<1>4. cur \in Manifests \cup {NoManifest}
      /\ (pc \in {"recopy", "copy", "delete", "mark", "purging"} => cur \in Manifests)
  BY DEF IInv, TypeOK, JobsMoveDetached, Moving, OpenManifests
<1>5. \/ UNCHANGED manifest
      \/ \E n \in Manifests : NewManifest(n)
      \/ \E n \in Manifests : \E s \in {"copying", "failed", "quarantined", "restored",
               "unavailable", "purging", "purged"} : SetStatus(n, s)
  BY <1>4 DEF Next, Begins, Requests, JobStep, RestoreStep, RecoverStep, ReconcileStep,
     SharedStep, PurgeStep, CommitEdit, RouteEdit, EditTo, BeginRevert, Tick, BeginMaintenance, Crash,
     CrashUnrecorded, LoseObject, CopyFails, FindCopies, RestoreState, RestoreMark,
     ApplyRevert, RecoverNone, RecoverCopied, Recover, RecoverMissing, ReconcileNone,
     AllCopied, BeginCopy, CopyRefused, CopyMissing, Unlink, Settle,
     DeleteLive, PurgeNone, EndPurge, BeginPurge, vars, tables, RestoreObject,
     RecoverObject, InsertRow, CopyObject, PurgeObject
<1> QED
  BY <1>1, <1>2, <1>3, <1>5

\* What a step may do to the audit log: entries are added by edits and reverts, and
\* change but their status. One that needs the set came while it was described and no
\* manifest was open, or is late.
LEMMA EntryMoves ==
    ASSUME IInv, [Next]_vars
    PROVE  /\ audit' \in [Audits -> EntryRecord]
           /\ \A a \in Audits :
                \/ audit'[a] = audit[a]
                \/ /\ audit[a].status # "absent" /\ audit'[a].status # "absent"
                   /\ audit'[a].expires = audit[a].expires
                   /\ audit'[a].needs = audit[a].needs
                \/ /\ audit'[a].status # "absent"
                   /\ audit'[a].expires = now + Retention /\ now' = now
                   /\ \/ ~audit'[a].needs \/ a \in late'
                      \/ /\ described /\ OpenManifests = {}
                         /\ UNCHANGED <<described, manifest>>
<1> DEFINE Change(a) ==
      \/ audit'[a] = audit[a]
      \/ /\ audit[a].status # "absent" /\ audit'[a].status # "absent"
         /\ audit'[a].expires = audit[a].expires
         /\ audit'[a].needs = audit[a].needs
      \/ /\ audit'[a].status # "absent"
         /\ audit'[a].expires = now + Retention /\ now' = now
         /\ \/ ~audit'[a].needs \/ a \in late'
            \/ /\ described /\ OpenManifests = {}
               /\ UNCHANGED <<described, manifest>>
    Goal == audit' \in [Audits -> EntryRecord] /\ \A a \in Audits : Change(a)
<1>1. audit \in [Audits -> EntryRecord] /\ now + Retention \in Nat
  BY DEF IInv, TypeOK, EntryRecord
<1>2. ASSUME UNCHANGED audit PROVE Goal
  BY <1>1, <1>2
<1>3. ASSUME NEW a \in Audits, audit[a].status # "absent",
             NEW s \in {"available", "unavailable", "expired", "reverted"},
             audit' = [audit EXCEPT ![a].status = s]
      PROVE  Goal
  BY <1>1, <1>3 DEF EntryRecord
<1>4. ASSUME NEW a \in Audits, NEW needs \in BOOLEAN, NEW kind \in {"sword", "revert"},
             \/ ~needs \/ a \in late'
             \/ described /\ OpenManifests = {} /\ UNCHANGED <<described, manifest>>,
             now' = now,
             audit' = [audit EXCEPT ![a] =
               [status |-> "pending", expires |-> now + Retention,
                needs |-> needs, kind |-> kind]]
      PROVE  Goal
  BY <1>1, <1>4 DEF EntryRecord
<1>5. ASSUME NEW before \in BOOLEAN, NEW after \in BOOLEAN, EditTo(before, after) PROVE Goal
  <2>1. UNCHANGED <<now, described, manifest>>
    BY <1>5 DEF EditTo
  <2>2. ASSUME NewAudit(before) PROVE Goal
    <3>1. PICK a \in Audits :
            /\ audit' = [audit EXCEPT ![a] =
                 [status |-> "pending", expires |-> now + Retention,
                  needs |-> before, kind |-> "sword"]]
            /\ late' = IF described /\ OpenManifests = {} THEN late ELSE late \cup {a}
      BY <2>2 DEF NewAudit
    <3>2. a \in late' \/ (described /\ OpenManifests = {})
      BY <3>1
    <3> HIDE DEF Goal
    <3> QED
      BY <1>4, <2>1, <3>1, <3>2
  <2> HIDE DEF Goal
  <2> QED
    BY <1>2, <1>5, <2>2 DEF EditTo
<1>6. ASSUME ApplyRevert PROVE Goal
  <2>1. now' = now /\ reverting \in Audits
    BY <1>6 DEF ApplyRevert, IInv, JobsMoveDetached
  <2>2. audit[reverting].status # "absent"
    BY <1>6 DEF ApplyRevert, IInv, JobsMoveDetached
  <2>3. ASSUME NEW b \in Audits,
               audit' = [audit EXCEPT
                 ![reverting].status = "reverted",
                 ![b] = [status |-> "pending", expires |-> now + Retention,
                         needs |-> FALSE, kind |-> "revert"]]
        PROVE  Goal
    BY <1>1, <2>1, <2>2, <2>3 DEF EntryRecord
  <2>4. \/ UNCHANGED audit
        \/ \E before \in held : MarkReverted(reverting, before \/ shown')
    BY <1>6 DEF ApplyRevert
  <2>5. ASSUME NEW before \in held, MarkReverted(reverting, before \/ shown') PROVE Goal
    BY <1>3, <2>1, <2>2, <2>3, <2>5 DEF MarkReverted
  <2> QED
    BY <1>2, <2>4, <2>5
<1>7. ASSUME NEW m \in Manifests, NEW s \in {"available", "unavailable", "expired"},
             audit' = AuditSet(manifest[m].audit, s)
      PROVE  Goal
  <2>1. CASE manifest[m].audit = NoAudit
    BY <1>2, <1>7, <2>1 DEF AuditSet
  <2>2. CASE manifest[m].audit # NoAudit
    <3>1. /\ manifest[m].audit \in Audits
          /\ audit[manifest[m].audit].status # "absent"
      BY <2>2 DEF IInv, TypeOK
    <3> QED
      BY <1>3, <1>7, <2>2, <3>1 DEF AuditSet
  <2> QED
    BY <2>1, <2>2
<1>8. pc \in {"recopy", "copy", "delete", "purging"} => cur \in Manifests
  BY DEF IInv, JobsMoveDetached, Moving, OpenManifests
<1>9. \/ UNCHANGED audit
      \/ ApplyRevert
      \/ \E before, after \in BOOLEAN : EditTo(before, after)
      \/ \E m \in Manifests : \E s \in {"available", "unavailable", "expired"} :
           audit' = AuditSet(manifest[m].audit, s)
  BY <1>8 DEF Next, Begins, Requests, JobStep, RestoreStep, RecoverStep, ReconcileStep,
     SharedStep, PurgeStep, CommitEdit, RouteEdit, BeginRevert, Tick, BeginMaintenance,
     Crash, IInv, TypeOK,
     CrashUnrecorded, LoseObject, CopyFails, FindCopies, RestoreState, RestoreMark,
     RecoverNone, RecoverCopied, Recover, RecoverMissing, ReconcileNone,
     AllCopied, NewManifest, BeginCopy, CopyRefused, CopyMissing, Unlink, Settle,
     DeleteLive, PurgeNone, EndPurge, BeginPurge, vars, tables, RestoreObject,
     RecoverObject, InsertRow, CopyObject, PurgeObject
<1> HIDE DEF Goal
<1>10. Goal
  BY <1>2, <1>5, <1>6, <1>7, <1>9
<1> QED
  BY <1>10 DEF Goal
\* What a step may do to the rest of the state.
LEMMA ControlTypes ==
    ASSUME IInv, [Next]_vars
    PROVE  /\ shown' \in BOOLEAN /\ described' \in BOOLEAN /\ live' \subseteq Parts
           /\ job' \in {"none", "maintenance", "edit", "revert"}
           /\ pc' \in {"idle", "recover", "recopy", "reconcile", "rows", "copy", "unlink",
                       "delete", "settle", "purge", "purging", "restore", "describe",
                       "mark", "apply"}
           /\ (job' = "none") = (pc' = "idle")
           /\ cur' \in Manifests \cup {NoManifest}
           /\ via' \in {"none", "recover", "reconcile"}
           /\ done' \subseteq Parts
           /\ reverting' \in Audits \cup {NoAudit}
<1> USE DEF IInv, TypeOK
<1> DEFINE Goal == /\ shown' \in BOOLEAN /\ described' \in BOOLEAN /\ live' \subseteq Parts
           /\ job' \in {"none", "maintenance", "edit", "revert"}
           /\ pc' \in {"idle", "recover", "recopy", "reconcile", "rows", "copy", "unlink",
                       "delete", "settle", "purge", "purging", "restore", "describe",
                       "mark", "apply"}
           /\ (job' = "none") = (pc' = "idle")
           /\ cur' \in Manifests \cup {NoManifest}
           /\ via' \in {"none", "recover", "reconcile"}
           /\ done' \subseteq Parts
           /\ reverting' \in Audits \cup {NoAudit}
<1>1. ASSUME Begins PROVE Goal
  BY <1>1 DEF Begins, Requests, CommitEdit, RouteEdit, EditTo, BeginRevert, Tick, BeginMaintenance, Crash,
     CrashUnrecorded, LoseObject, PutPrivate, PutLive, DeletePrivate, Start, Goto, EndJob,
     site, buckets, control
<1>2. ASSUME ApplyRevert PROVE Goal
  <2>1. audit[reverting].needs \in BOOLEAN
    BY <1>2 DEF ApplyRevert, JobsMoveDetached
  <2> QED
    BY <1>2, <2>1 DEF ApplyRevert, Goto, Keep, EndJob, buckets
<1>3. ASSUME RestoreStep, ~ApplyRevert PROVE Goal
  BY <1>3 DEF RestoreStep, FindCopies, RestoreState, RestoreMark, RestoreObject, PutLive,
     Goto, Keep, EndJob, site, buckets, OpenManifests
<1>4. ASSUME RecoverStep PROVE Goal
  BY <1>4 DEF RecoverStep, RecoverNone, RecoverCopied, Recover, RecoverObject,
     RecoverMissing, EndRecover, PutPrivate, Goto, Keep, site, buckets
<1>5. ASSUME ReconcileNone \/ AllCopied PROVE Goal
  BY <1>5 DEF ReconcileNone, AllCopied, EndReconcile, Goto, Keep, EndJob, site, buckets
<1>6. ASSUME NEW m \in Manifests, NewManifest(m) \/ BeginCopy(m) \/ CopyRefused(m)
      PROVE  Goal
  BY <1>6 DEF NewManifest, BeginCopy, CopyRefused, Goto, EndJob, site, buckets
<1>7. ASSUME NEW p \in Parts, InsertRow(p) \/ CopyObject(p) \/ CopyMissing(p) PROVE Goal
  BY <1>7 DEF InsertRow, CopyObject, CopyMissing, PutPrivate, Goto, Keep, EndJob, site,
     buckets
<1>8. ASSUME SharedStep \/ CopyFails PROVE Goal
  BY <1>8 DEF SharedStep, CopyFails, Unlink, Settle, DeleteLive, EndReconcile, Goto, Keep,
     EndJob, site, buckets
<1>9. ASSUME PurgeStep PROVE Goal
  BY <1>9 DEF PurgeStep, PurgeNone, EndPurge, BeginPurge, PurgeObject, DeletePrivate,
     Goto, Keep, EndJob, site, buckets
<1>10. ASSUME UNCHANGED vars PROVE Goal
  BY <1>10 DEF vars, site, buckets, control
<1> HIDE DEF Goal
<1>11. Goal
  BY <1>1, <1>2, <1>3, <1>4, <1>5, <1>6, <1>7, <1>8, <1>9, <1>10 DEF Next, JobStep,
     ReconcileStep
<1> QED
  BY <1>11 DEF Goal

\* Days and faults stay within their bounds, and only live objects are lost.
LEMMA FateTypes ==
    ASSUME IInv, [Next]_vars
    PROVE  now' \in 0..MaxTime /\ faults' \in 0..MaxFaults /\ lost' \subseteq Parts
<1>1. /\ now' = now \/ (now < MaxTime /\ now' = now + 1)
      /\ faults' = faults \/ (faults < MaxFaults /\ faults' = faults + 1)
      /\ lost' = lost \/ \E p \in Parts : lost' = lost \cup {p}
  BY DEF Next, Begins, Requests, JobStep, RestoreStep, RecoverStep, ReconcileStep,
     SharedStep, PurgeStep, CommitEdit, RouteEdit, EditTo, BeginRevert, Tick, BeginMaintenance, Crash,
     CrashUnrecorded, LoseObject, CopyFails, FindCopies, RestoreState, RestoreMark,
     ApplyRevert, RecoverNone, RecoverCopied, Recover, RecoverMissing, ReconcileNone,
     AllCopied, NewManifest, BeginCopy, CopyRefused, CopyMissing, Unlink, Settle,
     DeleteLive, PurgeNone, EndPurge, BeginPurge, vars, fate, RestoreObject,
     RecoverObject, InsertRow, CopyObject, PurgeObject
<1>2. now \in 0..MaxTime /\ faults \in 0..MaxFaults /\ lost \subseteq Parts
  BY DEF IInv, TypeOK
<1>3. lost' \subseteq Parts
  BY <1>1, <1>2
<1>4. now' \in 0..MaxTime /\ faults' \in 0..MaxFaults
  BY <1>1, <1>2
<1> QED
  BY <1>3, <1>4

\* What was held, late or mislaid stays so, and an isolate may hold what is shown.
LEMMA PastMoves ==
    ASSUME IInv, [Next]_vars
    PROVE  /\ shown' \in held' /\ held' \subseteq BOOLEAN
           /\ late \subseteq late' /\ late' \subseteq Audits
           /\ mislaid' \in BOOLEAN /\ (mislaid => mislaid')
<1>1. shown \in held /\ held \subseteq BOOLEAN /\ late \subseteq Audits /\ mislaid \in BOOLEAN
  BY DEF IInv, TypeOK
<1>2. shown' \in BOOLEAN
  BY ControlTypes
<1>3. /\ \/ UNCHANGED <<shown, held>>
         \/ held' = held \cup {shown'}
      /\ late' = late \/ \E a \in Audits : late' = late \cup {a}
      /\ mislaid' = mislaid \/ mislaid' = (mislaid \/ ~described)
  BY DEF Next, Begins, Requests, JobStep, RestoreStep, RecoverStep, ReconcileStep,
     SharedStep, PurgeStep, CommitEdit, RouteEdit, EditTo, NewAudit, BeginRevert, Tick,
     BeginMaintenance, Crash,
     CrashUnrecorded, LoseObject, CopyFails, FindCopies, RestoreState, RestoreMark,
     ApplyRevert, RecoverNone, RecoverCopied, Recover, RecoverMissing, ReconcileNone,
     AllCopied, NewManifest, BeginCopy, CopyRefused, CopyMissing, Unlink, Settle,
     DeleteLive, PurgeNone, EndPurge, BeginPurge, vars, fate, past, site, RestoreObject,
     RecoverObject, InsertRow, CopyObject, PurgeObject
<1>4. shown' \in held' /\ held' \subseteq BOOLEAN
  BY <1>1, <1>2, <1>3
<1>5. late \subseteq late' /\ late' \subseteq Audits
  BY <1>1, <1>3
<1>6. mislaid' \in BOOLEAN /\ (mislaid => mislaid')
  <2>1. CASE mislaid' = mislaid
    BY <1>1, <2>1
  <2>2. CASE mislaid' = (mislaid \/ ~described)
    <3>1. mislaid' \in BOOLEAN
      BY <2>2
    <3>2. ASSUME mislaid PROVE mislaid'
      BY <2>2, <3>2
    <3> QED
      BY <3>1, <3>2
  <2> QED
    BY <1>3, <2>1, <2>2
<1> QED
  BY <1>4, <1>5, <1>6

\* Each step leaves rows of manifests that exist, and manifests of entries that do.
LEMMA ReferencesStay ==
    ASSUME IInv, [Next]_vars, NEW m \in Manifests
    PROVE  /\ DOMAIN copies'[m] # {} => manifest'[m].status # "absent"
           /\ manifest'[m].audit # NoAudit => audit'[manifest'[m].audit].status # "absent"
<1>1. /\ DOMAIN copies[m] # {} => manifest[m].status # "absent"
      /\ manifest[m].audit # NoAudit => audit[manifest[m].audit].status # "absent"
  BY DEF IInv, TypeOK
<1>2. manifest[m].status # "absent" => manifest'[m].status # "absent"
  BY ManifestMoves DEF Open, Indexed
<1>3. DOMAIN copies'[m] # DOMAIN copies[m] => manifest[m].status # "absent"
  BY RowMoves DEF IInv, JobsMoveDetached, Moving, OpenManifests, Open
<1>4. \A a \in Audits : audit[a].status # "absent" => audit'[a].status # "absent"
  BY EntryMoves
<1>5. manifest[m].audit \in Audits \cup {NoAudit}
  BY DEF IInv, TypeOK
<1>6. manifest'[m].audit # NoAudit =>
        \/ manifest'[m].audit = manifest[m].audit
        \/ manifest'[m].audit \in Protecting
  <2>1. CASE NewManifest(m)
    <3>1. CASE Conflicts(m, "pending")
      BY <2>1, <3>1 DEF NewManifest
    <3>2. CASE ~Conflicts(m, "pending")
      BY <2>1, <3>2, LatestProtects DEF NewManifest, IInv, TypeOK
    <3> QED
      BY <3>1, <3>2
  <2>2. CASE ~NewManifest(m)
    <3>1. manifest[m] \in ManifestRecord /\ manifest'[m] \in ManifestRecord
      BY ManifestTypes DEF IInv, TypeOK, ManifestRecord
    <3>2. \/ manifest'[m] = manifest[m]
          \/ manifest'[m] = [manifest[m] EXCEPT !.status = manifest'[m].status]
      BY <2>2, ManifestMoves
    <3> QED
      BY <3>1, <3>2 DEF ManifestRecord
  <2> QED
    BY <2>1, <2>2
<1>7. manifest'[m].audit \in Protecting =>
        manifest'[m].audit \in Audits /\ audit[manifest'[m].audit].status # "absent"
  BY DEF Protecting
<1> QED
  BY <1>1, <1>2, <1>3, <1>4, <1>5, <1>6, <1>7

\* Each step keeps the types of the variables.
LEMMA TypeCorrect == IInv /\ [Next]_vars => TypeOK'
<1> SUFFICES ASSUME IInv, [Next]_vars PROVE TypeOK'
  OBVIOUS
<1>1. manifest' \in [Manifests -> ManifestRecord] /\ audit' \in [Audits -> EntryRecord]
  BY ManifestTypes, EntryMoves
<1>2. private' \in [Manifests -> SUBSET Parts]
  BY PrivateMoves
<1>3. copies' \in [Manifests -> UNION {[rows -> BOOLEAN] : rows \in SUBSET Parts}]
  BY RowMoves
<1> QED
  BY <1>1, <1>2, <1>3, ControlTypes, FateTypes, PastMoves,
     ReferencesStay
  DEF TypeOK, ManifestRecord, EntryRecord
-----------------------------------------------------------------------------
(* Jobs.                                                                   *)

\* Outside the steps that work on one manifest there is nothing to keep.
LEMMA NothingMoves ==
    ASSUME pc' \notin Moving \cup {"restore", "mark", "purging", "apply"},
           pc' = "idle" => cur' = NoManifest
    PROVE  JobsMoveDetached'
  BY DEF JobsMoveDetached, Moving

\* Each step that begins or ends a job leaves it right.
LEMMA BeginsMove == IInv /\ Begins => JobsMoveDetached'
<1> SUFFICES ASSUME IInv, Begins PROVE JobsMoveDetached'
  OBVIOUS
<1>1. /\ job = "none" <=> pc = "idle"
      /\ pc = "idle" => cur = NoManifest
  BY DEF IInv, TypeOK, JobsMoveDetached
<1>2. CASE CommitEdit \/ RouteEdit \/ BeginMaintenance \/ Crash \/ CrashUnrecorded
  <2>1. pc' \in {"idle", "recover"} /\ (pc' = "idle" => cur' = NoManifest)
    BY <1>1, <1>2 DEF CommitEdit, RouteEdit, BeginMaintenance, Crash, CrashUnrecorded, Start, Goto, EndJob
  <2> QED
    BY <2>1, NothingMoves DEF Moving
<1>3. ASSUME Tick \/ \E p \in Parts : LoseObject(p) PROVE JobsMoveDetached'
  <2>1. pc' = "idle" /\ cur' = NoManifest
    BY <1>1, <1>3 DEF Tick, LoseObject, control
  <2> QED
    BY <2>1, NothingMoves DEF Moving
<1>4. ASSUME NEW a \in Audits, BeginRevert(a) PROVE JobsMoveDetached'
  <2>1. /\ pc' \in {"restore", "apply"} /\ cur' = NoManifest /\ reverting' = a /\ done' = {}
        /\ audit'[a].status # "absent"
    BY <1>1, <1>4 DEF BeginRevert, Revertible, Start, Goto, tables
  <2> QED
    BY <2>1 DEF JobsMoveDetached, Moving
<1> QED
  BY <1>2, <1>3, <1>4 DEF Begins, Requests

\* Each step of a revert leaves the manifest it restores open.
LEMMA RestoreMoves == IInv /\ [Next]_vars /\ RestoreStep => JobsMoveDetached'
<1> SUFFICES ASSUME IInv, [Next]_vars, RestoreStep PROVE JobsMoveDetached'
  OBVIOUS
<1>1. reverting \in Audits /\ audit'[reverting].status # "absent"
  <2>1. pc \in {"restore", "mark", "apply"}
    BY DEF RestoreStep, FindCopies, RestoreState, RestoreMark, ApplyRevert, RestoreObject,
       PutLive
  <2>2. reverting \in Audits /\ audit[reverting].status # "absent"
    BY <2>1 DEF IInv, JobsMoveDetached
  <2> QED
    BY <2>2, EntryMoves
<1>2. CASE FindCopies
  <2>1. CASE pc' \in {"idle", "apply"}
    BY <1>1, <1>2, <2>1 DEF FindCopies, Goto, Keep, EndJob, JobsMoveDetached, Moving
  <2>2. CASE pc' \notin {"idle", "apply"}
    <3>1. /\ ~described /\ cur' \in OpenManifests /\ UNCHANGED <<pc, done, reverting>>
          /\ UNCHANGED <<site, buckets, tables>> /\ pc = "restore"
      BY <1>2, <2>2 DEF FindCopies, Goto, Keep, EndJob
    <3>2. done \subseteq live
      BY <1>2, <3>1 DEF FindCopies, IInv, JobsMoveDetached
    <3> QED
      BY <1>1, <3>1, <3>2 DEF JobsMoveDetached, Moving, OpenManifests, site, buckets, tables
  <2> QED
    BY <2>1, <2>2
<1>3. CASE RestoreState
  <2>1. /\ pc' = "mark" /\ described' = TRUE /\ UNCHANGED <<cur, reverting, manifest>>
        /\ cur \in OpenManifests
    BY <1>3 DEF RestoreState, Goto, Keep, tables, IInv, JobsMoveDetached
  <2> QED
    BY <1>1, <2>1 DEF JobsMoveDetached, Moving, OpenManifests
<1>4. CASE RestoreMark
  BY <1>1, <1>4 DEF RestoreMark, Goto, Keep, JobsMoveDetached, Moving
<1>5. CASE ApplyRevert
  BY <1>5, NothingMoves DEF ApplyRevert, Goto, Keep, EndJob, Moving
<1>6. ASSUME NEW p \in Parts, RestoreObject(p) PROVE JobsMoveDetached'
  <2>1. /\ pc = "restore" /\ pc' = pc /\ cur # NoManifest /\ live' = live \cup {p}
        /\ done' = done \cup {p} /\ UNCHANGED <<cur, reverting, described, manifest>>
    BY <1>6 DEF RestoreObject, PutLive, Keep, site
  <2>2. cur \in OpenManifests /\ ~described /\ done \subseteq live
    BY <2>1 DEF IInv, JobsMoveDetached
  <2> QED
    BY <1>1, <2>1, <2>2 DEF JobsMoveDetached, Moving, OpenManifests
<1> QED
  BY <1>2, <1>3, <1>4, <1>5, <1>6 DEF RestoreStep

\* Each step of a recovery leaves what it moves detached, with an open manifest.
LEMMA RecoverMoves == IInv /\ [Next]_vars /\ RecoverStep => JobsMoveDetached'
<1> SUFFICES ASSUME IInv, [Next]_vars, RecoverStep PROVE JobsMoveDetached'
  OBVIOUS
<1>1. CASE RecoverNone
  BY <1>1, NothingMoves DEF RecoverNone, EndRecover, Goto, Keep, Moving
<1>2. ASSUME NEW m \in Manifests, Recover(m) PROVE JobsMoveDetached'
  <2>1. CASE shown
    BY <1>2, <2>1, NothingMoves DEF Recover, Moving
  <2>2. CASE ~shown
    <3>1. /\ pc' = "recopy" /\ done' = {} /\ cur' = m /\ UNCHANGED <<manifest, shown>>
          /\ m \in OpenManifests
      BY <1>2, <2>2 DEF Recover, Goto, site, ToRecover, Incomplete, OpenManifests, Open
    <3> QED
      BY <2>2, <3>1 DEF JobsMoveDetached, Moving, OpenManifests
  <2> QED
    BY <2>1, <2>2
<1>3. CASE RecoverCopied
  <2>1. /\ pc = "recopy" /\ pc' = "unlink" /\ done = Rows
        /\ UNCHANGED <<cur, manifest, shown, copies, private>>
    BY <1>3 DEF RecoverCopied, Goto, Keep, site, tables, buckets
  <2>2. cur \in OpenManifests /\ ~shown /\ done \subseteq private[cur]
    BY <2>1 DEF IInv, JobsMoveDetached, Moving
  <2> QED
    BY <2>1, <2>2 DEF JobsMoveDetached, Moving, OpenManifests, Rows
<1>4. ASSUME NEW p \in Parts, RecoverObject(p) PROVE JobsMoveDetached'
  <2>1. /\ pc = "recopy" /\ pc' = pc /\ done' = done \cup {p}
        /\ UNCHANGED <<cur, manifest, shown>>
        /\ private' = [private EXCEPT ![cur] = @ \cup {p}]
    BY <1>4 DEF RecoverObject, PutPrivate, Keep, site
  <2>2. cur \in OpenManifests /\ ~shown /\ done \subseteq private[cur]
    BY <2>1 DEF IInv, JobsMoveDetached, Moving
  <2>3. done' \subseteq private'[cur]
    BY <2>1, <2>2 DEF IInv, TypeOK, OpenManifests
  <2> QED
    BY <2>1, <2>2, <2>3 DEF JobsMoveDetached, Moving, OpenManifests
<1>5. ASSUME NEW p \in Parts, RecoverMissing(p) PROVE JobsMoveDetached'
  BY <1>5, NothingMoves DEF RecoverMissing, Goto, Keep, Moving
<1> QED
  BY <1>1, <1>2, <1>3, <1>4, <1>5 DEF RecoverStep

\* Each step of a reconciliation leaves what it moves detached, with an open manifest.
LEMMA ReconcileMoves == IInv /\ [Next]_vars /\ ReconcileStep => JobsMoveDetached'
<1> SUFFICES ASSUME IInv, [Next]_vars, ReconcileStep PROVE JobsMoveDetached'
  OBVIOUS
<1>1. CASE ReconcileNone
  BY <1>1, NothingMoves DEF ReconcileNone, EndReconcile, Goto, Keep, EndJob, Moving
<1>2. CASE AllCopied
  <2>1. /\ pc = "copy" /\ pc' = "unlink" /\ Copied = Rows
        /\ UNCHANGED <<cur, manifest, shown, copies, private>>
    BY <1>2 DEF AllCopied, Goto, Keep, site, tables, buckets
  <2>2. cur \in OpenManifests /\ ~shown
    BY <2>1 DEF IInv, JobsMoveDetached, Moving
  <2>3. Rows \subseteq private[cur]
    BY <2>1, <2>2 DEF Copied, Rows, IInv, CopiedIsPrivate, OpenManifests, Open
  <2> QED
    BY <2>1, <2>2, <2>3 DEF JobsMoveDetached, Moving, OpenManifests, Rows
<1>3. ASSUME NEW m \in Manifests, NewManifest(m) PROVE JobsMoveDetached'
  <2>1. CASE Conflicts(m, "pending")
    BY <1>3, <2>1, NothingMoves DEF NewManifest, EndJob, Goto, Moving
  <2>2. CASE ~Conflicts(m, "pending")
    <3>1. pc' = "rows" /\ cur' = m /\ ~shown /\ shown' = shown
      BY <1>3, <2>2 DEF NewManifest, Goto, Detached, site
    <3>2. manifest'[m].status = "pending"
      BY <1>3, <2>2 DEF NewManifest, IInv, TypeOK
    <3> QED
      BY <3>1, <3>2 DEF JobsMoveDetached, Moving, OpenManifests, Open
  <2> QED
    BY <2>1, <2>2
<1>4. ASSUME NEW m \in Manifests, BeginCopy(m) PROVE JobsMoveDetached'
  <2>1. /\ pc' = "copy" /\ cur' = m /\ shown' = shown
        /\ ~shown
    BY <1>4 DEF BeginCopy, Goto, Detached, site, IInv, JobsMoveDetached, Moving
  <2>2. manifest'[m].status = "copying"
    BY <1>4 DEF BeginCopy, SetStatus, IInv, TypeOK
  <2> QED
    BY <2>1, <2>2 DEF JobsMoveDetached, Moving, OpenManifests, Open
<1>5. ASSUME NEW m \in Manifests, CopyRefused(m) PROVE JobsMoveDetached'
  BY <1>5, NothingMoves DEF CopyRefused, EndJob, Goto, Moving
<1>6. ASSUME NEW p \in Parts, InsertRow(p) \/ CopyObject(p) PROVE JobsMoveDetached'
  <2>1. pc \in {"rows", "copy"} /\ UNCHANGED <<pc, cur, manifest, shown>>
    BY <1>6 DEF InsertRow, CopyObject, PutPrivate, Keep, site
  <2>2. cur \in OpenManifests /\ ~shown
    BY <2>1 DEF IInv, JobsMoveDetached, Moving
  <2> QED
    BY <2>1, <2>2 DEF JobsMoveDetached, Moving, OpenManifests
<1>7. ASSUME NEW p \in Parts, CopyMissing(p) PROVE JobsMoveDetached'
  BY <1>7, NothingMoves DEF CopyMissing, EndJob, Goto, Moving
<1> QED
  BY <1>1, <1>2, <1>3, <1>4, <1>5, <1>6, <1>7 DEF ReconcileStep

\* Each other step leaves what is moved detached, with an open manifest.
LEMMA SharedMoves == IInv /\ [Next]_vars /\ (SharedStep \/ PurgeStep \/ CopyFails) => JobsMoveDetached'
<1> SUFFICES ASSUME IInv, [Next]_vars, SharedStep \/ PurgeStep \/ CopyFails
             PROVE  JobsMoveDetached'
  OBVIOUS
<1>1. CASE Unlink
  <2>1. /\ pc = "unlink" /\ pc' = "delete" /\ described' = FALSE
        /\ UNCHANGED <<cur, manifest, shown, copies, private>>
    BY <1>1 DEF Unlink, Goto, Keep, tables, buckets
  <2>2. cur \in OpenManifests /\ ~shown /\ Rows \subseteq private[cur]
    BY <2>1 DEF IInv, JobsMoveDetached, Moving
  <2> QED
    BY <2>1, <2>2 DEF JobsMoveDetached, Moving, OpenManifests, Rows
<1>2. ASSUME NEW p \in Parts, DeleteLive(p) PROVE JobsMoveDetached'
  <2>1. /\ pc = "delete"
        /\ UNCHANGED <<pc, cur, manifest, shown, described, copies, private>>
    BY <1>2 DEF DeleteLive, Keep, site, tables
  <2>2. cur \in OpenManifests /\ ~shown /\ Rows \subseteq private[cur] /\ ~described
    BY <2>1 DEF IInv, JobsMoveDetached, Moving
  <2> QED
    BY <2>1, <2>2 DEF JobsMoveDetached, Moving, OpenManifests, Rows
<1>3. CASE Settle
  BY <1>3, NothingMoves DEF Settle, EndReconcile, Goto, Keep, EndJob, Moving
<1>4. CASE PurgeNone \/ EndPurge \/ CopyFails
  BY <1>4, NothingMoves DEF PurgeNone, EndPurge, CopyFails, Goto, Keep, EndJob, Moving
<1>5. ASSUME NEW m \in Manifests, BeginPurge(m) PROVE JobsMoveDetached'
  <2>1. CASE Conflicts(m, "purging")
    BY <1>5, <2>1, NothingMoves DEF BeginPurge, EndJob, Goto, Moving
  <2>2. CASE ~Conflicts(m, "purging")
    <3>1. pc' = "purging" /\ cur' = m /\ manifest'[m].status = "purging"
      BY <1>5, <2>2 DEF BeginPurge, SetStatus, Goto, IInv, TypeOK
    <3> QED
      BY <3>1 DEF JobsMoveDetached, Moving
  <2> QED
    BY <2>1, <2>2
<1>6. ASSUME NEW p \in Parts, PurgeObject(p) PROVE JobsMoveDetached'
  <2>1. pc = "purging" /\ UNCHANGED <<pc, cur, manifest>>
    BY <1>6 DEF PurgeObject, DeletePrivate, Keep
  <2>2. cur \in Manifests /\ manifest[cur].status = "purging"
    BY <2>1 DEF IInv, JobsMoveDetached
  <2> QED
    BY <2>1, <2>2 DEF JobsMoveDetached, Moving
<1> QED
  BY <1>1, <1>2, <1>3, <1>4, <1>5, <1>6 DEF SharedStep, PurgeStep

\* Each step leaves what is moved detached, with an open manifest.
LEMMA JobsStay == IInv /\ [Next]_vars => JobsMoveDetached'
<1> SUFFICES ASSUME IInv, [Next]_vars PROVE JobsMoveDetached'
  OBVIOUS
<1>1. CASE UNCHANGED vars
  BY <1>1 DEF IInv, JobsMoveDetached, vars, site, buckets, tables, control, OpenManifests,
     Rows
<1> QED
  BY <1>1, BeginsMove, RestoreMoves, RecoverMoves, ReconcileMoves, SharedMoves
  DEF Next, JobStep
-----------------------------------------------------------------------------
(* Objects.                                                                *)

\* A manifest that is open was so before, or is the first of detached media.
LEMMA OpenMoves ==
    ASSUME IInv, [Next]_vars, NEW m \in OpenManifests'
    PROVE  /\ m \in Manifests
           /\ \/ m \in OpenManifests
              \/ NewManifest(m) /\ OpenManifests = {} /\ described /\ cur' = m
<1>1. m \in Manifests /\ manifest'[m].status \in Open
  BY DEF OpenManifests
<1> QED
  BY <1>1, ManifestMoves DEF OpenManifests, Open

\* A manifest whose purge began is not used again.
LEMMA PurgeIsFinal ==
    ASSUME IInv, [Next]_vars, NEW m \in Manifests,
           manifest[m].status \in {"purging", "purged"}
    PROVE  manifest'[m].status \in {"purging", "purged"}
  BY ManifestMoves DEF Open

\* Each step leaves at most one manifest open.
LEMMA OneStaysOpen == IInv /\ [Next]_vars => OneIsOpen'
<1> SUFFICES ASSUME IInv, [Next]_vars, NEW m \in OpenManifests', NEW n \in OpenManifests'
             PROVE  m = n
  BY DEF OneIsOpen
<1>1. m \in OpenManifests \/ (OpenManifests = {} /\ cur' = m)
  BY OpenMoves
<1>2. n \in OpenManifests \/ (OpenManifests = {} /\ cur' = n)
  BY OpenMoves
<1> QED
  BY <1>1, <1>2 DEF IInv, OneIsOpen

\* Each step leaves private what a row says is copied.
LEMMA CopiedStays == IInv /\ [Next]_vars => CopiedIsPrivate'
<1> SUFFICES ASSUME IInv, [Next]_vars, NEW m \in Manifests, NEW p \in DOMAIN copies'[m],
                    copies'[m][p]
             PROVE  p \in private'[m] \/ manifest'[m].status \in {"purging", "purged"}
  BY DEF CopiedIsPrivate
<1>1. \/ p \in DOMAIN copies[m] /\ copies[m][p]
      \/ m = cur /\ p \in private'[m]
  BY RowMoves
<1>2. p \in DOMAIN copies[m] /\ copies[m][p] =>
        p \in private[m] \/ manifest[m].status \in {"purging", "purged"}
  BY DEF IInv, CopiedIsPrivate
<1>3. \/ private[m] \subseteq private'[m]
      \/ manifest[m].status = "purging"
  BY PrivateMoves DEF IInv, JobsMoveDetached
<1> QED
  BY <1>1, <1>2, <1>3, PurgeIsFinal

\* A live object goes when it is lost, or deleted for a row of an open manifest whose
\* private copy was made, after the site state has ceased to describe it.
LEMMA LiveMoves ==
    ASSUME IInv, [Next]_vars
    PROVE  \/ live \subseteq live' /\ lost' = lost
           \/ \E p \in Parts : live' = live \ {p} /\ lost' = lost \cup {p} /\ UNCHANGED site
           \/ /\ ~described /\ cur \in OpenManifests /\ UNCHANGED <<site, lost>>
              /\ \E p \in Rows \cap private[cur] : live' = live \ {p}
<1>1. ASSUME NEW p \in Parts, DeleteLive(p)
      PROVE  /\ ~described /\ cur \in OpenManifests /\ UNCHANGED <<site, lost>>
             /\ p \in Rows \cap private[cur] /\ live' = live \ {p}
  BY <1>1 DEF DeleteLive, IsNext, fate, IInv, JobsMoveDetached, Moving
<1>2. ASSUME NEW p \in Parts, LoseObject(p)
      PROVE  live' = live \ {p} /\ lost' = lost \cup {p} /\ UNCHANGED site
  BY <1>2 DEF LoseObject
<1>3. \/ live \subseteq live' /\ lost' = lost
      \/ \E p \in Parts : DeleteLive(p) \/ LoseObject(p)
  BY DEF Next, Begins, Requests, JobStep, RestoreStep, RecoverStep, ReconcileStep,
     SharedStep, PurgeStep, CommitEdit, RouteEdit, EditTo, BeginRevert, Tick, BeginMaintenance, Crash,
     CrashUnrecorded, CopyFails, FindCopies, RestoreState, RestoreMark,
     ApplyRevert, RecoverNone, RecoverCopied, Recover, RecoverMissing, ReconcileNone,
     AllCopied, NewManifest, BeginCopy, CopyRefused, CopyMissing, Unlink, Settle,
     PurgeNone, EndPurge, BeginPurge, vars, buckets, fate, RestoreObject,
     RecoverObject, InsertRow, CopyObject, PurgeObject, PutLive, PutPrivate, DeletePrivate
<1> QED
  BY <1>1, <1>2, <1>3

\* What the site state describes changes only when detached media is unlinked or its
\* objects are restored.
LEMMA SiteMoves ==
    ASSUME IInv, [Next]_vars
    PROVE  \/ described' = described
           \/ /\ Unlink /\ pc = "unlink" /\ ~shown /\ ~described' /\ cur \in OpenManifests
              /\ UNCHANGED <<shown, buckets, tables, lost>>
           \/ /\ RestoreState /\ ~described /\ described'
              /\ UNCHANGED <<shown, buckets, tables, lost>>
              /\ cur \in OpenManifests /\ Rows \subseteq live /\ pc' = "mark" /\ cur' = cur
<1>1. ASSUME Unlink
      PROVE  /\ pc = "unlink" /\ ~shown /\ ~described' /\ cur \in OpenManifests
             /\ UNCHANGED <<shown, buckets, tables, lost>>
  BY <1>1 DEF Unlink, fate, IInv, JobsMoveDetached, Moving
<1>2. ASSUME RestoreState
      PROVE  /\ ~described /\ described'
             /\ UNCHANGED <<shown, buckets, tables, lost>>
             /\ cur \in OpenManifests /\ Rows \subseteq live /\ pc' = "mark" /\ cur' = cur
  BY <1>2 DEF RestoreState, Goto, Keep, fate, IInv, JobsMoveDetached
<1>3. described' = described \/ Unlink \/ RestoreState
  BY DEF Next, Begins, Requests, JobStep, RestoreStep, RecoverStep, ReconcileStep,
     SharedStep, PurgeStep, CommitEdit, RouteEdit, EditTo, BeginRevert, Tick, BeginMaintenance, Crash,
     CrashUnrecorded, ApplyRevert, site,
     LoseObject, CopyFails, FindCopies, RestoreMark,
     RecoverNone, RecoverCopied, Recover, RecoverMissing, ReconcileNone,
     AllCopied, NewManifest, BeginCopy, CopyRefused, CopyMissing, Settle,
     DeleteLive, PurgeNone, EndPurge, BeginPurge, vars, RestoreObject,
     RecoverObject, InsertRow, CopyObject, PurgeObject
<1> QED
  BY <1>1, <1>2, <1>3

\* Each step leaves all objects live that the site state describes, and the others live
\* or with a row.
LEMMA ObjectsStay == IInv /\ [Next]_vars => ObjectsAreKept'
<1> SUFFICES ASSUME IInv, [Next]_vars PROVE ObjectsAreKept'
  OBVIOUS
<1>1. /\ described => Parts \ lost \subseteq live
      /\ ~described => \A m \in OpenManifests : Parts \ lost \subseteq live \cup DOMAIN copies[m]
  BY DEF IInv, ObjectsAreKept
<1>2. ASSUME described' PROVE Parts \ lost' \subseteq live'
  <2>1. CASE described
    BY <1>1, <2>1, LiveMoves
  <2>2. CASE ~described
    <3>1. cur \in OpenManifests /\ Rows \subseteq live /\ UNCHANGED <<buckets, lost>>
      BY <1>2, <2>2, SiteMoves
    <3>2. Parts \ lost \subseteq live
      BY <1>1, <2>2, <3>1 DEF Rows
    <3> QED
      BY <3>1, <3>2 DEF buckets
  <2> QED
    BY <2>1, <2>2
<1>3. ASSUME ~described', NEW m \in OpenManifests'
      PROVE  Parts \ lost' \subseteq live' \cup DOMAIN copies'[m]
  <2>1. CASE described
    <3>1. UNCHANGED <<buckets, lost>>
      BY <1>3, <2>1, SiteMoves
    <3> QED
      BY <1>1, <2>1, <3>1 DEF buckets
  <2>2. CASE ~described
    <3>1. m \in Manifests /\ m \in OpenManifests
      BY <2>2, OpenMoves
    <3>2. Parts \ lost \subseteq live \cup DOMAIN copies[m]
      BY <1>1, <2>2, <3>1
    <3>3. DOMAIN copies[m] \subseteq DOMAIN copies'[m]
      BY <3>1, RowMoves
    <3>4. cur \in OpenManifests => Rows = DOMAIN copies[m]
      BY <3>1 DEF Rows, IInv, OneIsOpen
    <3> QED
      BY <3>2, <3>3, <3>4, LiveMoves
  <2> QED
    BY <2>1, <2>2
<1> QED
  BY <1>2, <1>3 DEF ObjectsAreKept

\* Each step leaves every object in one of the buckets until a purge begins.
LEMMA StoredStays == IInv /\ [Next]_vars => CopiedBeforeRemoved'
<1> SUFFICES ASSUME IInv, [Next]_vars,
                    \A m \in Manifests : manifest'[m].status \notin {"purging", "purged"},
                    NEW p \in Parts \ lost'
             PROVE  p \in Stored'
  BY DEF CopiedBeforeRemoved
<1>1. \A m \in Manifests : manifest[m].status \notin {"purging", "purged"}
  BY PurgeIsFinal
<1>2. \A m \in Manifests : private[m] \subseteq private'[m]
  BY <1>1, PrivateMoves DEF IInv, JobsMoveDetached
<1>3. lost \subseteq lost'
  BY LiveMoves
<1>4. p \in live \/ \E m \in Manifests : p \in private[m]
  BY <1>1, <1>3 DEF IInv, CopiedBeforeRemoved, Stored
<1>5. p \in live' \/ \E m \in Manifests : p \in private'[m]
  <2>1. p \in live => p \in live' \/ (cur \in OpenManifests /\ p \in private[cur])
    BY LiveMoves
  <2> QED
    BY <1>2, <1>4, <2>1 DEF OpenManifests
<1> QED
  BY <1>5 DEF Stored

\* Each step leaves entries that expire in time.
LEMMA ExpiryStays == IInv /\ [Next]_vars => EntriesExpire'
<1> SUFFICES ASSUME IInv, [Next]_vars, NEW a \in Audits
             PROVE  /\ audit'[a].expires <= now' + Retention
                    /\ audit'[a].status = "absent" => ~audit'[a].needs
  BY DEF EntriesExpire
<1>1. now \in Nat /\ Retention \in Nat /\ audit[a].expires \in Nat
  BY DEF IInv, TypeOK
<1>2. now' = now \/ now' = now + 1
  BY DEF Next, Begins, Requests, JobStep, RestoreStep, RecoverStep, ReconcileStep,
     SharedStep, PurgeStep, CommitEdit, RouteEdit, EditTo, BeginRevert, Tick, BeginMaintenance, Crash,
     CrashUnrecorded, LoseObject, CopyFails, FindCopies, RestoreState, RestoreMark,
     ApplyRevert, RecoverNone, RecoverCopied, Recover, RecoverMissing, ReconcileNone,
     AllCopied, NewManifest, BeginCopy, CopyRefused, CopyMissing, Unlink, Settle,
     DeleteLive, PurgeNone, EndPurge, BeginPurge, vars, RestoreObject,
     RecoverObject, InsertRow, CopyObject, PurgeObject
<1>3. /\ audit[a].expires <= now + Retention
      /\ audit[a].status = "absent" => ~audit[a].needs
  BY DEF IInv, EntriesExpire
<1>4. audit'[a].expires \in {audit[a].expires, now + Retention}
  BY EntryMoves
<1>5. audit'[a].status = "absent" => ~audit'[a].needs
  BY <1>3, EntryMoves
<1> QED
  BY <1>1, <1>2, <1>3, <1>4, <1>5
-----------------------------------------------------------------------------
(* Private copies, and the entries that need them.                         *)

\* Each step leaves rows to be added and copied only for a set that is described, and
\* private copies of all rows of one that is not.
LEMMA RowsStay == IInv /\ [Next]_vars => RowsArePrivate'
<1> SUFFICES ASSUME IInv, [Next]_vars PROVE RowsArePrivate'
  OBVIOUS
<1>1. /\ pc \in {"rows", "copy"} => described
      /\ ~described => \A m \in OpenManifests : DOMAIN copies[m] \subseteq private[m]
  BY DEF IInv, RowsArePrivate
<1>2. ASSUME pc' \in {"rows", "copy"} PROVE described'
  <2>1. \/ UNCHANGED <<pc, described>>
        \/ \E m \in Manifests : NewManifest(m) \/ BeginCopy(m)
    BY <1>2 DEF Next, Begins, Requests, JobStep, RestoreStep, RecoverStep, ReconcileStep,
       SharedStep, PurgeStep, CommitEdit, RouteEdit, EditTo, BeginRevert, Tick,
       BeginMaintenance, Crash, CrashUnrecorded, LoseObject, CopyFails, FindCopies,
       RestoreState, RestoreMark, ApplyRevert, RecoverNone, RecoverCopied, Recover,
       RecoverMissing, ReconcileNone, AllCopied, CopyRefused, CopyMissing, Unlink, Settle,
       DeleteLive, PurgeNone, EndPurge, BeginPurge, vars, RestoreObject, RecoverObject,
       InsertRow, CopyObject, PurgeObject, PutPrivate, PutLive, DeletePrivate, EndRecover,
       EndReconcile, EndJob, Goto, Keep, Start, control, site
  <2>2. ASSUME NEW m \in Manifests, NewManifest(m) \/ BeginCopy(m) PROVE described'
    BY <1>1, <2>2 DEF NewManifest, BeginCopy, Detached, site
  <2> QED
    BY <1>1, <1>2, <2>1, <2>2
<1>3. ASSUME ~described', NEW m \in OpenManifests'
      PROVE  DOMAIN copies'[m] \subseteq private'[m]
  <2>1. CASE described
    <3>1. /\ pc = "unlink" /\ cur \in OpenManifests /\ UNCHANGED <<buckets, tables>>
      BY <1>3, <2>1, SiteMoves
    <3>2. m = cur
      BY <3>1 DEF tables, OpenManifests, IInv, OneIsOpen
    <3>3. Rows \subseteq private[cur]
      BY <3>1 DEF IInv, JobsMoveDetached
    <3> QED
      BY <3>1, <3>2, <3>3 DEF Rows, buckets, tables
  <2>2. CASE ~described
    <3>1. m \in Manifests /\ m \in OpenManifests
      BY <2>2, OpenMoves
    <3>2. DOMAIN copies'[m] = DOMAIN copies[m]
      BY <1>1, <2>2, <3>1, RowMoves
    <3>3. private[m] \subseteq private'[m]
      BY <3>1, PrivateMoves DEF IInv, JobsMoveDetached, OpenManifests, Open
    <3> QED
      BY <1>1, <2>2, <3>1, <3>2, <3>3
  <2> QED
    BY <2>1, <2>2
<1> QED
  BY <1>2, <1>3 DEF RowsArePrivate

\* An open manifest is closed when its set is back, when an object was lost, when a
\* recovery takes it for restored, or when it has expired.
LEMMA OpenLeaves ==
    ASSUME IInv, [Next]_vars, NEW m \in OpenManifests, m \notin OpenManifests'
    PROVE  \/ described /\ described' = described
           \/ lost # {} \/ mislaid'
           \/ manifest[m].purgeAfter <= now
<1>1. m \in Manifests /\ manifest[m].status \in Open
  BY DEF OpenManifests
<1>2. manifest'[m].status \notin Open
  BY <1>1 DEF OpenManifests
<1>3. ASSUME NEW n \in Manifests, NEW s \in {"copying", "failed", "quarantined", "restored",
               "unavailable", "purging", "purged"}, SetStatus(n, s)
      PROVE  IF m = n THEN manifest'[m].status = s ELSE manifest'[m] = manifest[m]
  BY <1>1, <1>3 DEF SetStatus, IInv, TypeOK
<1>4. ASSUME NEW n \in Manifests, NewManifest(n) PROVE FALSE
  BY <1>1, <1>2, <1>4 DEF NewManifest, OpenManifests
<1>5. pc \in {"recopy", "copy", "delete", "mark", "purging"} => cur \in Manifests
  BY DEF IInv, JobsMoveDetached, Moving, OpenManifests
<1>6. ASSUME NEW p \in Parts, RecoverMissing(p) PROVE lost # {}
  <2>1. pc = "recopy" /\ cur \in OpenManifests /\ p \in Rows /\ p \notin private[cur] \cup live
    BY <1>6 DEF RecoverMissing, IsNext, IInv, JobsMoveDetached, Moving
  <2>2. CASE described
    BY <2>1, <2>2 DEF IInv, ObjectsAreKept
  <2>3. CASE ~described
    BY <2>1, <2>3 DEF IInv, RowsArePrivate, Rows
  <2> QED
    BY <2>2, <2>3
<1>7. RestoreMark => described /\ described' = described
  BY DEF RestoreMark, site, IInv, JobsMoveDetached
<1>8. ASSUME NEW n \in Manifests, Recover(n)
      PROVE  \/ UNCHANGED manifest
             \/ mislaid' \/ (described /\ described' = described)
  BY <1>8 DEF Recover, site
<1>9. ASSUME NEW n \in Manifests, BeginPurge(n)
      PROVE  manifest'[m] = manifest[m] \/ manifest[m].purgeAfter <= now
  <2>1. CASE Conflicts(n, "purging")
    BY <1>9, <2>1 DEF BeginPurge
  <2>2. CASE ~Conflicts(n, "purging")
    BY <1>3, <1>9, <2>2 DEF BeginPurge, Expired
  <2> QED
    BY <2>1, <2>2
<1>10. \/ UNCHANGED manifest
       \/ \E n \in Manifests : NewManifest(n) \/ BeginPurge(n) \/ Recover(n)
       \/ RestoreMark \/ \E p \in Parts : RecoverMissing(p)
       \/ pc = "purging" /\ SetStatus(cur, "purged")
       \/ \E n \in Manifests : SetStatus(n, "copying") \/ SetStatus(n, "failed")
       \/ pc = "delete" /\ SetStatus(cur, "quarantined")
  BY <1>5 DEF Next, Begins, Requests, JobStep, RestoreStep, RecoverStep, ReconcileStep,
     SharedStep, PurgeStep, CommitEdit, RouteEdit, EditTo, BeginRevert, Tick, BeginMaintenance, Crash,
     CrashUnrecorded, LoseObject, CopyFails, FindCopies, RestoreState,
     ApplyRevert, RecoverNone, RecoverCopied, ReconcileNone,
     AllCopied, BeginCopy, CopyRefused, CopyMissing, Unlink, Settle,
     DeleteLive, PurgeNone, EndPurge, vars, tables, RestoreObject,
     RecoverObject, InsertRow, CopyObject, PurgeObject
<1>11. pc = "purging" => cur # m
  BY <1>1 DEF IInv, JobsMoveDetached, Open
<1> QED
  BY <1>1, <1>2, <1>3, <1>4, <1>5, <1>6, <1>7, <1>8, <1>9, <1>10, <1>11 DEF Open

\* Each step leaves an entry that came before the open manifest covered by it.
LEMMA EntriesStay == IInv /\ [Next]_vars => EntriesAreCovered'
<1> SUFFICES ASSUME IInv, [Next]_vars, NEW a \in Audits \ late',
                    audit'[a].needs, audit'[a].expires > now'
             PROVE  /\ \A m \in OpenManifests' : manifest'[m].purgeAfter >= audit'[a].expires
                    /\ lost' = {} /\ ~mislaid' => described' \/ OpenManifests' # {}
  BY DEF EntriesAreCovered
<1>1. a \notin late
  BY PastMoves
<1>2. CASE audit'[a].expires # audit[a].expires \/ audit'[a].needs # audit[a].needs
  <2>1. described /\ OpenManifests = {} /\ UNCHANGED <<described, manifest>>
    BY <1>2, EntryMoves
  <2>2. described' /\ OpenManifests' = {}
    BY <2>1 DEF OpenManifests
  <2> QED
    BY <2>2
<1>3. CASE audit'[a].expires = audit[a].expires /\ audit'[a].needs = audit[a].needs
  <2>1. audit[a].expires > now /\ audit[a].expires \in Nat /\ now \in Nat
    <3>1. now' = now \/ now' = now + 1
      BY DEF Next, Begins, Requests, JobStep, RestoreStep, RecoverStep, ReconcileStep,
         SharedStep, PurgeStep, CommitEdit, RouteEdit, EditTo, BeginRevert, Tick, BeginMaintenance, Crash,
         CrashUnrecorded, LoseObject, CopyFails, FindCopies, RestoreState, RestoreMark,
         ApplyRevert, RecoverNone, RecoverCopied, Recover, RecoverMissing, ReconcileNone,
         AllCopied, NewManifest, BeginCopy, CopyRefused, CopyMissing, Unlink, Settle,
         DeleteLive, PurgeNone, EndPurge, BeginPurge, vars, RestoreObject,
         RecoverObject, InsertRow, CopyObject, PurgeObject
    <3>2. now \in Nat /\ audit[a].expires \in Nat
      BY DEF IInv, TypeOK
    <3> QED
      BY <1>3, <3>1, <3>2
  <2>2. /\ \A m \in OpenManifests : manifest[m].purgeAfter >= audit[a].expires
        /\ lost = {} /\ ~mislaid => described \/ OpenManifests # {}
    BY <1>1, <1>3, <2>1 DEF IInv, EntriesAreCovered
  <2>3. ASSUME NEW m \in OpenManifests' PROVE manifest'[m].purgeAfter >= audit'[a].expires
    <3>1. CASE m \in OpenManifests
      <4>1. manifest'[m].purgeAfter = manifest[m].purgeAfter
        BY <3>1, ManifestMoves DEF IInv, TypeOK, Open, OpenManifests
      <4> QED
        BY <1>3, <2>2, <3>1, <4>1
    <3>2. CASE m \notin OpenManifests
      <4>1. NewManifest(m) /\ m \in Manifests
        BY <3>2, OpenMoves
      <4>2. manifest'[m] # manifest[m]
        BY <3>2, <4>1 DEF OpenManifests
      <4>3. ~Conflicts(m, "pending")
        BY <4>1, <4>2 DEF NewManifest
      <4>4. a \in Protecting
        BY <1>3, <2>1 DEF Protecting, IInv, EntriesExpire
      <4>5. PICK b \in Protections : manifest' = [manifest EXCEPT ![m] =
                      [status |-> "pending", audit |-> b, purgeAfter |-> audit[b].expires]]
        BY <4>1, <4>3, <4>4, LatestProtects DEF NewManifest, IInv
      <4>6. manifest'[m].purgeAfter = audit[b].expires
        BY <4>1, <4>5 DEF IInv, TypeOK
      <4>7. audit[a].expires <= audit[b].expires /\ audit[b].expires \in Nat
        BY <4>4, LatestProtects DEF IInv, TypeOK, Protecting
      <4> QED
        BY <1>3, <2>1, <4>6, <4>7
    <3> QED
      BY <3>1, <3>2
  <2>4. ASSUME lost' = {}, ~mislaid' PROVE described' \/ OpenManifests' # {}
    <3>1. lost = {} /\ ~mislaid
      BY <2>4, LiveMoves, PastMoves
    <3>2. CASE described
      <4>1. CASE described' = described
        BY <3>2, <4>1
      <4>2. CASE described' # described
        BY <3>2, <4>2, SiteMoves DEF tables, OpenManifests
      <4> QED
        BY <4>1, <4>2
    <3>3. CASE ~described
      <4>1. PICK m \in OpenManifests : TRUE
        BY <2>2, <3>1, <3>3
      <4>2. ~(manifest[m].purgeAfter <= now)
        <5>1. manifest[m].purgeAfter \in Nat
          BY DEF OpenManifests, IInv, TypeOK
        <5> QED
          BY <2>1, <2>2, <5>1
      <4> QED
        BY <2>4, <3>1, <3>3, <4>2, OpenLeaves
    <3> QED
      BY <3>2, <3>3
  <2> QED
    BY <2>3, <2>4
<1> QED
  BY <1>2, <1>3

-----------------------------------------------------------------------------
(* Theorems.                                                               *)

\* At first, a published card has its media, and there are no transitions.
LEMMA InitEstablishesIInv == Init => IInv
<1> SUFFICES ASSUME Init PROVE IInv
  OBVIOUS
<1>1. /\ OpenManifests = {} /\ \A m \in Manifests : manifest[m].status = "absent"
      /\ \A a \in Audits : audit[a] = Unwritten
  BY DEF Init, OpenManifests, Open, Absent
<1>2. [p \in {} |-> FALSE] \in [{} -> BOOLEAN]
  OBVIOUS
<1>3. copies \in [Manifests -> UNION {[rows -> BOOLEAN] : rows \in SUBSET Parts}]
  BY <1>2 DEF Init
<1>4. \A m \in Manifests : DOMAIN copies[m] = {}
  BY DEF Init
<1>5. manifest \in [Manifests -> ManifestRecord] /\ audit \in [Audits -> EntryRecord]
  BY DEF Init, Absent, Unwritten, ManifestRecord, EntryRecord
<1>6. TypeOK
  <2>1. /\ now \in 0..MaxTime /\ faults \in 0..MaxFaults
        /\ \A m \in Manifests : manifest[m].audit = NoAudit
    BY DEF Init, Absent
  <2>2. private \in [Manifests -> SUBSET Parts]
    BY DEF Init
  <2> QED
    BY <1>3, <1>4, <1>5, <2>1, <2>2 DEF Init, TypeOK, ManifestRecord, EntryRecord
<1>7. JobsMoveDetached
  BY DEF Init, JobsMoveDetached, Moving
<1>8. OneIsOpen /\ ObjectsAreKept /\ CopiedIsPrivate
  BY <1>1, <1>4 DEF Init, OneIsOpen, ObjectsAreKept, CopiedIsPrivate
<1>9. CopiedBeforeRemoved
  BY DEF Init, CopiedBeforeRemoved, Stored
<1>10. EntriesExpire
  BY <1>1 DEF Init, EntriesExpire, Unwritten
<1>11. RowsArePrivate /\ EntriesAreCovered
  BY <1>1 DEF Init, RowsArePrivate, EntriesAreCovered, Unwritten
<1> QED
  BY <1>6, <1>7, <1>8, <1>9, <1>10, <1>11 DEF IInv

\* Each step keeps the invariant.
LEMMA StepKeepsIInv == IInv /\ [Next]_vars => IInv'
  BY TypeCorrect, JobsStay, OneStaysOpen, CopiedStays, ObjectsStay, StoredStays,
     ExpiryStays, RowsStay, EntriesStay DEF IInv

\* The inductive invariant holds of every execution.
THEOREM InvariantHolds == Spec => []IInv
  BY InitEstablishesIInv, StepKeepsIInv, PTL DEF Spec

\* The variables keep their types, and rows refer to rows that exist.
THEOREM TypesHold == Spec => []TypeOK
<1>1. IInv => TypeOK
  BY DEF IInv
<1> QED
  BY <1>1, InvariantHolds, PTL

\* What a card shows is there and stays, wherever a transition stopped and whatever
\* recovered, reverted or started it again: of its objects none is missing but those
\* that the cleanup of staged uploads took, and no transition takes its place in the
\* site state.
THEOREM ShownMediaStays == Spec => ShownMediaIsComplete
<1>1. IInv => (shown /\ described => Parts \ lost \subseteq live)
  BY DEF IInv, ObjectsAreKept
<1>2. IInv /\ [Next]_vars => [shown /\ described => described']_vars
  BY SiteMoves
<1> QED
  BY <1>1, <1>2, InvariantHolds, PTL DEF Spec, ShownMediaIsComplete

\* Until a purge begins, each object is in one of the buckets.
THEOREM CopiesComeFirst == Spec => []CopiedBeforeRemoved
<1>1. IInv => CopiedBeforeRemoved
  BY DEF IInv
<1> QED
  BY <1>1, InvariantHolds, PTL

\* An entry that can be reverted finds its media, described or in a complete manifest
\* that outlasts it, wherever jobs have died and calls failed: unless it came while a
\* manifest was open, an object was lost to the cleanup of uploads, or a recovery took a
\* set for restored that was shown while it was away.
THEOREM RevertsFindMedia == Spec => []RevertFindsMedia
<1>1. ASSUME IInv, lost = {}, ~mislaid, NEW a \in Audits \ late, NeedsMedia(a), ~described
      PROVE  \E m \in OpenManifests : /\ manifest[m].purgeAfter > now
                                      /\ DOMAIN copies[m] \subseteq private[m]
                                      /\ live \cup private[m] = Parts
  <2>1. audit[a].needs /\ audit[a].expires > now /\ audit[a].expires \in Nat /\ now \in Nat
    BY <1>1 DEF NeedsMedia, Revertible, IInv, TypeOK
  <2>2. PICK m \in OpenManifests : manifest[m].purgeAfter >= audit[a].expires
    BY <1>1, <2>1 DEF IInv, EntriesAreCovered
  <2>3. m \in Manifests /\ manifest[m].purgeAfter \in Nat
    BY <1>1 DEF OpenManifests, IInv, TypeOK
  <2>4. manifest[m].purgeAfter > now
    BY <2>1, <2>2, <2>3
  <2>5. DOMAIN copies[m] \subseteq private[m]
    BY <1>1 DEF IInv, RowsArePrivate
  <2>6. Parts \subseteq live \cup DOMAIN copies[m]
    BY <1>1 DEF IInv, ObjectsAreKept
  <2>7. live \subseteq Parts /\ private[m] \subseteq Parts
    BY <1>1, <2>3 DEF IInv, TypeOK
  <2> QED
    BY <2>4, <2>5, <2>6, <2>7
<1>2. IInv => RevertFindsMedia
  BY <1>1 DEF RevertFindsMedia, Restorable
<1> QED
  BY <1>2, InvariantHolds, PTL
=============================================================================
