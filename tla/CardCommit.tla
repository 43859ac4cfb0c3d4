------------------------------ MODULE CardCommit ------------------------------
(***************************************************************************)
(* The editor's card commit (handleEditorCardCommit in worker.js): one     *)
(* request validates a card edit against the stored site state, then       *)
(* updates four stores in a fixed order, none of them transactional with   *)
(* the others:                                                             *)
(*   the public media registry (D1), rows the edit takes away are deleted; *)
(*   the site state (R2), the card with its next revision;                 *)
(*   the registry again, rows the edit brings in are inserted;             *)
(*   the audit log (D1), one row per commit id;                            *)
(*   the staged uploads (D1), those the card now uses become 'committed'.  *)
(* A request may stop after any of these steps. The browser sends it again *)
(* with the same idempotency key while the answer is 429, 502, 503 or 504. *)
(*                                                                         *)
(* Requests run one at a time (holder), which is what SiteStateLock        *)
(* establishes. A commit stands for one press of Save: its idempotency     *)
(* key, the card it edits, and the revision the editor had on the screen.  *)
(* An upload stands for one staged media set with its R2 objects; a card   *)
(* has one media field.                                                    *)
(*                                                                         *)
(* The older routes that change cards in the same object (DELETE, and PUT  *)
(* and audit revert, which keep the stored revision) are the actions of    *)
(* LegacyRoutes, enabled by the constant of that name.                     *)
(***************************************************************************)
EXTENDS Naturals, FiniteSets, FiniteSetsExt

CONSTANTS
    Commits,          \* presses of Save
    Uploads,          \* staged media sets
    NoCard, NoMedia, NoCommit, NoOne, Keep,
    MaxCards,         \* bound: card ids are 1..MaxCards
    MaxTries,         \* CARD_COMMIT_MAX_ATTEMPTS of the browser
    AmbiguousPuts,    \* whether R2 may store the state and answer an error
    LegacyRoutes,     \* the other routes in use: a subset of
                      \* {"delete", "update", "insert", "reset"}
    MaxLegacy         \* bound: requests to the other routes

ASSUME SentinelAssumption ==
    /\ NoMedia \notin Uploads /\ Keep \notin Uploads \cup {NoMedia}
    /\ {NoCommit, NoOne, "route", "routed"} \cap Commits = {}
    /\ NoOne \notin {"route", "routed"}
ASSUME BoundAssumption ==
    /\ MaxCards \in Nat \ {0} /\ MaxTries \in Nat \ {0}
    /\ MaxLegacy \in Nat
    /\ AmbiguousPuts \in BOOLEAN
    /\ LegacyRoutes \subseteq {"delete", "update", "insert", "reset"}

VARIABLES
    cards,      \* state.swords: id -> record, NoCard when there is no such row
    library,    \* state.mediaObjects: media the site state has descriptors of
    staging,    \* media_upload_staging: "absent", "staged" or "committed"
    expired,    \* uploads whose expires_at has passed
    objects,    \* media objects present in the live R2 bucket
    rows,       \* public_media_registry
    ready,      \* the registry's marker: initialized and not blocked
    audited,    \* commit ids of the audit log
    holder,     \* the request that holds the site-state lock ("route": one of
                \* another route, "routed": such a one when it has put its change)
    plan,       \* the registry delta the holder has computed
    pc,         \* the next step of each commit's request
    intent,     \* what the editor asked for
    answer,     \* the last answer the browser got
    tries,      \* requests sent for the commit
    applied,    \* history: times the commit was written as a new edit
    stored,     \* history: the states the bucket has held
    unstored,   \* history: the states of puts that stored nothing
    fallen,     \* history: cards that another route took to an earlier revision
    legacy      \* requests served by the other routes

stores == <<cards, library, staging, expired, objects, rows, ready, audited>>
client == <<intent, tries>>
past == <<stored, unstored, fallen>>
vars == <<stores, past, holder, plan, pc, client, answer, applied, legacy>>

Ids == 1..MaxCards
Record == [revision : Nat \ {0}, media : Uploads \cup {NoMedia},
           commit : Commits \cup {NoCommit}, edits : 0..MaxLegacy]
ASSUME NoCardAssumption == NoCard \notin Record
\* card is 0 for a new card. seen is the card the editor started from.
Intent == [card : 0..MaxCards, expected : Nat,
           media : Uploads \cup {NoMedia, Keep}, staged : BOOLEAN,
           seen : Record \cup {NoCard}]
NoIntent == [card |-> 0, expected |-> 0, media |-> Keep, staged |-> FALSE,
             seen |-> NoCard]

NoPlan == [removed |-> {}, added |-> {}]

Exists(id) == cards[id] # NoCard
\* physicalKeysForSword
KeysOf(record) == {record.media} \ {NoMedia}

\* collectLivePhysicalMediaKeys
Referenced(state) ==
    UNION {KeysOf(state[id]) : id \in {i \in Ids : state[i] # NoCard}}

\* What isolates may hold as siteStateCache: the state at any time they read it,
\* or one that a request of theirs was about to store; writeSiteStateObject sets the
\* cache before the put, and nothing takes it back when the put fails.
Held == stored \cup unstored

TypeOK ==
    /\ cards \in [Ids -> Record \cup {NoCard}]
    /\ library \subseteq Uploads
    /\ staging \in [Uploads -> {"absent", "staged", "committed"}]
    /\ expired \subseteq Uploads
    /\ objects \subseteq Uploads
    /\ rows \subseteq Uploads
    /\ ready \in BOOLEAN
    /\ audited \subseteq Commits
    /\ holder \in Commits \cup {NoOne, "route", "routed"}
    /\ plan \in [removed : SUBSET Uploads, added : SUBSET Uploads]
    /\ pc \in [Commits -> {"closed", "waiting", "admit", "unlist", "put",
                           "list", "audit", "mark", "relist", "reaudit",
                           "remark"}]
    /\ intent \in [Commits -> Intent]
    /\ answer \in [Commits -> {"none", "ok", "rejected", "retry", "error"}]
    /\ tries \in [Commits -> 0..MaxTries]
    /\ applied \in [Commits -> Nat]
    /\ Held \subseteq [Ids -> Record \cup {NoCard}]
    /\ cards \in stored /\ fallen \subseteq Ids
    /\ legacy \in 0..MaxLegacy

\* A site with one card, published before commits had ids: the baseline to which
\* a reset returns.
Baseline(edits) ==
    [id \in Ids |-> IF id = 1 THEN [revision |-> 1, media |-> NoMedia,
                                   commit |-> NoCommit, edits |-> edits]
                   ELSE NoCard]

Init ==
    /\ cards = Baseline(0)
    /\ library = {}
    /\ staging = [u \in Uploads |-> "absent"]
    /\ expired = {}
    /\ objects = {}
    /\ rows = {}
    /\ ready = TRUE
    /\ audited = {}
    /\ holder = NoOne
    /\ plan = NoPlan
    /\ pc = [c \in Commits |-> "closed"]
    /\ intent = [c \in Commits |-> NoIntent]
    /\ answer = [c \in Commits |-> "none"]
    /\ tries = [c \in Commits |-> 0]
    /\ applied = [c \in Commits |-> 0]
    /\ stored = {cards} /\ unstored = {} /\ fallen = {}
    /\ legacy = 0

-----------------------------------------------------------------------------
(* Staged uploads.                                                         *)

\* An upload's objects are put before its row, outside the lock.
StageUpload(u) ==
    /\ staging[u] = "absent" /\ u \notin expired
    /\ staging' = [staging EXCEPT ![u] = "staged"]
    /\ objects' = objects \cup {u}
    /\ UNCHANGED <<past, cards, library, expired, rows, ready, audited,
                   holder, plan, pc, client, answer, applied, legacy>>

\* Two hours pass.
ExpireUpload(u) ==
    /\ staging[u] # "absent" /\ u \notin expired
    /\ expired' = expired \cup {u}
    /\ UNCHANGED <<past, cards, library, staging, objects, rows, ready,
                   audited, holder, plan, pc, client, answer, applied, legacy>>

\* Rows the cleanup selects, and the objects it deletes for them.
Outdated == {u \in Uploads : staging[u] # "absent" /\ u \in expired}
\* Mutant: the status of the row is not looked at.
Discarded_AnyStatus == Outdated

Discarded == {u \in Outdated : staging[u] # "committed"}

\* deleteExpiredStagedMedia, run by the scheduled maintenance under the lock:
\* objects of uncommitted rows, then all selected rows. It may stop between.
CleanUp ==
    /\ holder = NoOne
    /\ Outdated # {}
    /\ \/ /\ objects' = objects \ Discarded
          /\ staging' = [u \in Uploads |->
                           IF u \in Outdated THEN "absent" ELSE staging[u]]
       \/ /\ \E deleted \in SUBSET Discarded : objects' = objects \ deleted
          /\ UNCHANGED staging
    /\ UNCHANGED <<past, cards, library, expired, rows, ready, audited,
                   holder, plan, pc, client, answer, applied, legacy>>

-----------------------------------------------------------------------------
(* The browser.                                                            *)

\* Save: the form is filled from the card on the screen, or empty for a new
\* card. The card is one of a list, which an isolate answers from what it holds
\* (handleListSwords). Media is kept, removed, taken from the site or freshly
\* staged.
Save(c) ==
    /\ pc[c] = "closed"
    /\ \E list \in Held, card \in 0..MaxCards,
          media \in Uploads \cup {NoMedia, Keep}, staged \in BOOLEAN :
          LET seen == IF card = 0 THEN NoCard ELSE list[card] IN
          /\ card # 0 => seen # NoCard
          /\ staged => media \in Uploads /\ staging[media] = "staged"
          /\ media \in Uploads /\ ~staged => media \in library
          /\ intent' = [intent EXCEPT ![c] =
               [card |-> card,
                expected |-> IF card = 0 THEN 0 ELSE seen.revision,
                media |-> media, staged |-> staged, seen |-> seen]]
    /\ pc' = [pc EXCEPT ![c] = "waiting"]
    /\ UNCHANGED <<past, stores, holder, plan, answer, tries, applied, legacy>>

\* A request gets the lock; the first one, or a retry after a retryable answer.
Begin(c) ==
    /\ pc[c] = "waiting"
    /\ holder = NoOne
    /\ answer[c] \in {"none", "retry"} /\ tries[c] < MaxTries
    /\ holder' = c
    /\ tries' = [tries EXCEPT ![c] = @ + 1]
    /\ pc' = [pc EXCEPT ![c] = "admit"]
    /\ UNCHANGED <<past, stores, plan, intent, answer, applied, legacy>>

\* The request ends and the lock is free again.
Answer(c, a) ==
    /\ answer' = [answer EXCEPT ![c] = a]
    /\ pc' = [pc EXCEPT ![c] = "waiting"]
    /\ holder' = NoOne
    /\ plan' = NoPlan

Proceed(c, step) ==
    /\ pc' = [pc EXCEPT ![c] = step]
    /\ UNCHANGED <<holder, answer>>

Continue(c, step) == Proceed(c, step) /\ UNCHANGED plan

\* Eviction, a gateway timeout, or a statement that throws: whatever the step
\* had done stays, nothing after it happens, and the lease runs out.
Abort(c) ==
    /\ holder = c
    /\ \E a \in {"retry", "error"} : Answer(c, a)
    /\ UNCHANGED <<past, stores, client, applied, legacy>>

-----------------------------------------------------------------------------
(* The commit.                                                             *)

IsCreate(c) == intent[c].card = 0

\* Cards that show this commit as the last one written to them.
ReplayTargets(c) ==
    {id \in Ids : /\ Exists(id)
                  /\ cards[id].commit = c
                  /\ IsCreate(c) \/ id = intent[c].card}

Missing(c) == ~IsCreate(c) /\ ~Exists(intent[c].card)

\* Mutant: the revision may have moved on.
RevisionMatches_NotOlder(c) ==
    IsCreate(c) \/ cards[intent[c].card].revision >= intent[c].expected

\* A create expects revision 0 (the browser always sends that), an update the
\* revision the stored card has now.
RevisionMatches(c) ==
    IsCreate(c) \/ cards[intent[c].card].revision = intent[c].expected

\* collectStagedMediaReferences
StagedMedia(c) == IF intent[c].staged THEN {intent[c].media} ELSE {}

\* loadStagedMediaForCommit, and assertMediaKeyInSiteState for a reused key.
MediaUsable(c) ==
    /\ \A m \in StagedMedia(c) : staging[m] = "staged" /\ m \notin expired
    /\ intent[c].media \in (Uploads \ StagedMedia(c)) => intent[c].media \in library

\* getNextSwordId
NextId == Max({0} \cup {id \in Ids : Exists(id)}) + 1

Target(c) == IF IsCreate(c) THEN NextId ELSE intent[c].card

\* Mutant: an update keeps the revision.
NextRevision_Kept(c) ==
    IF IsCreate(c) THEN 1 ELSE cards[intent[c].card].revision

NextRevision(c) ==
    IF IsCreate(c) THEN 1 ELSE cards[intent[c].card].revision + 1

\* resolveCommittedMediaKeys
CommittedMedia(c) ==
    IF intent[c].media # Keep THEN intent[c].media
    ELSE IF IsCreate(c) THEN NoMedia ELSE cards[intent[c].card].media

NewRecord(c) ==
    [revision |-> NextRevision(c), media |-> CommittedMedia(c), commit |-> c,
     edits |-> 0]

NextCards(c) == [cards EXCEPT ![Target(c)] = NewRecord(c)]

RegistryDelta(c) ==
    LET before == Referenced(cards)
        after == Referenced(NextCards(c))
    IN [removed |-> before \ after, added |-> after \ before]

\* Validation reads the fresh state and the staged rows and writes nothing.
Admit(c) ==
    /\ pc[c] = "admit"
    /\ LET replayed == ReplayTargets(c) # {} IN
       IF Missing(c) \/ (~replayed /\ ~(RevisionMatches(c) /\ MediaUsable(c)))
       THEN Answer(c, "rejected")
       ELSE Continue(c, IF replayed THEN "relist" ELSE "unlist")
    /\ UNCHANGED <<past, stores, client, applied, legacy>>

\* updatePublicMediaRegistryDelta answers 503 while the registry is blocked.
RegistryBlocked(c) ==
    /\ pc[c] \in {"unlist", "list", "relist"}
    /\ ~ready
    /\ Answer(c, "retry")
    /\ UNCHANGED <<past, stores, client, applied, legacy>>

RemoveRows(c) ==
    /\ pc[c] = "unlist" /\ ready
    /\ Target(c) \in Ids
    /\ plan' = RegistryDelta(c)
    /\ rows' = rows \ plan'.removed
    /\ Proceed(c, "put")
    /\ UNCHANGED <<past, cards, library, staging, expired, objects, ready,
                   audited, client, applied, legacy>>

\* writeSiteStateObject: card, descriptors and usage in one put.
StoreEdit(c) ==
    /\ cards' = NextCards(c) /\ stored' = stored \cup {cards'}
    /\ library' = library \cup ({intent[c].media} \cap Uploads)
    /\ applied' = [applied EXCEPT ![c] = @ + 1]
    /\ UNCHANGED <<unstored, fallen>>

PutState(c) ==
    /\ pc[c] = "put"
    /\ StoreEdit(c)
    /\ Continue(c, "list")
    /\ UNCHANGED <<staging, expired, objects, rows, ready, audited, client,
                   legacy>>

\* The put fails, or only its answer does: the deleted rows are inserted again,
\* if that works, and the error is answered: 503 for a lost lock, else a final
\* one.
PutFails(c) ==
    /\ pc[c] = "put"
    /\ rows' \in {rows, rows \cup plan.removed}
    /\ \E a \in {"retry", "error"} : Answer(c, a)
    /\ \/ /\ unstored' = unstored \cup {NextCards(c)}
          /\ UNCHANGED <<cards, library, applied, stored, fallen>>
       \/ AmbiguousPuts /\ StoreEdit(c)
    /\ UNCHANGED <<staging, expired, objects, ready, audited, client, legacy>>

AddRows(c) ==
    /\ pc[c] = "list" /\ ready
    /\ rows' = rows \cup plan.added
    /\ Continue(c, "audit")
    /\ UNCHANGED <<past, cards, library, staging, expired, objects, ready,
                   audited, client, applied, legacy>>

\* INSERT OR IGNORE on the unique commit id.
WriteAudit(c) ==
    /\ pc[c] = "audit"
    /\ audited' = audited \cup {c}
    /\ Continue(c, "mark")
    /\ UNCHANGED <<past, cards, library, staging, expired, objects, rows,
                   ready, client, applied, legacy>>

\* UPDATE ... SET status = 'committed' WHERE status = 'staged'.
MarkedStaging(c) ==
    [u \in Uploads |-> IF u \in StagedMedia(c) /\ staging[u] = "staged"
                       THEN "committed" ELSE staging[u]]

MarkCommitted(c) ==
    /\ pc[c] = "mark"
    /\ staging' = MarkedStaging(c)
    /\ Answer(c, "ok")
    /\ UNCHANGED <<past, cards, library, expired, objects, rows, ready,
                   audited, client, applied, legacy>>

\* Mutant: the replay takes the audit row for written.
ReplayRows_NoAudit(c) ==
    /\ pc[c] = "relist" /\ ready
    /\ rows' = rows \cup KeysOf(cards[Min(ReplayTargets(c))])
    /\ Continue(c, "remark")
    /\ UNCHANGED <<past, cards, library, staging, expired, objects, ready,
                   audited, client, applied, legacy>>

\* The replay lists all media of the card and repeats what follows the put. It
\* ignores a failing last step.
ReplayRows(c) ==
    /\ pc[c] = "relist" /\ ready
    /\ rows' = rows \cup KeysOf(cards[Min(ReplayTargets(c))])
    /\ Continue(c, "reaudit")
    /\ UNCHANGED <<past, cards, library, staging, expired, objects, ready,
                   audited, client, applied, legacy>>

ReplayAudit(c) ==
    /\ pc[c] = "reaudit"
    /\ audited' = audited \cup {c}
    /\ Continue(c, "remark")
    /\ UNCHANGED <<past, cards, library, staging, expired, objects, rows,
                   ready, client, applied, legacy>>

ReplayMark(c) ==
    /\ pc[c] = "remark"
    /\ staging' = MarkedStaging(c) \/ UNCHANGED staging
    /\ Answer(c, "ok")
    /\ UNCHANGED <<past, cards, library, expired, objects, rows, ready,
                   audited, client, applied, legacy>>

-----------------------------------------------------------------------------
(* The other routes: clear the registry, change the state, rebuild the     *)
(* registry from it. The request may stop in between, which leaves the     *)
(* registry blocked until the next such request or maintenance.            *)

RouteBegin ==
    /\ holder = NoOne
    /\ LegacyRoutes # {}
    /\ legacy < MaxLegacy
    /\ legacy' = legacy + 1
    /\ holder' = "route"
    /\ rows' = {} /\ ready' = FALSE
    /\ UNCHANGED <<past, cards, library, staging, expired, objects, audited,
                   plan, pc, client, answer, applied>>

\* Cards that a write takes to an earlier revision, or away.
TakenBack(new) ==
    {id \in Ids : /\ Exists(id)
                  /\ new[id] = NoCard \/ new[id].revision < cards[id].revision}

\* updateSiteState: the state is read afresh, changed and put, which may fail.
RoutePut(new) ==
    /\ holder = "route" /\ new # cards
    /\ holder' = "routed"
    /\ \/ /\ cards' = new /\ stored' = stored \cup {new}
          /\ fallen' = fallen \cup TakenBack(new)
          /\ UNCHANGED unstored
       \/ /\ unstored' = unstored \cup {new}
          /\ UNCHANGED <<cards, stored, fallen>>
    /\ UNCHANGED <<library, staging, expired, objects, rows, ready, audited,
                   plan, pc, client, answer, applied, legacy>>

\* handleDeleteSword, in an isolate that has seen the card.
RouteDelete(id) ==
    /\ "delete" \in LegacyRoutes /\ Exists(id)
    /\ RoutePut([cards EXCEPT ![id] = NoCard])

\* handleUpdateSword, and a revert of a card the isolate holds: the record as it
\* is held there with other content; revision and last commit stay.
RouteUpdate(id) ==
    /\ "update" \in LegacyRoutes
    /\ \E list \in Held, media \in library \cup {NoMedia} :
          /\ list[id] # NoCard
          /\ RoutePut([cards EXCEPT ![id] =
                          [list[id] EXCEPT !.media = media, !.edits = legacy]])

\* handleCreateSword takes the next id of what the isolate holds; a revert
\* restores a card that is not there under its old id. Both write a first
\* revision.
RouteInsert(id) ==
    /\ "insert" \in LegacyRoutes
    /\ \E list \in Held : list[id] = NoCard
    /\ \E media \in library \cup {NoMedia} :
          RoutePut([cards EXCEPT ![id] = [revision |-> 1, media |-> media,
                                          commit |-> NoCommit, edits |-> legacy]])

\* handleReset, whose records carry the number of the request like all of these.
RouteReset == "reset" \in LegacyRoutes /\ RoutePut(Baseline(legacy))

\* synchronizePublicMediaRegistry; the maintenance's rebuild does the same.
RebuildRegistry ==
    /\ holder \in {"route", "routed"} \/ (holder = NoOne /\ ~ready)
    /\ rows' = Referenced(cards)
    /\ ready' = TRUE
    /\ holder' = NoOne
    /\ UNCHANGED <<past, cards, library, staging, expired, objects, audited,
                   plan, pc, client, answer, applied, legacy>>

RouteAbort ==
    /\ holder \in {"route", "routed"}
    /\ holder' = NoOne
    /\ UNCHANGED <<past, stores, plan, pc, client, answer, applied, legacy>>

\* Nobody presses Save again.
Quiet ==
    /\ holder = NoOne
    /\ \A c \in Commits : answer[c] \in {"ok", "rejected", "error"}
                          \/ tries[c] = MaxTries
    /\ UNCHANGED vars

-----------------------------------------------------------------------------
CommitStep(c) ==
    Save(c) \/ Begin(c) \/ Abort(c) \/ Admit(c) \/ RegistryBlocked(c)
    \/ RemoveRows(c) \/ PutState(c) \/ PutFails(c) \/ AddRows(c)
    \/ WriteAudit(c) \/ MarkCommitted(c)
    \/ ReplayRows(c) \/ ReplayAudit(c) \/ ReplayMark(c)

RouteStep ==
    RouteBegin \/ RebuildRegistry \/ RouteAbort
    \/ RouteReset
    \/ \E id \in Ids : RouteDelete(id) \/ RouteUpdate(id) \/ RouteInsert(id)

Next ==
    \/ \E c \in Commits : CommitStep(c)
    \/ \E u \in Uploads : StageUpload(u) \/ ExpireUpload(u)
    \/ CleanUp
    \/ RouteStep
    \/ Quiet

Spec == Init /\ [][Next]_vars

-----------------------------------------------------------------------------
(* Properties.                                                             *)

\* A stored state has shown the commit on a card.
WasStored(c) ==
    \E state \in stored : \E id \in Ids :
        state[id] # NoCard /\ state[id].commit = c

\* However often an update is sent again, and wherever its requests stopped,
\* it is written as a new edit at most once.
UpdateAppliedOnce == \A c \in Commits : ~IsCreate(c) => applied[c] <= 1

\* Beside the older routes, an update that is sent again is written a second time
\* only if one of them has taken its card to an earlier revision in between, with
\* what another isolate held, or has deleted it (worker.js:960).
WrittenAgainOnlyIfTakenBack ==
    \A c \in Commits : ~IsCreate(c) /\ applied[c] > 1 => intent[c].card \in fallen

\* What an update replaces is the very card its editor started from: an edit in
\* between is never overwritten (the revision check), unless the editor started
\* from a revision that was never stored, which an isolate held after a put that
\* failed (worker.js:2137), or an older route has changed the card, which it does
\* without a new revision, or with an earlier one.
NoEditOverwritten ==
    [][\A c \in Commits :
          applied'[c] > applied[c] /\ ~IsCreate(c)
             => LET id == intent[c].card IN
                \/ cards[id] = intent[c].seen
                \/ \A state \in stored : state[id] # intent[c].seen
                \/ cards[id].edits # 0 \/ id \in fallen]_vars

\* An editor who was told "saved" finds his edit in a state that was stored and a
\* row in the audit log, whichever of the commit's requests got how far.
SavedMeansAudited ==
    \A c \in Commits : answer[c] = "ok" => WasStored(c) /\ c \in audited

\* A save that went through in one request keeps its media: the cleanup of
\* staged uploads deletes nothing such a card shows, however late it runs.
CleanSaveKeepsMedia ==
    \A c \in Commits :
        answer[c] = "ok" /\ tries[c] = 1 /\ intent[c].staged
            => intent[c].media \in objects
=============================================================================
