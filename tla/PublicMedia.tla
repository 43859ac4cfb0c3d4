---------------------------- MODULE PublicMedia ----------------------------
(***************************************************************************)
(* Which media the public may fetch (security/public-media-registry.js and *)
(* media/public-delivery.js). A D1 table lists the authorised keys and a   *)
(* marker row says whether the list may be trusted. Requests that change   *)
(* the site hold the site-state lock and keep the list in step with the    *)
(* state; public reads hold no lock, yet they too write: the first one     *)
(* builds a missing list, and one that misses its key repairs the list     *)
(* from the state it reads. Between its reads and its writes anything else *)
(* may run.                                                                *)
(*                                                                         *)
(* shown is collectLivePhysicalMediaKeys of the stored site state. The     *)
(* WeakMap caches of public-delivery.js are keyed by the bucket wrapper,   *)
(* which is made anew for every request, so they never answer and are left *)
(* out.                                                                    *)
(***************************************************************************)
EXTENDS Naturals

CONSTANTS
    Keys,          \* physical media keys
    Readers,       \* public requests, one each
    NoReader,
    NoKey,
    MaxMutations   \* bound: requests that change the site

ASSUME SentinelAssumption == NoReader \notin Readers /\ NoKey \notin Keys
ASSUME BoundAssumption == MaxMutations \in Nat

VARIABLES
    shown,        \* keys the stored site state shows
    marker,       \* "absent", "claimed", "ready" or "blocked"
    claimant,     \* whose claim a claimed marker carries
    rows,         \* public_media_registry
    mutator,      \* the lock holder: "none", or where its request stands
    removed,      \* a commit's keys to remove and to add
    added,
    mutations,    \* requests begun that change the site
    pc,           \* where each public request stands
    key,          \* the key it asks for
    seen,         \* the keys the state showed when it was read
    everShown,    \* history: keys shown at some time
    alwaysShown   \* history: keys shown at all times

registry == <<marker, claimant, rows>>
writer == <<mutator, removed, added, mutations>>
reader == <<pc, key, seen>>
history == <<everShown, alwaysShown>>
vars == <<shown, registry, writer, reader, history>>

Answered == {"served", "refused", "failed"}

TypeOK ==
    /\ shown \in SUBSET Keys
    /\ marker \in {"absent", "claimed", "ready", "blocked"}
    /\ claimant \in Readers \cup {NoReader}
    /\ (claimant # NoReader) = (marker = "claimed")
    /\ rows \in SUBSET Keys
    /\ mutator \in {"none", "cleared", "changed", "unlisted", "written"}
    /\ removed \in SUBSET Keys /\ added \in SUBSET Keys
    /\ mutations \in Nat
    /\ pc \in [Readers -> {"new", "init", "claimed", "install", "lookup",
                           "row", "repair", "check", "insert"} \cup Answered]
    /\ key \in [Readers -> Keys \cup {NoKey}]
    /\ seen \in [Readers -> SUBSET Keys]
    /\ everShown \in SUBSET Keys
    /\ alwaysShown \in SUBSET Keys

\* A site with some media, before or after its list was first built.
Init ==
    /\ shown \in SUBSET Keys
    /\ \/ marker = "absent" /\ rows = {}
       \/ marker = "ready" /\ rows = shown
    /\ claimant = NoReader
    /\ mutator = "none"
    /\ removed = {} /\ added = {}
    /\ mutations = 0
    /\ pc = [r \in Readers |-> "new"]
    /\ key = [r \in Readers |-> NoKey]
    /\ seen = [r \in Readers |-> {}]
    /\ everShown = shown
    /\ alwaysShown = shown

Goto(r, label) == pc' = [pc EXCEPT ![r] = label]

\* The state is put: the keys it shows become keys.
Show(keys) ==
    /\ shown' = keys
    /\ everShown' = everShown \cup keys
    /\ alwaysShown' = alwaysShown \cap keys

-----------------------------------------------------------------------------
(* Requests that change the site, one at a time under the lock.            *)

BeginMutation ==
    /\ mutator = "none"
    /\ mutations < MaxMutations
    /\ mutations' = mutations + 1

\* clearPublicMediaRegistry: one batch.
Clear ==
    /\ BeginMutation
    /\ rows' = {}
    /\ marker' = "blocked" /\ claimant' = NoReader
    /\ mutator' = "cleared"
    /\ UNCHANGED <<shown, removed, added, reader, history>>

ChangeState ==
    /\ mutator = "cleared"
    /\ \E keys \in SUBSET Keys : Show(keys)
    /\ mutator' = "changed"
    /\ UNCHANGED <<registry, removed, added, mutations, reader>>

\* Mutant: the old rows are not deleted first.
ReplaceRows_KeepOld ==
    /\ rows' = rows \cup shown
    /\ marker' = "ready" /\ claimant' = NoReader

\* replacePublicMediaRegistry: delete, insert and mark ready in one batch.
ReplaceRows ==
    /\ rows' = shown
    /\ marker' = "ready" /\ claimant' = NoReader

\* The request rebuilds the list, its handler having failed or not.
Synchronize ==
    /\ mutator \in {"cleared", "changed"}
    /\ ReplaceRows
    /\ mutator' = "none"
    /\ UNCHANGED <<shown, removed, added, mutations, reader, history>>

\* Mutant: the rows are inserted before the state is put.
CommitUnlist_ListFirst ==
    /\ marker = "ready"
    /\ BeginMutation
    /\ \E keys \in SUBSET Keys :
          /\ removed' = shown \ keys
          /\ added' = keys \ shown
    /\ rows' = (rows \ removed') \cup added'
    /\ mutator' = "unlisted"
    /\ UNCHANGED <<shown, marker, claimant, reader, history>>

\* An editor's commit needs a trusted list, and deletes rows first.
CommitUnlist ==
    /\ marker = "ready"
    /\ BeginMutation
    /\ \E keys \in SUBSET Keys :
          /\ removed' = shown \ keys
          /\ added' = keys \ shown
    /\ rows' = rows \ removed'
    /\ mutator' = "unlisted"
    /\ UNCHANGED <<shown, marker, claimant, reader, history>>

CommitPut ==
    /\ mutator = "unlisted"
    /\ Show((shown \ removed) \cup added)
    /\ mutator' = "written"
    /\ UNCHANGED <<registry, removed, added, mutations, reader>>

EndCommit ==
    mutator' = "none" /\ removed' = {} /\ added' = {}

\* The put answered an error, having stored nothing or the new state all the
\* same: the rows are put back.
CommitRollBack ==
    /\ mutator \in {"unlisted", "written"}
    /\ rows' = rows \cup removed
    /\ EndCommit
    /\ UNCHANGED <<shown, marker, claimant, mutations, reader, history>>

CommitList ==
    /\ mutator = "written"
    /\ rows' = rows \cup added
    /\ EndCommit
    /\ UNCHANGED <<shown, marker, claimant, mutations, reader, history>>

\* The request dies, and its lease with it.
AbortMutation ==
    /\ mutator # "none"
    /\ EndCommit
    /\ UNCHANGED <<shown, registry, mutations, reader, history>>

\* Scheduled maintenance, the stage registry-init: a list that is missing,
\* blocked or half claimed is rebuilt; a trusted one is left as it is.
\* Mutant: only a list that was never built is.
NeedsRebuild_Absent == marker = "absent"

NeedsRebuild == marker # "ready"

Maintain ==
    /\ mutator = "none"
    /\ NeedsRebuild
    /\ ReplaceRows
    /\ UNCHANGED <<shown, writer, reader, history>>

-----------------------------------------------------------------------------
(* Public requests.                                                        *)

Ask(r) ==
    /\ pc[r] = "new"
    /\ \E k \in Keys : key' = [key EXCEPT ![r] = k]
    /\ Goto(r, "init")
    /\ UNCHANGED <<shown, registry, writer, seen, history>>

\* initializePublicMediaRegistry: only a missing marker is claimed; INSERT ...
\* DO NOTHING lets one reader win.
ClaimOrPass(r) ==
    /\ pc[r] = "init"
    /\ \/ /\ marker = "absent"
          /\ marker' = "claimed" /\ claimant' = r
          /\ Goto(r, "claimed")
       \/ /\ marker # "absent"
          /\ Goto(r, "lookup")
          /\ UNCHANGED <<marker, claimant>>
    /\ UNCHANGED <<shown, rows, writer, key, seen, history>>

ReadState(r) == seen' = [seen EXCEPT ![r] = shown]

ClaimRead(r) ==
    /\ pc[r] = "claimed"
    /\ ReadState(r)
    /\ Goto(r, "install")
    /\ UNCHANGED <<shown, registry, writer, key, history>>

\* replaceClaimedPublicMediaRegistry: the rows are replaced whoever holds the
\* marker now; the marker becomes ready only if the claim is still there.
ClaimInstall(r) ==
    /\ pc[r] = "install"
    /\ rows' = seen[r]
    /\ \/ claimant = r /\ marker' = "ready" /\ claimant' = NoReader
       \/ claimant # r /\ UNCHANGED <<marker, claimant>>
    /\ seen' = [seen EXCEPT ![r] = {}]
    /\ Goto(r, "lookup")
    /\ UNCHANGED <<shown, writer, key, history>>

\* The claimant cannot read the state and takes its claim back, or is gone
\* before it can. A failing batch leaves the claim: the promise is returned out
\* of the try block, so its catch does not run.
ClaimFails(r) ==
    /\ pc[r] \in {"claimed", "install"}
    /\ \/ /\ pc[r] = "claimed" /\ claimant = r
          /\ marker' = "absent" /\ claimant' = NoReader
       \/ UNCHANGED <<marker, claimant>>
    /\ seen' = [seen EXCEPT ![r] = {}]
    /\ Goto(r, "failed")
    /\ UNCHANGED <<shown, rows, writer, key, history>>

\* isPublicMediaKey reads the marker, then the row.
LookUpMarker(r) ==
    /\ pc[r] = "lookup"
    /\ Goto(r, IF marker = "ready" THEN "row" ELSE "repair")
    /\ UNCHANGED <<shown, registry, writer, key, seen, history>>

LookUpRow(r) ==
    /\ pc[r] = "row"
    /\ Goto(r, IF key[r] \in rows THEN "served" ELSE "repair")
    /\ UNCHANGED <<shown, registry, writer, key, seen, history>>

\* Mutants: the state is not asked; only a trusted list is repaired.
RepairRead_AnyKey(r) ==
    /\ pc[r] = "repair"
    /\ ReadState(r) /\ Goto(r, "check")
    /\ UNCHANGED <<shown, registry, writer, key, history>>
RepairRead_TrustedOnly(r) ==
    /\ pc[r] = "repair"
    /\ ReadState(r)
    /\ Goto(r, IF key[r] \in shown /\ marker = "ready"
               THEN "check" ELSE "refused")
    /\ UNCHANGED <<shown, registry, writer, key, history>>

\* repairAndAuthorizeLiveMediaKey: a key the state shows will be served.
RepairRead(r) ==
    /\ pc[r] = "repair"
    /\ \/ key[r] \in shown /\ ReadState(r) /\ Goto(r, "check")
       \/ key[r] \notin shown /\ Goto(r, "refused") /\ UNCHANGED seen
    /\ UNCHANGED <<shown, registry, writer, key, history>>

Serve(r) ==
    /\ Goto(r, "served")
    /\ seen' = [seen EXCEPT ![r] = {}]

\* Its row goes into a list that is trusted when the marker is read. A list
\* that is not, or a failing statement, is logged and ignored.
RepairCheck(r) ==
    /\ pc[r] = "check"
    /\ \/ marker = "ready" /\ Goto(r, "insert") /\ UNCHANGED seen
       \/ Serve(r)
    /\ UNCHANGED <<shown, registry, writer, key, history>>

RepairInsert(r) ==
    /\ pc[r] = "insert"
    /\ rows' = rows \cup {key[r]}
    /\ Serve(r)
    /\ UNCHANGED <<shown, marker, claimant, writer, key, history>>

-----------------------------------------------------------------------------
MutatorStep ==
    Clear \/ ChangeState \/ Synchronize \/ CommitUnlist \/ CommitPut
    \/ CommitRollBack \/ CommitList \/ AbortMutation
ReaderStep(r) ==
    Ask(r) \/ ClaimOrPass(r) \/ ClaimRead(r) \/ ClaimInstall(r)
    \/ ClaimFails(r) \/ LookUpMarker(r) \/ LookUpRow(r)
    \/ RepairRead(r) \/ RepairCheck(r) \/ RepairInsert(r)

Next == MutatorStep \/ Maintain \/ (\E r \in Readers : ReaderStep(r))

Spec == Init /\ [][Next]_vars

\* The scheduled maintenance runs every day, and a request that holds the lock
\* ends, dies or loses its lease.
FairSpec ==
    /\ Spec
    /\ SF_vars(Maintain)
    /\ WF_vars(ChangeState \/ Synchronize \/ CommitPut \/ CommitRollBack
               \/ CommitList \/ AbortMutation)

-----------------------------------------------------------------------------
(* Properties.                                                             *)

\* Media is served only if some stored state showed it: a staged upload stays
\* private until its commit has been written, whatever the list went through.
OnlyPublishedMediaIsServed ==
    \A r \in Readers : pc[r] = "served" => key[r] \in everShown

\* A key every state has shown is never refused, not even while the list is
\* missing, claimed, blocked, half rebuilt or replaced by an older one.
ShownMediaIsNeverRefused ==
    \A r \in Readers : pc[r] = "refused" => key[r] \notin alwaysShown

\* The list gains a key the state does not show in two ways only: from a public
\* read that saw the state before the key was removed, or when the removal itself
\* is rolled back although its put, which answered an error, had stored it. No
\* other step of a commit and no rebuild under the lock lists one.
StaleRowsHaveTwoSources ==
    [][\A k \in rows' \ rows :
          \/ k \in shown'
          \/ \E r \in Readers : k \in seen[r]
          \/ mutator = "written" /\ k \in removed]_vars

\* The step that makes the list trusted makes it exact: a public read that has
\* claimed the list and read the state can finish only while its claim stands,
\* and while that stands nobody changes the state.
RebuiltListIsExact ==
    [][marker # "ready" /\ marker' = "ready" => rows' = shown']_vars

\* A list that is missing, claimed by a dead reader or blocked by a request
\* that died is trusted again: the maintenance rebuilds it.
ListRecovers == (marker # "ready") ~> (marker = "ready")
=============================================================================
