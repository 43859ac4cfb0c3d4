-------------------------------- MODULE Uploads --------------------------------
(***************************************************************************)
(* Staged uploads: the edit form of the browser that prepares chosen files *)
(* and uploads them when the user saves (app.js), the requests that store  *)
(* an upload's objects and its row (staged-upload.js, staged-media-store), *)
(* the commit that uses the rows, and the scheduled removal of expired     *)
(* ones.                                                                   *)
(*                                                                         *)
(* A chosen file is one source; an upload is named by the id the worker    *)
(* gives it, stores its Parts objects (low, medium, original) one by one   *)
(* and then its row, of which there is one per idempotency key. The form   *)
(* can be closed, and opened on another card, while a save runs. The       *)
(* commit of a card shows the media and marks its rows afterwards; it and  *)
(* the removal hold the site-state lock (see SiteStateLock), uploads hold  *)
(* nothing. Revisions are CardCommit's: here a commit may be refused.      *)
(***************************************************************************)
EXTENDS Integers, FiniteSets

CONSTANTS
    Fields,          \* the media fields of the form
    Cards,           \* the cards there are
    NewCard,         \* the card that is being added
    Workers,         \* MEDIA_STAGE_CONCURRENCY
    Parts,           \* objects of an upload
    Ids,             \* bound: uploads, an interval from 1
    MaxEdits,        \* bound on what the user does in the form
    MaxFiles,        \* bound on files chosen, and on keys
    MaxSaves,        \* bound on saves
    MaxFaults,       \* bound on failures
    None

ASSUME NumberAssumption ==
    /\ {Workers, Parts, MaxFiles, MaxSaves} \subseteq Nat \ {0}
    /\ MaxEdits \in Nat /\ MaxFaults \in Nat
ASSUME SentinelAssumption ==
    /\ None \notin Nat /\ Ids \subseteq Nat \ {0}
    /\ None \notin Cards \cup {NewCard} /\ NewCard \notin Cards

VARIABLES
    card,            \* state.editingSwordId and isAddingSword
    form,            \* state.pendingMedia
    preparing,       \* files chosen and still being read
    cache,           \* state.stagedMedia
    save,            \* the saves begun
    job,             \* the uploads begun, and what became of them
    rows,            \* the table media_upload_staging
    objects,         \* the bucket
    sweep,           \* deleteExpiredStagedMedia
    shown,           \* history: uploads that cards came to use, by which save
    opened,          \* history: other cards opened while a save staged its files
    unmarked,        \* history: uploads of which the commit's mark was lost
    leaked,          \* history: uploads of which a failure left objects
    torn,            \* history: rows whose insertion was reported as failed
    edits, files, faults

client == <<card, form, preparing, cache, edits>>
server == <<rows, objects>>
history == <<shown, opened, unmarked, leaked, torn>>
vars == <<client, save, job, server, sweep, history, files, faults>>

-----------------------------------------------------------------------------
Files == 1..MaxFiles
Saves == 1..MaxSaves

\* An entry of the cache: its file, its idempotency key, and the id of the
\* upload once that is answered. A key is the id of the first upload with it.
NoEntry == [source |-> None, key |-> None, id |-> None]
Entry == [source : Files, key : Ids, id : Ids \cup {None}] \cup {NoEntry}

\* A save: whether the browser still waits for it, the card and the files it
\* snapshots, the fields its workers took, the ids it has, and how many of its
\* workers are left (a failed one ends); and what the commit is then sent with.
SaveStates == {"new", "staging", "sent", "marking", "resent", "failed", "done"}
Targets == Cards \cup {NewCard, None}
Save == [state : SaveStates, waits : {"yes", "no"}, card : Targets,
         wanted : [Fields -> Files \cup {None}], taken : SUBSET Fields,
         ready : [Fields -> Ids \cup {None}], workers : 0..Workers,
         target : Targets, body : SUBSET (Ids \X Files)]
NewSave == [state |-> "new", waits |-> "no", card |-> None,
            wanted |-> [f \in Fields |-> None], taken |-> {},
            ready |-> [f \in Fields |-> None], workers |-> 0,
            target |-> None, body |-> {}]

\* An upload: where its request is, whether the browser still waits ("yes"),
\* the objects it stored and the id it will answer with.
Running == {"find", "put", "insert", "drop", "clean"}
Steps == Running \cup {"new", "answer", "fail", "done"}
Job == [step : Steps, waits : {"yes", "no"}, save : 0..MaxSaves,
        field : Fields \cup {None}, source : Files \cup {None},
        key : Ids \cup {None}, stored : 0..Parts, id : Ids \cup {None}]
NewJob == [step |-> "new", waits |-> "no", save |-> 0, field |-> None,
           source |-> None, key |-> None, stored |-> 0, id |-> None]

\* A row: its key, and whether it is "staged", "committed" or "none".
Row == [key : Ids \cup {None}, status : {"none", "staged", "committed"},
        expired : BOOLEAN]
NoRow == [key |-> None, status |-> "none", expired |-> FALSE]

Present(id) == rows[id].status # "none"
Usable(id) == rows[id].status = "staged" /\ ~rows[id].expired
Stored(id) == {p \in 1..Parts : <<id, p>> \in objects}
Shown(id) == \E use \in shown : use[1] = id

TypeOK ==
    /\ card \in Targets
    /\ form \in [Fields -> Files \cup {None}]
    /\ preparing \subseteq Fields \X Files
    /\ cache \in [Fields -> Entry]
    /\ save \in [Saves -> Save]
    /\ job \in [Ids -> Job]
    /\ rows \in [Ids -> Row]
    /\ objects \subseteq Ids \X (1..Parts)
    /\ sweep \in [saw : SUBSET Ids, left : SUBSET (Ids \X (1..Parts))]
    /\ shown \subseteq Ids \X Files \X Saves
    /\ opened \subseteq Saves \X Targets
    /\ unmarked \subseteq Ids /\ leaked \subseteq Ids /\ torn \subseteq Ids
    /\ edits \in 0..MaxEdits /\ files \in 0..MaxFiles /\ faults \in 0..MaxFaults

Init ==
    /\ card = None
    /\ form = [f \in Fields |-> None]
    /\ preparing = {}
    /\ cache = [f \in Fields |-> NoEntry]
    /\ save = [n \in Saves |-> NewSave]
    /\ job = [id \in Ids |-> NewJob]
    /\ rows = [id \in Ids |-> NoRow]
    /\ objects = {}
    /\ sweep = [saw |-> {}, left |-> {}]
    /\ shown = {} /\ opened = {} /\ unmarked = {} /\ leaked = {} /\ torn = {}
    /\ edits = 0 /\ files = 0 /\ faults = 0

-----------------------------------------------------------------------------
(* The form.                                                               *)

\* setEditFormBusy: four buttons do not answer, of which Save is one. Everything
\* else does: the inputs, and Escape or a click beside the form, which close it.
Busy ==
    \E n \in Saves :
        /\ save[n].state \in {"staging", "sent", "marking", "resent"}
        /\ save[n].waits = "yes"

Edit == edits < MaxEdits /\ edits' = edits + 1

\* openEditModal and openAddModal
Open(c) ==
    /\ Edit
    /\ card' = c
    /\ form' = [f \in Fields |-> None]
    /\ cache' = [f \in Fields |-> NoEntry]
    /\ opened' = opened \cup
         {<<n, c>> : n \in {n \in Saves : /\ save[n].state = "staging"
                                          /\ save[n].card # c}}
    /\ UNCHANGED <<preparing, save, job, server, sweep, shown, unmarked, leaked,
                   torn, files, faults>>

\* closeModal, or openDetailModal from the browser's history: the files stay.
Close ==
    /\ Edit /\ card # None
    /\ card' = None
    /\ UNCHANGED <<form, preparing, cache, save, job, server, sweep, history,
                   files, faults>>

\* handleFileInput: the file is read and its smaller images are made.
Choose(f) ==
    /\ Edit /\ card # None /\ files < MaxFiles
    /\ files' = files + 1
    /\ preparing' = preparing \cup {<<f, files'>>}
    /\ UNCHANGED <<card, form, cache, save, job, server, sweep, history, faults>>

\* Its end, at any time, whatever the form is of by then.
Prepared(f, s) ==
    /\ <<f, s>> \in preparing
    /\ preparing' = preparing \ {<<f, s>>}
    /\ form' = [form EXCEPT ![f] = s]
    /\ cache' = [cache EXCEPT ![f] = NoEntry]
    /\ UNCHANGED <<card, edits, save, job, server, sweep, history, files, faults>>

\* clearPendingMedia
Clear(f) ==
    /\ Edit /\ card # None
    /\ form' = [form EXCEPT ![f] = None]
    /\ cache' = [cache EXCEPT ![f] = NoEntry]
    /\ UNCHANGED <<card, preparing, save, job, server, sweep, history, files,
                   faults>>

\* handleEditSubmit
Submit(n) ==
    /\ ~Busy /\ card # None /\ \E f \in Fields : form[f] # None
    /\ save[n].state = "new" /\ \A m \in 1..(n - 1) : save[m].state # "new"
    /\ save' = [save EXCEPT ![n] = [NewSave EXCEPT
                    !.state = "staging", !.waits = "yes", !.card = card,
                    !.wanted = form, !.workers = Workers]]
    /\ UNCHANGED <<client, job, server, sweep, history, files, faults>>

-----------------------------------------------------------------------------
(* stagePendingMedia. Its workers go on after one of them has failed and   *)
(* the save with it.                                                       *)

Uploading(n) == {id \in Ids : job[id].save = n /\ job[id].waits = "yes"}

\* A worker of n is free for the field.
Takes(n, f) ==
    /\ save[n].state \in {"staging", "failed"}
    /\ save[n].wanted[f] # None /\ f \notin save[n].taken
    /\ Cardinality(Uploading(n)) < save[n].workers

\* Mutant: an entry is used whatever file it is of.
Matches_Any(f, s) == cache[f].source # None
Matches(f, s) == cache[f].source = s

UseCached(n, f) ==
    /\ Takes(n, f)
    /\ Matches(f, save[n].wanted[f]) /\ cache[f].id # None
    /\ save' = [save EXCEPT ![n].taken = @ \cup {f},
                            ![n].ready[f] = cache[f].id]
    /\ UNCHANGED <<client, job, server, sweep, history, files, faults>>

\* An upload that was not answered is sent again with its key.
Upload(n, f, id) ==
    LET s == save[n].wanted[f]
        key == IF Matches(f, s) THEN cache[f].key ELSE id
    IN /\ Takes(n, f)
       /\ ~(Matches(f, s) /\ cache[f].id # None)
       /\ job[id].step = "new" /\ \A i \in 1..(id - 1) : job[i].step # "new"
       /\ cache' = [cache EXCEPT ![f] = [source |-> s, key |-> key, id |-> None]]
       /\ job' = [job EXCEPT ![id] = [NewJob EXCEPT
                    !.step = "find", !.waits = "yes", !.save = n, !.field = f,
                    !.source = s, !.key = key]]
       /\ save' = [save EXCEPT ![n].taken = @ \cup {f}]
       /\ UNCHANGED <<card, form, preparing, edits, server, sweep, history,
                      files, faults>>

Done(id) == job' = [job EXCEPT ![id].step = "done", ![id].waits = "no"]

\* A worker of a save that has failed still fills the cache.
Answer(id) ==
    LET n == job[id].save  f == job[id].field
    IN /\ job[id].step = "answer"
       /\ IF job[id].waits = "yes"
          THEN /\ cache' = [cache EXCEPT ![f] =
                    [source |-> job[id].source, key |-> job[id].key,
                     id |-> job[id].id]]
               /\ save' = [save EXCEPT ![n].ready[f] = job[id].id]
          ELSE UNCHANGED <<cache, save>>
       /\ Done(id)
       /\ UNCHANGED <<card, form, preparing, edits, server, sweep, history,
                      files, faults>>

\* The browser gets an error: the save fails and its worker ends.
Fails(n) ==
    [save EXCEPT ![n].state = IF @ = "staging" THEN "failed" ELSE @,
                 ![n].workers = @ - 1]

Refused(id) ==
    /\ job[id].step = "fail"
    /\ save' = IF job[id].waits = "yes" THEN Fails(job[id].save) ELSE save
    /\ Done(id)
    /\ UNCHANGED <<client, server, sweep, history, files, faults>>

Fault == faults < MaxFaults /\ faults' = faults + 1

\* The connection breaks, the request goes on.
Disconnect(id) ==
    /\ job[id].waits = "yes" /\ Fault
    /\ save' = Fails(job[id].save)
    /\ job' = [job EXCEPT ![id].waits = "no"]
    /\ UNCHANGED <<client, server, sweep, history, files>>

-----------------------------------------------------------------------------
(* handleStagedMediaUpload.                                                *)

Goto(id, step) == job' = [job EXCEPT ![id].step = step]
SameKey(id) == {r \in Ids : Present(r) /\ rows[r].key = job[id].key}

\* getReusableStagedMedia
Find(id) ==
    /\ job[id].step = "find"
    /\ IF \E r \in SameKey(id) : Usable(r)
       THEN \E r \in SameKey(id) :
              job' = [job EXCEPT ![id].step = "answer", ![id].id = r]
       ELSE Goto(id, "put")
    /\ UNCHANGED <<client, save, server, sweep, history, files, faults>>

\* The objects are named after the upload, not after the idempotency key.
Base(id) == id
OwnObjects(id) == {Base(id)} \X (1..job[id].stored)

Put(id) ==
    /\ job[id].step = "put"
    /\ job' = [job EXCEPT ![id].stored = @ + 1,
                   ![id].step = IF job[id].stored + 1 = Parts THEN "insert" ELSE @]
    /\ objects' = objects \cup {<<Base(id), job[id].stored + 1>>}
    /\ UNCHANGED <<client, save, rows, sweep, history, files, faults>>

\* The upload is not acceptable: nothing was stored yet.
Reject(id) ==
    /\ job[id].step = "put" /\ job[id].stored = 0 /\ Fault
    /\ Goto(id, "fail")
    /\ UNCHANGED <<client, save, server, sweep, history, files>>

\* An object cannot be stored; if it was all the same, nobody knows.
PutFails(id) ==
    /\ job[id].step = "put" /\ Fault
    /\ Goto(id, "clean")
    /\ \/ UNCHANGED <<objects, leaked>>
       \/ /\ objects' = objects \cup {<<Base(id), job[id].stored + 1>>}
          /\ leaked' = leaked \cup {id}
    /\ UNCHANGED <<client, save, rows, sweep, shown, opened, unmarked, torn, files>>

\* createStagedMedia: a second row with the key is not made, the answer is the
\* first. Mutant of what follows: the loser's objects stay.
Loser_Keeps(id) == "answer"
Loser(id) == "drop"
NewRow(id) == [key |-> job[id].key, status |-> "staged", expired |-> FALSE]

Insert(id) ==
    /\ job[id].step = "insert"
    /\ IF SameKey(id) # {}
       THEN /\ \E r \in SameKey(id) :
                 job' = [job EXCEPT ![id].step = Loser(id), ![id].id = r]
            /\ UNCHANGED rows
       ELSE /\ job' = [job EXCEPT ![id].step = "answer", ![id].id = id]
            /\ rows' = [rows EXCEPT ![id] = NewRow(id)]
    /\ UNCHANGED <<client, save, objects, sweep, history, files, faults>>

\* The statement fails, or only its answer does.
InsertFails(id) ==
    /\ job[id].step = "insert" /\ Fault
    /\ Goto(id, "clean")
    /\ \/ UNCHANGED <<rows, torn>>
       \/ /\ SameKey(id) = {}
          /\ rows' = [rows EXCEPT ![id] = NewRow(id)]
          /\ torn' = torn \cup {id}
    /\ UNCHANGED <<client, save, objects, sweep, shown, opened, unmarked, leaked,
                   files>>

\* The upload deletes what it stored, as the loser or after an error. A
\* deletion that fails is not noticed.
Delete(id) ==
    /\ job[id].step \in {"drop", "clean"}
    /\ \/ /\ objects' = objects \ OwnObjects(id)
          /\ UNCHANGED <<leaked, faults>>
       \/ \E o \in OwnObjects(id) :
            /\ objects' = objects \ (OwnObjects(id) \ {o})
            /\ leaked' = leaked \cup {id}
            /\ Fault
    /\ Goto(id, IF job[id].step = "drop" THEN "answer" ELSE "fail")
    /\ UNCHANGED <<client, save, rows, sweep, shown, opened, unmarked, torn, files>>

\* The worker dies with the request.
Die(id) ==
    /\ job[id].step \in Running /\ Fault
    /\ leaked' = IF job[id].stored > 0 THEN leaked \cup {id} ELSE leaked
    /\ Goto(id, "fail")
    /\ UNCHANGED <<client, save, server, sweep, shown, opened, unmarked, torn,
                   files>>

-----------------------------------------------------------------------------
(* The commit, and the end of what was not committed.                      *)

Sweeping == sweep.saw # {}
Free == ~Sweeping /\ \A n \in Saves : save[n].state # "marking"

\* All is staged: the commit is sent, for the card that the form is now of, with
\* the files that it held then.
Send(n) ==
    /\ save[n].state = "staging"
    /\ \A f \in Fields : save[n].wanted[f] # None => save[n].ready[f] # None
    /\ save' = [save EXCEPT
         ![n].state = "sent", ![n].target = card,
         ![n].body = {<<save[n].ready[f], save[n].wanted[f]>> :
                        f \in {f \in Fields : save[n].ready[f] # None}}]
    /\ UNCHANGED <<client, job, server, sweep, history, files, faults>>

SentIds(n) == {use[1] : use \in save[n].body}
Becomes(n, state) == save' = [save EXCEPT ![n].state = state]

\* The connection breaks, the request goes on.
HangUp(n) ==
    /\ save[n].state \in {"sent", "marking", "resent"} /\ save[n].waits = "yes"
    /\ Fault
    /\ save' = [save EXCEPT ![n].waits = "no"]
    /\ UNCHANGED <<client, job, server, sweep, history, files>>

\* handleEditorCardCommit: all must be usable. The revision that the form was
\* filled with is never that of a card being added, nor the other way round.
Commit(n) ==
    /\ save[n].state = "sent" /\ Free
    /\ save[n].target # None
    /\ (save[n].target = NewCard) <=> (save[n].card = NewCard)
    /\ \A id \in SentIds(n) : Usable(id)
    /\ Becomes(n, "marking")
    /\ shown' = shown \cup {<<use[1], use[2], n>> : use \in save[n].body}
    /\ UNCHANGED <<client, job, server, sweep, opened, unmarked, leaked, torn,
                   files, faults>>

CommitRefused(n) ==
    /\ save[n].state = "sent" /\ Free
    /\ Becomes(n, "failed")
    /\ UNCHANGED <<client, job, server, sweep, history, files, faults>>

\* markStagedMediaCommitted: an upload that it finds usable is safe from then on.
\* Mutant: it looks at the expiry, as the commit did.
Unmarked(n) == unmarked \ {id \in SentIds(n) : Usable(id)}
Marks_Unexpired(n) ==
    /\ rows' = [id \in Ids |->
                  IF id \in SentIds(n) /\ Usable(id)
                  THEN [rows[id] EXCEPT !.status = "committed"] ELSE rows[id]]
    /\ unmarked' = Unmarked(n)
Marks(n) ==
    /\ rows' = [id \in Ids |->
                  IF id \in SentIds(n) /\ rows[id].status = "staged"
                  THEN [rows[id] EXCEPT !.status = "committed"] ELSE rows[id]]
    /\ unmarked' = Unmarked(n)

\* The save succeeds, and closes whatever the form is of.
Saved(n) ==
    /\ Becomes(n, "done")
    /\ card' = IF save[n].waits = "yes" THEN None ELSE card
    /\ UNCHANGED <<form, preparing, cache, edits>>

Mark(n) ==
    /\ save[n].state = "marking"
    /\ Saved(n) /\ Marks(n)
    /\ UNCHANGED <<job, objects, sweep, shown, opened, leaked, torn, files, faults>>

\* The commit is stored, and ends in an error or not at all.
MarkFails(n) ==
    /\ save[n].state = "marking" /\ Fault
    /\ Becomes(n, IF save[n].waits = "yes" THEN "resent" ELSE "failed")
    /\ unmarked' = unmarked \cup SentIds(n)
    /\ UNCHANGED <<client, job, server, sweep, shown, opened, leaked, torn, files>>

\* commitCardWithRetry: it is recognised, and marks its rows. That this fails, too,
\* is ignored.
Replay(n) ==
    /\ save[n].state = "resent" /\ Free
    /\ Saved(n)
    /\ Marks(n) \/ UNCHANGED <<rows, unmarked>>
    /\ UNCHANGED <<job, objects, sweep, shown, opened, leaked, torn, files, faults>>

\* The error is none that is tried again, or it was tried often enough.
GiveUp(n) ==
    /\ save[n].state = "resent"
    /\ Becomes(n, "failed")
    /\ UNCHANGED <<client, job, server, sweep, history, files, faults>>

\* STAGE_TTL_MS after the upload began; no upload is as slow as that.
Expire(id) ==
    /\ Present(id) /\ ~rows[id].expired /\ job[id].step \notin Running
    /\ rows' = [rows EXCEPT ![id].expired = TRUE]
    /\ UNCHANGED <<client, save, job, objects, sweep, history, files, faults>>

SweepSelect ==
    LET saw == {id \in Ids : Present(id) /\ rows[id].expired}
    IN /\ Free /\ saw # {}
       /\ sweep' = [saw |-> saw,
                    left |-> {id \in saw : rows[id].status # "committed"}
                               \X (1..Parts)]
       /\ UNCHANGED <<client, save, job, server, history, files, faults>>

SweepObject ==
    /\ \E o \in sweep.left :
         /\ objects' = objects \ {o}
         /\ sweep' = [sweep EXCEPT !.left = @ \ {o}]
    /\ UNCHANGED <<client, save, job, rows, history, files, faults>>

Swept == sweep.left = {}

SweepRows ==
    /\ Sweeping /\ Swept
    /\ rows' = [id \in Ids |-> IF id \in sweep.saw THEN NoRow ELSE rows[id]]
    /\ sweep' = [saw |-> {}, left |-> {}]
    /\ UNCHANGED <<client, save, job, objects, history, files, faults>>

\* The rows stay for the next one.
SweepFails ==
    /\ Sweeping /\ Fault
    /\ sweep' = [saw |-> {}, left |-> {}]
    /\ UNCHANGED <<client, save, job, server, history, files>>

-----------------------------------------------------------------------------
Request(id) ==
    Find(id) \/ Put(id) \/ Reject(id) \/ PutFails(id) \/ Insert(id)
    \/ InsertFails(id) \/ Delete(id) \/ Die(id) \/ Answer(id) \/ Refused(id)
    \/ Disconnect(id)

Finishes(n) ==
    Send(n) \/ HangUp(n) \/ Commit(n) \/ CommitRefused(n) \/ Mark(n)
    \/ MarkFails(n) \/ Replay(n) \/ GiveUp(n)

Next ==
    \/ \E f \in Fields : Choose(f) \/ Clear(f) \/ \E s \in Files : Prepared(f, s)
    \/ Close \/ \E c \in Cards \cup {NewCard} : Open(c)
    \/ \E n \in Saves : Submit(n) \/ Finishes(n)
    \/ \E n \in Saves, f \in Fields :
         UseCached(n, f) \/ \E id \in Ids : Upload(n, f, id)
    \/ \E id \in Ids : Request(id) \/ Expire(id)
    \/ SweepSelect \/ SweepObject \/ SweepRows \/ SweepFails

Spec == Init /\ [][Next]_vars

-----------------------------------------------------------------------------
(* Properties.                                                             *)

\* Media that a commit would accept, or that a card shows, has all its objects,
\* although uploads with one key raced, one of them deleted its own, rows were
\* marked after the card showed them, and the removal ran (staged-upload.js:114,
\* staged-media-store.js:22, worker.js:1051). It does not hold of a row whose
\* insertion was reported as failed, nor, once its row has expired, of media
\* whose mark was lost: see README.
UsableMediaIsComplete ==
    \A id \in Ids :
        (Usable(id) \/ (Shown(id) /\ id \notin unmarked)) /\ id \notin torn
            => Stored(id) = 1..Parts

\* A card shows the files that the form held when Save was pressed, although
\* workers of an earlier save still filled the cache and other files were
\* chosen meanwhile, and the card is the one that the form was of then, or one
\* that was opened in it before all was staged (app.js:2078, app.js:2017).
CardsShowWhatWasSaved ==
    \A use \in shown :
        LET s == save[use[3]]
        IN /\ job[use[1]].source = use[2]
           /\ s.target = s.card \/ <<use[3], s.target>> \in opened

\* Every object belongs to an upload under way, to a row through which it will
\* be removed, to a card, or to a failure that is known to leave objects
\* (staged-upload.js:114, staged-media-store.js:120).
NothingIsOrphaned ==
    \A o \in objects :
        \/ job[o[1]].step \in Running
        \/ Present(o[1])
        \/ Shown(o[1])
        \/ o[1] \in leaked
================================================================================
