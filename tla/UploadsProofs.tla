----------------------------- MODULE UploadsProofs -----------------------------
(***************************************************************************)
(* What holds of staged uploads for any form, any number of workers,       *)
(* objects, files, saves and failures.                                     *)
(*                                                                         *)
(* The inductive invariant follows an upload. Its key is the id of the     *)
(* first upload of its file, so whatever id it is answered with is one of  *)
(* the same file. Its row appears when all its objects are stored, and     *)
(* from then on only the removal deletes them, which takes the objects of  *)
(* expired rows: no commit finds those any more, and one that found them   *)
(* before holds the lock until it has marked them, or its mark is lost.    *)
(***************************************************************************)
EXTENDS Uploads, FiniteSetTheorems, TLAPS

Started(id) == id \in Ids /\ job[id].step # "new"

\* The upload id was begun for the file s.
IsOf(id, s) == Started(id) /\ job[id].source = s /\ s \in Files

\* An upload is for a field of a save that was begun, and for the file that the
\* save wanted there.
UploadsAreWanted ==
    \A id \in Ids :
        /\ Started(id) =>
             /\ job[id].save \in Saves /\ job[id].field \in Fields
             /\ save[job[id].save].state # "new"
             /\ IsOf(id, save[job[id].save].wanted[job[id].field])
        /\ job[id].waits = "yes" => Started(id)

\* A key names an upload of the file it is used for.
KeysNameFiles ==
    /\ \A id \in Ids : Started(id) => IsOf(job[id].key, job[id].source)
    /\ \A f \in Fields : cache[f] # NoEntry => IsOf(cache[f].key, cache[f].source)

\* Every id that was answered is of the file it was answered for, at each place
\* it gets to.
AnswersAreRight ==
    /\ \A id \in Ids :
         /\ job[id].id # None => Started(id) /\ IsOf(job[id].id, job[id].source)
         /\ job[id].step \in {"drop", "answer"} => job[id].id # None
    /\ \A f \in Fields : cache[f].id # None => IsOf(cache[f].id, cache[f].source)
    /\ \A n \in Saves, f \in Fields :
         save[n].ready[f] # None => IsOf(save[n].ready[f], save[n].wanted[f])
    /\ \A n \in Saves : \A use \in save[n].body : IsOf(use[1], use[2])
    /\ \A use \in shown : IsOf(use[1], use[2])

\* Each upload that the browser waits for has a worker.
WorkersSuffice ==
    \A n \in Saves : /\ IsFiniteSet(Uploading(n))
                     /\ Cardinality(Uploading(n)) <= save[n].workers

\* A row, and a card's use, are of an upload that has answered, or whose insertion
\* was reported as failed. A row that a card uses is marked, unless its mark is
\* still to be made or was lost.
BeingMarked(id) == \E n \in Saves : save[n].state = "marking" /\ id \in SentIds(n)
RowsAreAnswered ==
    \A id \in Ids :
        /\ Present(id) => rows[id].key = job[id].key
        /\ Present(id) \/ Shown(id) =>
             \/ job[id].step \in {"answer", "fail", "done"}
             \/ job[id].step = "clean" /\ id \in torn
        /\ rows[id].status = "committed" => Shown(id)
        /\ Present(id) /\ Shown(id) =>
             rows[id].status = "committed" \/ id \in unmarked \/ BeingMarked(id)
        /\ Present(id) /\ rows[id].expired => job[id].step \notin Running

\* The objects of an upload are those it has stored so far.
StoredSoFar(id) ==
    /\ job[id].step \in {"new", "find"} => Stored(id) = {} /\ job[id].stored = 0
    /\ job[id].step = "put" => job[id].stored < Parts
    /\ job[id].step = "insert" => job[id].stored = Parts
    /\ job[id].step \in {"put", "insert"} => Stored(id) = 1..job[id].stored
    /\ job[id].step \in {"drop", "clean"} =>
         Stored(id) \subseteq 1..job[id].stored \/ id \in leaked
ObjectsAreStored == \A id \in Ids : StoredSoFar(id)

\* The removal has still to delete what there is of the uncommitted uploads that
\* it saw, and none of those can be committed.
SweepIsSafe ==
    /\ \A id \in sweep.saw :
         /\ Present(id) /\ rows[id].expired /\ job[id].step \notin Running
         /\ rows[id].status # "committed" =>
              \A p \in Stored(id) : <<id, p>> \in sweep.left
    /\ \A o \in sweep.left :
         o[1] \in sweep.saw /\ rows[o[1]].status # "committed"

\* What a stored commit was sent with is shown, and while its marks are to be made
\* it holds the lock.
CommitsAreShown ==
    /\ \A n \in Saves : save[n].state \in {"marking", "resent"} =>
                          \A id \in SentIds(n) : Shown(id)
    /\ Sweeping => \A n \in Saves : save[n].state # "marking"

\* The card that a save is sent for is the one it was begun on, or was opened
\* while it staged its files; a shown upload was sent for a card.
MayTarget(n, c) == c \in {None, save[n].card} \/ <<n, c>> \in opened
TargetsAreOpened ==
    /\ \A n \in Saves :
         /\ MayTarget(n, save[n].target)
         /\ save[n].state = "staging" => MayTarget(n, card)
    /\ \A use \in shown :
         /\ use[3] \in Saves /\ save[use[3]].target # None
         /\ save[use[3]].state \notin {"new", "staging", "sent"}

IInv ==
    /\ TypeOK /\ UploadsAreWanted /\ KeysNameFiles /\ AnswersAreRight
    /\ WorkersSuffice /\ RowsAreAnswered /\ ObjectsAreStored /\ SweepIsSafe
    /\ CommitsAreShown /\ TargetsAreOpened
    /\ UsableMediaIsComplete /\ NothingIsOrphaned

USE NumberAssumption, SentinelAssumption

-----------------------------------------------------------------------------
(* What a step does to one upload, one field, one save, one row.           *)

\* The request of an upload takes a step.
Serves(id) ==
    Find(id) \/ Put(id) \/ Reject(id) \/ PutFails(id) \/ Insert(id)
    \/ InsertFails(id) \/ Delete(id) \/ Die(id)

\* The user does something in the form, or a file is ready there.
Edits ==
    \/ Close \/ \E c \in Cards \cup {NewCard} : Open(c)
    \/ \E f \in Fields : Choose(f) \/ Clear(f) \/ \E s \in Files : Prepared(f, s)

\* That concerns the form only.
FormOnly == UNCHANGED <<save, job, rows, objects, sweep, shown, unmarked, leaked,
                        torn, faults>>
LEMMA EditsKeep ==
    ASSUME Edits
    PROVE  /\ FormOnly /\ opened \subseteq opened'
           /\ UNCHANGED opened \/ \E c \in Cards \cup {NewCard} : Open(c)
<1>1. CASE Close
  BY <1>1 DEF Close, FormOnly, server, history
<1>2. ASSUME NEW c \in Cards \cup {NewCard}, Open(c)
      PROVE  FormOnly /\ opened \subseteq opened'
  BY <1>2 DEF Open, FormOnly, server
<1>3. ASSUME NEW f \in Fields, Choose(f) \/ Clear(f) PROVE FormOnly /\ UNCHANGED opened
  BY <1>3 DEF Choose, Clear, FormOnly, server, history
<1>4. ASSUME NEW f \in Fields, NEW s \in Files, Prepared(f, s)
      PROVE  FormOnly /\ UNCHANGED opened
  BY <1>4 DEF Prepared, FormOnly, server, history
<1> QED
  BY <1>1, <1>2, <1>3, <1>4 DEF Edits

\* A save begins, or goes on when its files are staged.
SaveOnly == UNCHANGED <<form, preparing, cache, files, edits, job, objects, sweep,
                        opened, leaked, torn>>
LEMMA SavesKeep ==
    ASSUME NEW n \in Saves, Submit(n) \/ Finishes(n)
    PROVE  /\ SaveOnly
           /\ UNCHANGED shown \/ Commit(n)
           /\ UNCHANGED rows \/ ((Mark(n) \/ Replay(n)) /\ Marks(n))
           /\ UNCHANGED unmarked \/ MarkFails(n) \/ ((Mark(n) \/ Replay(n)) /\ Marks(n))
           /\ UNCHANGED card \/ card' = None
<1>1. CASE Submit(n) \/ Send(n) \/ HangUp(n) \/ CommitRefused(n) \/ GiveUp(n)
  BY <1>1 DEF Submit, Send, HangUp, CommitRefused, GiveUp, SaveOnly, client, server, history
<1>2. CASE Commit(n)
  BY <1>2 DEF Commit, SaveOnly, client, server
<1>3. CASE MarkFails(n)
  BY <1>3 DEF MarkFails, SaveOnly, client, server
<1>4. CASE Mark(n)
  BY <1>4 DEF Mark, Saved, SaveOnly
<1>5. CASE Replay(n)
  BY <1>5 DEF Replay, Saved, SaveOnly
<1> QED
  BY <1>1, <1>2, <1>3, <1>4, <1>5 DEF Finishes

\* What they do to the save itself.
LEMMA SavesGo ==
    ASSUME NEW n \in Saves, Finishes(n)
    PROVE  \/ Send(n)
           \/ save' = [save EXCEPT ![n].waits = "no"]
           \/ /\ Commit(n) \/ CommitRefused(n) \/ Mark(n) \/ MarkFails(n) \/ Replay(n)
                 \/ GiveUp(n)
              /\ \E to \in {"marking", "resent", "failed", "done"} :
                   save' = [save EXCEPT ![n].state = to]
  BY DEF Finishes, HangUp, Commit, CommitRefused, Mark, MarkFails, Replay, GiveUp, Saved,
     Becomes

\* An upload keeps what it was begun for.
Continues(id) ==
    /\ job[id].step # "new" /\ job'[id].step # "new"
    /\ job'[id].save = job[id].save /\ job'[id].field = job[id].field
    /\ job'[id].source = job[id].source /\ job'[id].key = job[id].key

\* A step begins one upload, or continues one, or concerns none.
LEMMA JobMoves ==
    ASSUME IInv, [Next]_vars, NEW id \in Ids
    PROVE  \/ job'[id] = job[id]
           \/ \E n \in Saves, f \in Fields : Upload(n, f, id)
           \/ Continues(id) /\ (Serves(id) \/ Answer(id) \/ Refused(id) \/ Disconnect(id))
<1> DEFINE Goal == \/ job'[id] = job[id]
                   \/ \E n \in Saves, f \in Fields : Upload(n, f, id)
                   \/ Continues(id) /\ (Serves(id) \/ Answer(id) \/ Refused(id) \/ Disconnect(id))
<1>0. /\ job \in [Ids -> Job]
      /\ job[id].waits = "yes" => job[id].step # "new"
  BY DEF IInv, TypeOK, UploadsAreWanted, Started
<1>1. ASSUME NEW i \in Ids, Request(i), i # id PROVE job'[id] = job[id]
  BY <1>0, <1>1 DEF Request, Find, Put, Reject, PutFails, Insert, InsertFails, Delete, Die,
     Answer, Refused, Disconnect, Goto, Done
<1>2. ASSUME Serves(id) PROVE Continues(id)
  BY <1>0, <1>2 DEF Serves, Continues, Find, Put, Reject, PutFails, Insert, InsertFails,
     Delete, Die, Goto, Loser, Job, Running
<1>3. ASSUME Answer(id) \/ Refused(id) PROVE Continues(id)
  BY <1>0, <1>3 DEF Continues, Answer, Refused, Done, Job
<1>4. ASSUME Disconnect(id) PROVE Continues(id)
  BY <1>0, <1>4 DEF Continues, Disconnect, Job
<1>5. ASSUME NEW n \in Saves, NEW f \in Fields, NEW i \in Ids, Upload(n, f, i) PROVE Goal
  BY <1>0, <1>5 DEF Upload
<1>6. ASSUME UNCHANGED job PROVE Goal
  BY <1>6
<1>7. ASSUME NEW n \in Saves, Submit(n) \/ Finishes(n) PROVE UNCHANGED job
  BY <1>7, SavesKeep DEF SaveOnly
<1>8. CASE Edits
  BY <1>6, <1>8, EditsKeep DEF FormOnly
<1> QED
  BY <1>1, <1>2, <1>3, <1>4, <1>5, <1>6, <1>7, <1>8 DEF Next, Edits, vars, Request, Serves,
     UseCached, Expire, SweepSelect, SweepObject, SweepRows, SweepFails

\* What was begun goes on being the same upload.
LEMMA StartedStays ==
    ASSUME IInv, [Next]_vars, NEW id, Started(id)
    PROVE  /\ Started(id)' /\ id \in Ids
           /\ job'[id].save = job[id].save /\ job'[id].field = job[id].field
           /\ job'[id].source = job[id].source /\ job'[id].key = job[id].key
<1>1. ASSUME NEW n \in Saves, NEW f \in Fields, Upload(n, f, id) PROVE FALSE
  BY <1>1 DEF Upload, Started
<1> QED
  BY <1>1, JobMoves DEF Continues, Started

\* What an upload is of does not change.
LEMMA FilesAreKept ==
    ASSUME IInv, [Next]_vars, NEW i, NEW s, IsOf(i, s)
    PROVE  IsOf(i, s)'
  BY StartedStays DEF IsOf

\* An entry of the cache is kept, dropped, begun by an upload or filled by an answer.
LEMMA CacheMoves ==
    ASSUME IInv, [Next]_vars, NEW f \in Fields
    PROVE  \/ cache'[f] = cache[f]
           \/ cache'[f] = NoEntry
           \/ \E n \in Saves, id \in Ids : Upload(n, f, id)
           \/ \E id \in Ids : /\ Answer(id) /\ job[id].field = f /\ job[id].waits = "yes"
                              /\ cache'[f] = [source |-> job[id].source,
                                              key |-> job[id].key, id |-> job[id].id]
<1> DEFINE Goal == \/ cache'[f] = cache[f]
                   \/ cache'[f] = NoEntry
                   \/ \E n \in Saves, id \in Ids : Upload(n, f, id)
                   \/ \E id \in Ids :
                        /\ Answer(id) /\ job[id].field = f /\ job[id].waits = "yes"
                        /\ cache'[f] = [source |-> job[id].source,
                                        key |-> job[id].key, id |-> job[id].id]
<1>1. cache \in [Fields -> Entry]
  BY DEF IInv, TypeOK
<1>2. CASE UNCHANGED cache
  BY <1>2
<1>3. ASSUME NEW g \in Fields, Choose(g) \/ Clear(g) \/ \E s \in Files : Prepared(g, s)
      PROVE  Goal
  BY <1>1, <1>3 DEF Choose, Clear, Prepared
<1>4. ASSUME NEW c \in Cards \cup {NewCard}, Open(c) PROVE Goal
  BY <1>4 DEF Open
<1>41. CASE Close
  BY <1>41 DEF Close
<1>5. ASSUME NEW n \in Saves, NEW g \in Fields, NEW id \in Ids, Upload(n, g, id) PROVE Goal
  BY <1>1, <1>5 DEF Upload
<1>6. ASSUME NEW id \in Ids, Answer(id) PROVE Goal
  BY <1>1, <1>6 DEF Answer
<1>7. ASSUME NEW id \in Ids, Request(id), ~Answer(id) PROVE UNCHANGED cache
  BY <1>7 DEF Request, Find, Put, Reject, PutFails, Insert, InsertFails, Delete, Die,
     Refused, Disconnect, client
<1>8. ASSUME NEW n \in Saves, Submit(n) \/ Finishes(n) PROVE UNCHANGED cache
  BY <1>8, SavesKeep DEF SaveOnly
<1> QED
  BY <1>2, <1>3, <1>4, <1>41, <1>5, <1>6, <1>7, <1>8 DEF Next, vars, client, UseCached,
     Expire, SweepSelect, SweepObject, SweepRows, SweepFails

\* What a save wants is fixed when it begins, when it has taken nothing.
LEMMA SaveMoves ==
    ASSUME IInv, [Next]_vars, NEW n \in Saves
    PROVE  \/ /\ save[n].state = "new" /\ save'[n].state = "staging"
              /\ \A f \in Fields : save'[n].ready[f] = None
           \/ /\ save'[n].wanted = save[n].wanted
              /\ save'[n].state # "new" \/ save[n].state = "new"
              /\ \A f \in Fields :
                   \/ save'[n].ready[f] = save[n].ready[f]
                   \/ UseCached(n, f) /\ save'[n].ready[f] = cache[f].id
                   \/ \E id \in Ids : /\ Answer(id) /\ job[id].waits = "yes"
                                      /\ job[id].save = n /\ job[id].field = f
                                      /\ save'[n].ready[f] = job[id].id
<1> DEFINE Read(f) == \/ save'[n].ready[f] = save[n].ready[f]
                      \/ UseCached(n, f) /\ save'[n].ready[f] = cache[f].id
                      \/ \E id \in Ids : /\ Answer(id) /\ job[id].waits = "yes"
                                         /\ job[id].save = n /\ job[id].field = f
                                         /\ save'[n].ready[f] = job[id].id
           Begun == /\ save[n].state = "new" /\ save'[n].state = "staging"
                    /\ \A f \in Fields : save'[n].ready[f] = None
           Same == /\ save'[n].wanted = save[n].wanted
                   /\ save'[n].state # "new" \/ save[n].state = "new"
                   /\ \A f \in Fields : Read(f)
<1>1. save \in [Saves -> Save] /\ save[n] \in Save
  BY DEF IInv, TypeOK
<1>2. save[n].ready \in [Fields -> Ids \cup {None}]
  BY <1>1 DEF Save
<1>3. CASE UNCHANGED save
  BY <1>3
<1>4. ASSUME NEW m \in Saves, Submit(m) PROVE Begun \/ Same
  BY <1>1, <1>4 DEF Submit, NewSave
<1>5. ASSUME NEW m \in Saves, Finishes(m) PROVE Same
  <2>1. CASE Send(m)
    <3>1. PICK body : save' = [save EXCEPT ![m].state = "sent", ![m].target = card,
                                           ![m].body = body]
      BY <2>1 DEF Send
    <3>2. save'[n] = save[n] \/ save'[n] = [save[n] EXCEPT
            !.state = "sent", !.target = card, !.body = body]
      BY <1>1, <3>1
    <3> QED
      BY <1>1, <3>2 DEF Save
  <2>2. CASE save' = [save EXCEPT ![m].waits = "no"]
    <3>1. save'[n] = save[n] \/ save'[n] = [save[n] EXCEPT !.waits = "no"]
      BY <1>1, <2>2
    <3> QED
      BY <1>1, <3>1 DEF Save
  <2>3. ASSUME NEW to \in {"marking", "resent", "failed", "done"},
               save' = [save EXCEPT ![m].state = to]
        PROVE  Same
    <3>1. save'[n] = save[n] \/ save'[n] = [save[n] EXCEPT !.state = to]
      BY <1>1, <2>3
    <3> QED
      BY <1>1, <3>1 DEF Save
  <2> QED
    BY <1>5, <2>1, <2>2, <2>3, SavesGo
<1>6. ASSUME NEW m \in Saves, NEW g \in Fields, UseCached(m, g) PROVE Same
  BY <1>1, <1>2, <1>6 DEF UseCached, Save, Takes
<1>7. ASSUME NEW m \in Saves, NEW g \in Fields, NEW id \in Ids, Upload(m, g, id) PROVE Same
  BY <1>1, <1>7 DEF Upload, Save
<1>8. ASSUME NEW id \in Ids, Answer(id) PROVE Same
  <2>1. CASE job[id].waits = "yes" /\ job[id].save = n
    <3>1. save' = [save EXCEPT ![n].ready[job[id].field] = job[id].id]
      BY <1>8, <2>1 DEF Answer
    <3>2. save'[n] = [save[n] EXCEPT !.ready[job[id].field] = job[id].id]
      BY <1>1, <3>1
    <3>3. /\ save'[n].wanted = save[n].wanted /\ save'[n].state = save[n].state
          /\ save'[n].ready = [save[n].ready EXCEPT ![job[id].field] = job[id].id]
      BY <1>1, <3>2 DEF Save
    <3>4. ASSUME NEW f \in Fields PROVE Read(f)
      BY <1>2, <1>8, <2>1, <3>3
    <3> QED
      BY <3>3, <3>4
  <2>2. CASE job[id].waits # "yes" \/ job[id].save # n
    BY <1>1, <1>8, <2>2 DEF Answer
  <2> QED
    BY <2>1, <2>2
<1>9. ASSUME NEW id \in Ids, Refused(id) \/ Disconnect(id) PROVE Same
  BY <1>1, <1>9 DEF Refused, Disconnect, Fails, Save
<1>10. ASSUME NEW id \in Ids, Serves(id) PROVE UNCHANGED save
  BY <1>10 DEF Serves, Find, Put, Reject, PutFails, Insert, InsertFails, Delete, Die
<1>11. CASE Edits
  BY <1>3, <1>11, EditsKeep DEF FormOnly
<1> QED
  BY <1>3, <1>4, <1>5, <1>6, <1>7, <1>8, <1>9, <1>10, <1>11 DEF Next, Edits, vars, Request,
     Serves, Expire, SweepSelect, SweepObject, SweepRows, SweepFails

\* A save keeps what its commit was sent with.
Keeps(n) ==
    /\ save'[n].card = save[n].card /\ save'[n].target = save[n].target
    /\ save'[n].body = save[n].body
SaveStep(n) ==
    \/ save'[n].state = save[n].state
    \/ save[n].state = "staging" /\ save'[n].state = "failed"
    \/ Commit(n) /\ save'[n].state = "marking"
    \/ (CommitRefused(n) \/ GiveUp(n)) /\ save'[n].state = "failed"
    \/ MarkFails(n) /\ save'[n].state \in {"resent", "failed"}
    \/ (Mark(n) \/ Replay(n)) /\ save'[n].state = "done"

\* A step begins a save, sends its commit, or keeps what that was sent with.
LEMMA SaveGoesOn ==
    ASSUME IInv, [Next]_vars, NEW n \in Saves
    PROVE  \/ /\ Submit(n) /\ save[n].state = "new" /\ save'[n].state = "staging"
              /\ save'[n].card = card /\ save'[n].target = None /\ save'[n].body = {}
           \/ /\ Send(n) /\ save[n].state = "staging" /\ save'[n].state = "sent"
              /\ save'[n].card = save[n].card /\ save'[n].target = card
              /\ save'[n].body = {<<save[n].ready[f], save[n].wanted[f]>> :
                                    f \in {f \in Fields : save[n].ready[f] # None}}
           \/ Keeps(n) /\ SaveStep(n)
<1> DEFINE Begun == /\ Submit(n) /\ save[n].state = "new" /\ save'[n].state = "staging"
                    /\ save'[n].card = card /\ save'[n].target = None
                    /\ save'[n].body = {}
           Sent == /\ Send(n) /\ save[n].state = "staging" /\ save'[n].state = "sent"
                   /\ save'[n].card = save[n].card /\ save'[n].target = card
                   /\ save'[n].body = {<<save[n].ready[f], save[n].wanted[f]>> :
                                         f \in {f \in Fields : save[n].ready[f] # None}}
           Kept == Keeps(n) /\ SaveStep(n)
<1>1. save \in [Saves -> Save] /\ save[n] \in Save
  BY DEF IInv, TypeOK
<1>2. CASE save'[n] = save[n]
  BY <1>2 DEF Keeps, SaveStep
<1>3. ASSUME NEW m \in Saves, Submit(m) PROVE Begun \/ Kept
  BY <1>1, <1>2, <1>3 DEF Submit, NewSave
<1>4. ASSUME NEW m \in Saves, Finishes(m), m # n PROVE Kept
  BY <1>1, <1>2, <1>4, SavesGo DEF Send
<1>5. ASSUME Finishes(n) PROVE Sent \/ Kept
  <2>1. CASE Send(n)
    <3>1. save'[n] = [save[n] EXCEPT
            !.state = "sent", !.target = card,
            !.body = {<<save[n].ready[f], save[n].wanted[f]>> :
                        f \in {f \in Fields : save[n].ready[f] # None}}]
      BY <1>1, <2>1 DEF Send
    <3> QED
      BY <1>1, <2>1, <3>1 DEF Save, Send
  <2>2. CASE save' = [save EXCEPT ![n].waits = "no"]
    <3>1. save'[n] = [save[n] EXCEPT !.waits = "no"]
      BY <1>1, <2>2
    <3> QED
      BY <1>1, <3>1 DEF Save, Keeps, SaveStep
  <2>3. ASSUME NEW to \in {"marking", "resent", "failed", "done"},
               save' = [save EXCEPT ![n].state = to]
        PROVE  Keeps(n) /\ save'[n].state = to
    <3>1. save'[n] = [save[n] EXCEPT !.state = to]
      BY <1>1, <2>3
    <3> QED
      BY <1>1, <3>1 DEF Save, Keeps
  <2>4. CASE /\ Commit(n) \/ CommitRefused(n) \/ Mark(n) \/ MarkFails(n) \/ Replay(n)
                \/ GiveUp(n)
             /\ \E to \in {"marking", "resent", "failed", "done"} :
                  save' = [save EXCEPT ![n].state = to]
    <3>1. Keeps(n)
      BY <2>3, <2>4
    <3>2. ASSUME NEW to, Becomes(n, to) PROVE save'[n].state = to
      BY <1>1, <3>2 DEF Becomes, Save
    <3>3. CASE Commit(n)
      BY <3>1, <3>2, <3>3 DEF Commit, SaveStep
    <3>4. CASE CommitRefused(n) \/ GiveUp(n)
      BY <3>1, <3>2, <3>4 DEF CommitRefused, GiveUp, SaveStep
    <3>5. CASE MarkFails(n)
      BY <3>1, <3>2, <3>5 DEF MarkFails, SaveStep
    <3>6. CASE Mark(n) \/ Replay(n)
      BY <3>1, <3>2, <3>6 DEF Mark, Replay, Saved, SaveStep
    <3> QED
      BY <2>4, <3>3, <3>4, <3>5, <3>6
  <2> QED
    BY <1>5, <2>1, <2>2, <2>4, SavesGo
<1>6. ASSUME NEW m \in Saves, NEW g \in Fields, UseCached(m, g) PROVE Kept
  BY <1>1, <1>2, <1>6 DEF UseCached, Save, Keeps, SaveStep
<1>7. ASSUME NEW m \in Saves, NEW g \in Fields, NEW id \in Ids, Upload(m, g, id) PROVE Kept
  BY <1>1, <1>7 DEF Upload, Save, Keeps, SaveStep
<1>8. ASSUME NEW id \in Ids, Answer(id) PROVE Kept
  <2>1. CASE save'[n] = save[n]
    BY <1>2, <2>1
  <2>2. CASE save' = [save EXCEPT ![n].ready[job[id].field] = job[id].id]
    <3>1. save'[n] = [save[n] EXCEPT !.ready[job[id].field] = job[id].id]
      BY <1>1, <2>2
    <3> QED
      BY <1>1, <3>1 DEF Save, Keeps, SaveStep
  <2> QED
    BY <1>1, <1>8, <2>1, <2>2 DEF Answer
<1>9. ASSUME NEW id \in Ids, Refused(id) \/ Disconnect(id) PROVE Kept
  BY <1>1, <1>2, <1>9 DEF Refused, Disconnect, Fails, Save, Keeps, SaveStep
<1>10. ASSUME NEW id \in Ids, Serves(id) PROVE UNCHANGED save
  BY <1>10 DEF Serves, Find, Put, Reject, PutFails, Insert, InsertFails, Delete, Die
<1>11. CASE Edits
  BY <1>2, <1>11, EditsKeep DEF FormOnly
<1> QED
  BY <1>2, <1>3, <1>4, <1>5, <1>6, <1>7, <1>8, <1>9, <1>10, <1>11 DEF Next, Edits, vars,
     Request, Serves, Expire, SweepSelect, SweepObject, SweepRows, SweepFails

\* Uses by cards come from commits, and stay.
LEMMA UsesCome ==
    ASSUME IInv, [Next]_vars
    PROVE  /\ UNCHANGED shown \/ \E n \in Saves : Commit(n)
           /\ shown \subseteq shown'
           /\ opened \subseteq opened'
<1>1. ASSUME NEW id \in Ids, Request(id) PROVE UNCHANGED <<shown, opened>>
  BY <1>1 DEF Request, history, Find, Put, Reject, PutFails, Insert, InsertFails,
     Delete, Die, Answer, Refused, Disconnect
<1>2. ASSUME NEW n \in Saves, NEW f \in Fields,
             UseCached(n, f) \/ \E id \in Ids : Upload(n, f, id)
      PROVE  UNCHANGED <<shown, opened>>
  BY <1>2 DEF history, UseCached, Upload
<1>3. CASE Edits
  BY <1>3, EditsKeep DEF FormOnly
<1>4. ASSUME NEW n \in Saves, Submit(n) \/ Finishes(n)
      PROVE  UNCHANGED opened /\ (UNCHANGED shown \/ Commit(n))
  BY <1>4, SavesKeep DEF SaveOnly
<1>5. \A n \in Saves : Commit(n) => shown \subseteq shown'
  BY DEF Commit
<1>6. UNCHANGED <<shown, opened>> \/ Edits \/ \E n \in Saves : Submit(n) \/ Finishes(n)
  BY <1>1, <1>2 DEF Next, Edits, vars, history, Expire, SweepSelect, SweepObject,
     SweepRows, SweepFails
<1> QED
  BY <1>3, <1>4, <1>5, <1>6

-----------------------------------------------------------------------------
(* Files.                                                                  *)

\* What an upload begins with.
LEMMA UploadKey ==
    ASSUME IInv, NEW n \in Saves, NEW f \in Fields, NEW id \in Ids, Upload(n, f, id)
    PROVE  \E key \in Ids :
             /\ key = id \/ (cache[f] # NoEntry /\ key = cache[f].key
                             /\ cache[f].source = save[n].wanted[f])
             /\ cache'[f] = [source |-> save[n].wanted[f], key |-> key, id |-> None]
             /\ job'[id] = [step |-> "find", waits |-> "yes", save |-> n, field |-> f,
                            source |-> save[n].wanted[f], key |-> key,
                            stored |-> 0, id |-> None]
<1>1. cache \in [Fields -> Entry] /\ job \in [Ids -> Job] /\ save[n].wanted[f] # None
  BY DEF IInv, TypeOK, Upload, Takes
<1> DEFINE key == IF Matches(f, save[n].wanted[f]) THEN cache[f].key ELSE id
<1>2. /\ cache'[f] = [source |-> save[n].wanted[f], key |-> key, id |-> None]
      /\ job'[id] = [NewJob EXCEPT !.step = "find", !.waits = "yes", !.save = n,
                                   !.field = f, !.source = save[n].wanted[f], !.key = key]
  BY <1>1 DEF Upload
<1>3. /\ key \in Ids
      /\ key = id \/ (cache[f] # NoEntry /\ key = cache[f].key
                      /\ cache[f].source = save[n].wanted[f])
  <2>1. CASE Matches(f, save[n].wanted[f])
    <3>1. cache[f].source # None /\ cache[f] \in Entry
      BY <1>1, <2>1 DEF Matches
    <3>2. cache[f] # NoEntry
      BY <3>1 DEF NoEntry
    <3> QED
      BY <2>1, <3>1, <3>2 DEF Entry, Matches
  <2>2. CASE ~Matches(f, save[n].wanted[f])
    BY <2>2
  <2> QED
    BY <2>1, <2>2
<1> HIDE DEF key
<1> QED
  BY <1>2, <1>3 DEF NewJob

\* The same without its key.
LEMMA UploadBegins ==
    ASSUME IInv, NEW n \in Saves, NEW f \in Fields, NEW id \in Ids, Upload(n, f, id)
    PROVE  /\ job[id].step = "new" /\ save[n].state \in {"staging", "failed"}
           /\ save[n].wanted[f] \in Files /\ save'[n].wanted = save[n].wanted
           /\ save'[n].state = save[n].state /\ cache'[f].id = None
           /\ job'[id].step = "find" /\ job'[id].waits = "yes" /\ job'[id].save = n
           /\ job'[id].field = f /\ job'[id].source = save[n].wanted[f]
           /\ job'[id].stored = 0 /\ job'[id].id = None
<1>1. save \in [Saves -> Save] /\ save[n] \in Save
  BY DEF IInv, TypeOK
<1>2. /\ job[id].step = "new" /\ save[n].state \in {"staging", "failed"}
      /\ save[n].wanted[f] # None
  BY DEF Upload, Takes
<1>3. save[n].wanted \in [Fields -> Files \cup {None}]
  BY <1>1 DEF Save
<1>4. save' = [save EXCEPT ![n].taken = @ \cup {f}]
  BY DEF Upload
<1>5. save'[n].wanted = save[n].wanted /\ save'[n].state = save[n].state
  BY <1>1, <1>4 DEF Save
<1>6. /\ cache'[f].id = None /\ job'[id].step = "find" /\ job'[id].waits = "yes"
      /\ job'[id].save = n /\ job'[id].field = f
      /\ job'[id].source = save[n].wanted[f] /\ job'[id].stored = 0
      /\ job'[id].id = None
  <2>1. PICK key \in Ids :
          /\ key = id \/ (cache[f] # NoEntry /\ key = cache[f].key
                          /\ cache[f].source = save[n].wanted[f])
          /\ cache'[f] = [source |-> save[n].wanted[f], key |-> key, id |-> None]
          /\ job'[id] = [step |-> "find", waits |-> "yes", save |-> n, field |-> f,
                         source |-> save[n].wanted[f], key |-> key,
                         stored |-> 0, id |-> None]
    BY UploadKey
  <2> QED
    BY <2>1
<1> QED
  BY <1>2, <1>3, <1>5, <1>6

\* Uploads stay those that their saves wanted.
LEMMA WantedStay == ASSUME IInv, [Next]_vars PROVE UploadsAreWanted'
<1>1. ASSUME NEW id \in Ids, Started(id)', ~Started(id)
      PROVE  /\ job'[id].save \in Saves /\ job'[id].field \in Fields
             /\ save'[job'[id].save].state # "new"
             /\ IsOf(id, save[job[id].save].wanted[job[id].field])'
  <2>1. PICK n \in Saves, f \in Fields : Upload(n, f, id)
    BY <1>1, JobMoves DEF Started, Continues
  <2> QED
    <3>1. /\ save'[n].wanted = save[n].wanted /\ save'[n].state # "new"
          /\ save[n].wanted[f] \in Files /\ job'[id].save = n /\ job'[id].field = f
          /\ job'[id].step = "find" /\ job'[id].source = save[n].wanted[f]
      BY <2>1, UploadBegins
    <3> QED
      BY <3>1 DEF IsOf, Started
<1>2. ASSUME NEW id \in Ids, Started(id)
      PROVE  /\ job'[id].save \in Saves /\ job'[id].field \in Fields
             /\ save'[job'[id].save].state # "new"
             /\ IsOf(id, save[job[id].save].wanted[job[id].field])'
  <2>1. /\ job[id].save \in Saves /\ job[id].field \in Fields
        /\ save[job[id].save].state # "new"
        /\ IsOf(id, save[job[id].save].wanted[job[id].field])
    BY <1>2 DEF IInv, UploadsAreWanted
  <2>2. job'[id].save = job[id].save /\ job'[id].field = job[id].field
    BY <1>2, StartedStays
  <2>3. /\ save'[job[id].save].wanted = save[job[id].save].wanted
        /\ save'[job[id].save].state # "new"
    BY <2>1, SaveMoves
  <2>4. IsOf(id, save[job[id].save].wanted[job[id].field])'
    BY <2>1, <2>2, <2>3, FilesAreKept DEF IsOf
  <2> QED
    BY <2>1, <2>2, <2>3, <2>4
<1>3. ASSUME NEW id \in Ids, job'[id].waits = "yes" PROVE Started(id)'
  <2>1. job[id].waits = "yes" => job[id].step # "new"
    BY DEF IInv, UploadsAreWanted, Started
  <2>2. ASSUME NEW n \in Saves, NEW f \in Fields, Upload(n, f, id)
        PROVE  job'[id].step = "find"
    BY ONLY IInv, <2>2, UploadBegins
  <2> QED
    BY <1>3, <2>1, <2>2, JobMoves DEF Continues, Started
<1> QED
  BY <1>1, <1>2, <1>3 DEF UploadsAreWanted

\* Keys stay those of the file they are used for.
LEMMA KeysStay == ASSUME IInv, [Next]_vars PROVE KeysNameFiles'
<1>1. ASSUME NEW n \in Saves, NEW f \in Fields, NEW id \in Ids, Upload(n, f, id)
      PROVE  /\ IsOf(job[id].key, job[id].source)'
             /\ IsOf(cache[f].key, cache[f].source)'
  <2>1. PICK key \in Ids :
          /\ key = id \/ (cache[f] # NoEntry /\ key = cache[f].key
                          /\ cache[f].source = save[n].wanted[f])
          /\ cache'[f] = [source |-> save[n].wanted[f], key |-> key, id |-> None]
          /\ job'[id] = [step |-> "find", waits |-> "yes", save |-> n, field |-> f,
                         source |-> save[n].wanted[f], key |-> key,
                         stored |-> 0, id |-> None]
    BY <1>1, UploadKey
  <2>2. save[n].wanted[f] \in Files
    BY <1>1, UploadBegins
  <2>3. CASE key = id
    BY <2>1, <2>2, <2>3 DEF IsOf, Started
  <2>4. CASE key = cache[f].key /\ cache[f] # NoEntry /\ cache[f].source = save[n].wanted[f]
    <3>1. IsOf(key, save[n].wanted[f])
      BY <2>4 DEF IInv, KeysNameFiles
    <3>2. job'[key].step # "new" /\ job'[key].source = save[n].wanted[f]
      BY <3>1, FilesAreKept DEF IsOf, Started
    <3> QED
      BY <2>1, <2>2, <3>2 DEF IsOf, Started
  <2> QED
    BY <2>1, <2>3, <2>4
<1>2. ASSUME NEW id \in Ids, Started(id) PROVE IsOf(job[id].key, job[id].source)'
  <2>1. job'[id].key = job[id].key /\ job'[id].source = job[id].source
    BY <1>2, StartedStays
  <2>2. IsOf(job[id].key, job[id].source)
    BY <1>2 DEF IInv, KeysNameFiles
  <2> QED
    BY <2>1, <2>2, FilesAreKept DEF IsOf, Started
<1>3. ASSUME NEW id \in Ids, Started(id)' PROVE IsOf(job[id].key, job[id].source)'
  BY <1>1, <1>2, <1>3, JobMoves DEF Started, Continues
<1>4. ASSUME NEW f \in Fields, cache'[f] # NoEntry PROVE IsOf(cache[f].key, cache[f].source)'
  <2>1. CASE cache'[f] = cache[f]
    <3>1. IsOf(cache[f].key, cache[f].source)
      BY <1>4, <2>1 DEF IInv, KeysNameFiles
    <3> QED
      BY <2>1, <3>1, FilesAreKept DEF IsOf, Started
  <2>2. ASSUME NEW id \in Ids, Answer(id), cache'[f] = [source |-> job[id].source,
                                        key |-> job[id].key, id |-> job[id].id]
        PROVE  IsOf(cache[f].key, cache[f].source)'
    <3>1. IsOf(job[id].key, job[id].source)
      BY <2>2 DEF IInv, KeysNameFiles, Answer, Started
    <3> QED
      BY <2>2, <3>1, FilesAreKept DEF IsOf, Started
  <2> QED
    BY <1>1, <1>4, <2>1, <2>2, CacheMoves
<1> QED
  BY <1>3, <1>4 DEF KeysNameFiles

\* An upload with the key of an upload's row is of its file.
LEMMA SameKeySameFile ==
    ASSUME IInv, NEW id \in Ids, Started(id), NEW r \in SameKey(id)
    PROVE  IsOf(r, job[id].source)
<1>1. r \in Ids /\ Present(r) /\ rows[r].key = job[id].key
  BY DEF SameKey
<1>2. Started(r) /\ rows[r].key = job[r].key
  BY <1>1 DEF IInv, RowsAreAnswered, Started
<1>3. IsOf(job[r].key, job[r].source) /\ IsOf(job[id].key, job[id].source)
  BY <1>1, <1>2 DEF IInv, KeysNameFiles
<1> QED
  BY <1>1, <1>2, <1>3 DEF IsOf

\* What a step answers an upload with.
LEMMA IdMoves ==
    ASSUME IInv, [Next]_vars, NEW id \in Ids
    PROVE  \/ job'[id].id = job[id].id
           \/ ~Started(id) /\ job'[id].id = None
           \/ Started(id) /\ job'[id].id \in SameKey(id) \cup {id}
<1>1. job \in [Ids -> Job] /\ job[id] \in Job
  BY DEF IInv, TypeOK
<1>2. ASSUME NEW n \in Saves, NEW f \in Fields, Upload(n, f, id)
      PROVE  ~Started(id) /\ job'[id].id = None
  BY <1>2, UploadBegins DEF Started
<1>3. ASSUME Find(id) \/ Insert(id)
      PROVE  \/ job'[id].id = job[id].id
             \/ Started(id) /\ job'[id].id \in SameKey(id) \cup {id}
  BY <1>1, <1>3 DEF Find, Insert, Goto, Started, Job, Present
<1>4. ASSUME \/ Put(id) \/ Reject(id) \/ PutFails(id) \/ InsertFails(id) \/ Delete(id)
             \/ Die(id) \/ Answer(id) \/ Refused(id) \/ Disconnect(id)
      PROVE  job'[id].id = job[id].id
  BY <1>1, <1>4 DEF Put, Reject, PutFails, InsertFails, Delete, Die, Answer, Refused,
     Disconnect, Done, Goto, Job
<1> QED
  BY <1>2, <1>3, <1>4, JobMoves DEF Serves

\* What an upload will answer with stays of its file, and is there.
LEMMA AnsweredIds ==
    ASSUME IInv, [Next]_vars, NEW id \in Ids
    PROVE  /\ job'[id].id # None => Started(id)' /\ IsOf(job[id].id, job[id].source)'
           /\ job'[id].step \in {"drop", "answer"} => job'[id].id # None
<1>1. job \in [Ids -> Job] /\ job[id] \in Job
  BY DEF IInv, TypeOK
<1>2. ASSUME job'[id].id # None
      PROVE  Started(id)' /\ IsOf(job[id].id, job[id].source)'
  <2>1. CASE job'[id].id = job[id].id
    <3>1. IsOf(job[id].id, job[id].source)
      BY <1>2, <2>1 DEF IInv, AnswersAreRight
    <3>2. Started(id)
      BY <1>2, <2>1 DEF IInv, AnswersAreRight
    <3> QED
      BY <2>1, <3>1, <3>2, FilesAreKept, StartedStays DEF IsOf, Started
  <2>2. CASE Started(id) /\ job'[id].id \in SameKey(id) \cup {id}
    <3>1. IsOf(job'[id].id, job[id].source)
      BY <2>2, SameKeySameFile DEF IInv, KeysNameFiles, IsOf
    <3> QED
      BY <2>2, <3>1, FilesAreKept, StartedStays DEF IsOf, Started
  <2> QED
    BY <1>2, <2>1, <2>2, IdMoves
<1>3. ASSUME job'[id].step \in {"drop", "answer"} PROVE job'[id].id # None
  <2>1. ASSUME job'[id].step = job[id].step PROVE job'[id].id # None
    BY <1>3, <2>1, IdMoves DEF IInv, AnswersAreRight, Started, SameKey
  <2>2. ASSUME Find(id) \/ Insert(id) \/ Delete(id) PROVE job'[id].id # None
    BY <1>1, <1>3, <2>2 DEF Find, Insert, Delete, Goto, Job, SameKey, Loser, IInv,
       AnswersAreRight
  <2>3. ASSUME \/ Put(id) \/ Reject(id) \/ PutFails(id) \/ InsertFails(id) \/ Die(id)
               \/ Answer(id) \/ Refused(id)
        PROVE  FALSE
    BY <1>1, <1>3, <2>3 DEF Put, Reject, PutFails, InsertFails, Die, Answer, Refused,
       Done, Goto, Job
  <2>4. ASSUME Disconnect(id) PROVE job'[id].step = job[id].step
    BY <1>1, <2>4 DEF Disconnect, Job
  <2>5. ASSUME NEW n \in Saves, NEW f \in Fields, Upload(n, f, id) PROVE FALSE
    BY <1>3, <2>5, UploadBegins
  <2> QED
    BY <2>1, <2>2, <2>3, <2>4, <2>5, JobMoves DEF Serves
<1> QED
  BY <1>2, <1>3

\* Answers stay right wherever they get to.
LEMMA AnswersStay == ASSUME IInv, [Next]_vars PROVE AnswersAreRight'
<1>1. ASSUME NEW f \in Fields, cache'[f].id # None PROVE IsOf(cache[f].id, cache[f].source)'
  <2>1. CASE cache'[f] = cache[f]
    <3>1. IsOf(cache[f].id, cache[f].source)
      BY <1>1, <2>1 DEF IInv, AnswersAreRight
    <3> QED
      BY <2>1, <3>1, FilesAreKept DEF IsOf, Started
  <2>2. CASE cache'[f] = NoEntry
    BY <1>1, <2>2 DEF NoEntry
  <2>3. ASSUME NEW n \in Saves, NEW id \in Ids, Upload(n, f, id) PROVE cache'[f].id = None
    BY <2>3, UploadBegins
  <2>4. ASSUME NEW id \in Ids, Answer(id),
               cache'[f] = [source |-> job[id].source, key |-> job[id].key, id |-> job[id].id]
        PROVE  IsOf(cache[f].id, cache[f].source)'
    <3>1. IsOf(job[id].id, job[id].source)
      BY <2>4 DEF IInv, AnswersAreRight, Answer
    <3> QED
      BY <2>4, <3>1, FilesAreKept DEF IsOf, Started
  <2> QED
    BY <1>1, <2>1, <2>2, <2>3, <2>4, CacheMoves
<1>2. ASSUME NEW n \in Saves, NEW f \in Fields, save'[n].ready[f] # None
      PROVE  IsOf(save[n].ready[f], save[n].wanted[f])'
  <2>1. save'[n].wanted = save[n].wanted /\ save[n].wanted \in [Fields -> Files \cup {None}]
    BY <1>2, SaveMoves DEF IInv, TypeOK, Save
  <2>2. CASE save'[n].ready[f] = save[n].ready[f]
    <3>1. IsOf(save[n].ready[f], save[n].wanted[f])
      BY <1>2, <2>2 DEF IInv, AnswersAreRight
    <3> QED
      BY <2>1, <2>2, <3>1, FilesAreKept DEF IsOf, Started
  <2>3. CASE UseCached(n, f) /\ save'[n].ready[f] = cache[f].id
    <3>1. IsOf(cache[f].id, cache[f].source) /\ cache[f].source = save[n].wanted[f]
      BY <1>2, <2>3 DEF IInv, AnswersAreRight, UseCached, Matches
    <3> QED
      BY <2>1, <2>3, <3>1, FilesAreKept DEF IsOf, Started
  <2>4. ASSUME NEW id \in Ids, Answer(id), job[id].save = n, job[id].field = f,
               save'[n].ready[f] = job[id].id
        PROVE  IsOf(save[n].ready[f], save[n].wanted[f])'
    <3>1. IsOf(job[id].id, job[id].source)
      BY <2>4 DEF IInv, AnswersAreRight, Answer
    <3>2. IsOf(id, save[n].wanted[f])
      BY <2>4 DEF IInv, UploadsAreWanted, Started, Answer
    <3> QED
      BY <2>1, <2>4, <3>1, <3>2, FilesAreKept DEF IsOf, Started
  <2> QED
    BY <1>2, <2>2, <2>3, <2>4, SaveMoves
<1>3. ASSUME NEW use \in shown' PROVE IsOf(use[1], use[2])'
  <2>1. CASE use \in shown
    <3>1. IsOf(use[1], use[2])
      BY <2>1 DEF IInv, AnswersAreRight
    <3> QED
      BY <3>1, FilesAreKept DEF IsOf, Started
  <2>2. ASSUME NEW n \in Saves, Commit(n), use \notin shown PROVE IsOf(use[1], use[2])'
    <3>1. PICK sent \in save[n].body : use = <<sent[1], sent[2], n>>
      BY <2>2 DEF Commit
    <3>2. IsOf(sent[1], sent[2])
      BY <3>1 DEF IInv, AnswersAreRight
    <3> QED
      BY <3>1, <3>2, FilesAreKept DEF IsOf, Started
  <2>3. use \in shown \/ \E n \in Saves : Commit(n)
    BY UsesCome
  <2> QED
    BY <2>1, <2>2, <2>3
<1>4. ASSUME NEW n \in Saves, NEW use \in save'[n].body PROVE IsOf(use[1], use[2])'
  <2>1. CASE save'[n].body = save[n].body
    <3>1. IsOf(use[1], use[2])
      BY <1>4, <2>1 DEF IInv, AnswersAreRight
    <3> QED
      BY <3>1, FilesAreKept DEF IsOf, Started
  <2>2. CASE save'[n].body = {<<save[n].ready[f], save[n].wanted[f]>> :
                                f \in {f \in Fields : save[n].ready[f] # None}}
    <3>1. PICK f \in Fields : save[n].ready[f] # None
                               /\ use = <<save[n].ready[f], save[n].wanted[f]>>
      BY <1>4, <2>2
    <3>2. IsOf(save[n].ready[f], save[n].wanted[f])
      BY <3>1 DEF IInv, AnswersAreRight
    <3> QED
      BY <3>1, <3>2, FilesAreKept DEF IsOf, Started
  <2> QED
    BY <1>4, <2>1, <2>2, SaveGoesOn DEF Keeps
<1> QED
  BY <1>1, <1>2, <1>3, <1>4, AnsweredIds DEF AnswersAreRight

-----------------------------------------------------------------------------
(* Workers.                                                                *)

\* What a step does to the uploads that a save waits for, and to its workers.
WaitersMove(n) ==
    \/ Uploading(n)' \subseteq Uploading(n) /\ save'[n].workers = save[n].workers
    \/ Uploading(n)' = {} /\ save'[n].workers = Workers
    \/ \E id \in Ids : /\ Uploading(n)' \subseteq Uploading(n) \cup {id}
                       /\ Cardinality(Uploading(n)) < save[n].workers
                       /\ save'[n].workers = save[n].workers
    \/ \E id \in Uploading(n) : /\ Uploading(n)' \subseteq Uploading(n) \ {id}
                                /\ save'[n].workers = save[n].workers - 1

\* A step of an upload's request does not make the browser wait for more.
LEMMA WaitsEnd ==
    ASSUME IInv, NEW id \in Ids, NEW n \in Saves, Request(id)
    PROVE  /\ Uploading(n)' \subseteq Uploading(n)
           /\ Refused(id) \/ Disconnect(id) => id \notin Uploading(n)'
<1>1. job \in [Ids -> Job] /\ job[id] \in Job
  BY DEF IInv, TypeOK
<1>2. /\ \A i \in Ids : i # id => job'[i] = job[i]
      /\ job'[id].save = job[id].save
      /\ job'[id].waits = job[id].waits \/ job'[id].waits = "no"
      /\ Refused(id) \/ Disconnect(id) => job'[id].waits = "no"
  <2>1. ASSUME Find(id) \/ Put(id) \/ Insert(id)
        PROVE  /\ \A i \in Ids : i # id => job'[i] = job[i]
               /\ job'[id].save = job[id].save /\ job'[id].waits = job[id].waits
    BY <1>1, <2>1 DEF Find, Put, Insert, Goto, Job
  <2>2. ASSUME Reject(id) \/ PutFails(id) \/ InsertFails(id) \/ Delete(id) \/ Die(id)
        PROVE  /\ \A i \in Ids : i # id => job'[i] = job[i]
               /\ job'[id].save = job[id].save /\ job'[id].waits = job[id].waits
    BY <1>1, <2>2 DEF Reject, PutFails, InsertFails, Delete, Die, Goto, Job
  <2>3. ASSUME Answer(id) \/ Refused(id) \/ Disconnect(id)
        PROVE  /\ \A i \in Ids : i # id => job'[i] = job[i]
               /\ job'[id].save = job[id].save /\ job'[id].waits = "no"
    BY <1>1, <2>3 DEF Answer, Refused, Disconnect, Done, Job
  <2>4. ASSUME Refused(id) \/ Disconnect(id) PROVE job'[id].waits = "no"
    BY <2>3, <2>4
  <2> QED
    BY <2>1, <2>2, <2>3, <2>4 DEF Request
<1> QED
  BY <1>2 DEF Uploading

\* No step does anything else to them.
LEMMA AllWaitersMove == ASSUME IInv, [Next]_vars, NEW n \in Saves PROVE WaitersMove(n)
<1>1. /\ save \in [Saves -> Save] /\ save[n] \in Save /\ job \in [Ids -> Job]
      /\ save[n].workers \in Nat
  BY NumberAssumption DEF IInv, TypeOK, Save
<1>2. ASSUME UNCHANGED <<job, save>> PROVE WaitersMove(n)
  BY <1>2 DEF WaitersMove, Uploading
<1>3. ASSUME NEW id \in Ids, Serves(id) PROVE WaitersMove(n)
  <2>1. UNCHANGED save /\ Request(id)
    BY <1>3 DEF Serves, Request, Find, Put, Reject, PutFails, Insert, InsertFails, Delete, Die
  <2> QED
    BY <2>1, WaitsEnd DEF WaitersMove
<1>4. ASSUME NEW id \in Ids, Answer(id) PROVE WaitersMove(n)
  <2>1. CASE save' = [save EXCEPT ![n].ready[job[id].field] = job[id].id]
    <3>1. save'[n] = [save[n] EXCEPT !.ready[job[id].field] = job[id].id]
      BY <1>1, <2>1
    <3>2. save'[n].workers = save[n].workers
      BY <1>1, <3>1 DEF Save
    <3> QED
      BY <1>4, <3>2, WaitsEnd DEF WaitersMove, Request
  <2>2. CASE save'[n] = save[n]
    BY <1>4, <2>2, WaitsEnd DEF WaitersMove, Request
  <2>3. \/ save' = [save EXCEPT ![n].ready[job[id].field] = job[id].id]
        \/ save'[n] = save[n]
    BY <1>1, <1>4 DEF Answer
  <2> QED
    BY <2>1, <2>2, <2>3
<1>5. ASSUME NEW id \in Ids, Refused(id) \/ Disconnect(id) PROVE WaitersMove(n)
  <2>1. /\ Uploading(n)' \subseteq Uploading(n) /\ id \notin Uploading(n)'
    BY <1>5, WaitsEnd DEF Request
  <2>2. CASE id \in Uploading(n)
    <3>1. save' = Fails(n)
      BY <1>5, <2>2 DEF Refused, Disconnect, Uploading
    <3>2. save'[n].workers = save[n].workers - 1
      BY <1>1, <3>1 DEF Fails, Save
    <3>3. Uploading(n)' \subseteq Uploading(n) \ {id}
      BY <2>1
    <3> QED
      BY <2>2, <3>2, <3>3 DEF WaitersMove
  <2>3. CASE id \notin Uploading(n)
    <3>1. save'[n] = save[n]
      BY <1>1, <1>5, <2>3 DEF Refused, Disconnect, Uploading, Fails
    <3> QED
      BY <2>1, <3>1 DEF WaitersMove
  <2> QED
    BY <2>2, <2>3
<1>6. ASSUME NEW m \in Saves, NEW f \in Fields, NEW id \in Ids, Upload(m, f, id)
      PROVE  WaitersMove(n)
  <2>1. save'[n].workers = save[n].workers
    BY <1>1, <1>6 DEF Upload, Save
  <2>2. /\ \A i \in Ids : i # id => job'[i] = job[i]
        /\ job'[id].save = m
    <3>1. \A i \in Ids : i # id => job'[i] = job[i]
      BY <1>1, <1>6 DEF Upload
    <3> QED
      BY <1>6, <3>1, UploadBegins
  <2>3. CASE m = n
    <3>1. Cardinality(Uploading(n)) < save[n].workers
      BY <1>6, <2>3 DEF Upload, Takes
    <3>2. Uploading(n)' \subseteq Uploading(n) \cup {id}
      BY <2>2 DEF Uploading
    <3> QED
      BY <2>1, <3>1, <3>2 DEF WaitersMove
  <2>4. CASE m # n
    BY <2>1, <2>2, <2>4 DEF WaitersMove, Uploading
  <2> QED
    BY <2>3, <2>4
<1>7. ASSUME NEW m \in Saves, Submit(m) PROVE WaitersMove(n)
  <2>1. CASE m = n
    <3>1. Uploading(n) = {}
      BY <1>7, <2>1 DEF Uploading, Submit, IInv, UploadsAreWanted
    <3>2. Uploading(n)' = {} /\ save'[n].workers = Workers
      BY <1>1, <1>7, <2>1, <3>1 DEF Uploading, Submit, NewSave
    <3> QED
      BY <3>2 DEF WaitersMove
  <2>2. CASE m # n
    BY <1>1, <1>7, <2>2 DEF WaitersMove, Uploading, Submit
  <2> QED
    BY <2>1, <2>2
<1>8. ASSUME NEW m \in Saves, Finishes(m) PROVE WaitersMove(n)
  <2>1. UNCHANGED job
    BY <1>8, SavesKeep DEF SaveOnly
  <2>2. CASE Send(m)
    BY <1>1, <2>1, <2>2 DEF Send, Save, WaitersMove, Uploading
  <2>3. CASE save' = [save EXCEPT ![m].waits = "no"]
    BY <1>1, <2>1, <2>3 DEF Save, WaitersMove, Uploading
  <2>4. CASE \E to \in {"marking", "resent", "failed", "done"} :
               save' = [save EXCEPT ![m].state = to]
    BY <1>1, <2>1, <2>4 DEF Save, WaitersMove, Uploading
  <2> QED
    BY <1>8, <2>2, <2>3, <2>4, SavesGo
<1>9. ASSUME NEW m \in Saves, NEW f \in Fields, UseCached(m, f) PROVE WaitersMove(n)
  <2>1. UNCHANGED job /\ save'[n].workers = save[n].workers
    BY <1>1, <1>9 DEF UseCached, Save
  <2> QED
    BY <2>1 DEF WaitersMove, Uploading
<1>10. CASE Edits
  BY <1>2, <1>10, EditsKeep DEF FormOnly
<1> QED
  BY <1>2, <1>3, <1>4, <1>5, <1>6, <1>7, <1>8, <1>9, <1>10 DEF Next, Edits, vars, Request,
     Serves, Expire, SweepSelect, SweepObject, SweepRows, SweepFails

\* No save waits for more uploads than it has workers.
LEMMA WorkersStay == ASSUME IInv, [Next]_vars PROVE WorkersSuffice'
<1> SUFFICES ASSUME NEW n \in Saves
             PROVE  /\ IsFiniteSet(Uploading(n)')
                    /\ Cardinality(Uploading(n)') <= save'[n].workers
  BY DEF WorkersSuffice
<1>1. /\ IsFiniteSet(Uploading(n)) /\ Cardinality(Uploading(n)) <= save[n].workers
      /\ Cardinality(Uploading(n)) \in Nat /\ save[n].workers \in Nat
  BY FS_CardinalityType, NumberAssumption DEF IInv, WorkersSuffice, TypeOK, Save
<1> DEFINE S == Uploading(n)
           T == Uploading(n)'
<1>2. CASE T \subseteq S /\ save'[n].workers = save[n].workers
  <2>1. IsFiniteSet(T) /\ Cardinality(T) <= Cardinality(S)
    BY <1>1, <1>2, FS_Subset
  <2>2. Cardinality(T) \in Nat
    BY <2>1, FS_CardinalityType
  <2> HIDE DEF S, T
  <2>3. Cardinality(S) <= save[n].workers /\ Cardinality(S) \in Nat
    BY <1>1 DEF S
  <2>4. Cardinality(T) <= save'[n].workers
    BY <1>1, <1>2, <2>1, <2>2, <2>3
  <2> QED
    BY <2>1, <2>4 DEF T
<1>3. CASE T = {} /\ save'[n].workers = Workers
  BY <1>3, FS_EmptySet, NumberAssumption
<1>4. ASSUME NEW id \in Ids, T \subseteq S \cup {id}, Cardinality(S) < save[n].workers,
             save'[n].workers = save[n].workers
      PROVE  IsFiniteSet(T) /\ Cardinality(T) <= save'[n].workers
  <2> HIDE DEF S, T
  <2>1. IsFiniteSet(S) /\ Cardinality(S) \in Nat
    BY <1>1 DEF S
  <2>2. /\ IsFiniteSet(S \cup {id})
        /\ Cardinality(S \cup {id}) = Cardinality(S) \/ Cardinality(S \cup {id}) = Cardinality(S) + 1
    BY <2>1, FS_AddElement
  <2>3. IsFiniteSet(T) /\ Cardinality(T) <= Cardinality(S \cup {id})
    BY <1>4, <2>2, FS_Subset
  <2>4. Cardinality(T) \in Nat
    BY <2>3, FS_CardinalityType
  <2> QED
    BY <1>1, <1>4, <2>1, <2>2, <2>3, <2>4
<1>5. ASSUME NEW id \in S, T \subseteq S \ {id}, save'[n].workers = save[n].workers - 1
      PROVE  IsFiniteSet(T) /\ Cardinality(T) <= save'[n].workers
  <2>0. Cardinality(S) <= save[n].workers
    BY <1>1
  <2> HIDE DEF S, T
  <2>1. IsFiniteSet(S) /\ Cardinality(S) \in Nat
    BY <1>1 DEF S
  <2>2. IsFiniteSet(S \ {id}) /\ Cardinality(S \ {id}) = Cardinality(S) - 1
    BY <1>5, <2>1, FS_RemoveElement
  <2>3. IsFiniteSet(T) /\ Cardinality(T) <= Cardinality(S \ {id})
    BY <1>5, <2>2, FS_Subset
  <2>4. Cardinality(T) \in Nat
    BY <2>3, FS_CardinalityType
  <2> QED
    BY <1>1, <1>5, <2>0, <2>1, <2>2, <2>3, <2>4
<1> QED
  BY <1>2, <1>3, <1>4, <1>5, AllWaitersMove DEF WaitersMove

-----------------------------------------------------------------------------
(* Rows.                                                                   *)

\* What is shown stays so, and what comes to be was sent by a commit.
LEMMA ShownMoves ==
    ASSUME IInv, [Next]_vars, NEW id \in Ids
    PROVE  /\ Shown(id) => Shown(id)'
           /\ Shown(id)' => Shown(id) \/ \E n \in Saves : Commit(n) /\ id \in SentIds(n)
<1>1. Shown(id) => Shown(id)'
  BY UsesCome DEF Shown
<1>2. CASE UNCHANGED shown
  BY <1>2 DEF Shown
<1>3. ASSUME NEW n \in Saves, Commit(n)
      PROVE  Shown(id)' => Shown(id) \/ id \in SentIds(n)
  BY <1>3 DEF Commit, Shown, SentIds
<1> QED
  BY <1>1, <1>2, <1>3, UsesCome

\* A commit shows what it was sent with.
LEMMA CommitShows ==
    ASSUME NEW n \in Saves, Commit(n), NEW id \in SentIds(n) PROVE Shown(id)'
<1>1. PICK use \in save[n].body : use[1] = id
  BY DEF SentIds
<1>2. <<use[1], use[2], n>> \in shown'
  BY DEF Commit
<1> QED
  BY <1>1, <1>2 DEF Shown

\* A row is inserted when all objects are stored.
Inserted(id) ==
    /\ job[id].step = "insert" /\ SameKey(id) = {} /\ rows'[id] = NewRow(id)
    /\ UNCHANGED <<objects, sweep, shown>>
    /\ \/ job'[id].step = "answer" /\ torn' = torn
       \/ job'[id].step = "clean" /\ torn' = torn \cup {id}

\* What a step does to a row.
RowMoves(id) ==
    \/ rows'[id] = rows[id]
    \/ Inserted(id)
    \/ /\ rows[id].status = "staged" /\ rows'[id] = [rows[id] EXCEPT !.status = "committed"]
       /\ \E n \in Saves : (Mark(n) \/ Replay(n)) /\ Marks(n) /\ id \in SentIds(n)
    \/ Expire(id) /\ rows'[id] = [rows[id] EXCEPT !.expired = TRUE]
    \/ SweepRows /\ id \in sweep.saw /\ rows'[id] = NoRow

\* No step does anything else to a row.
LEMMA AllRowsMove == ASSUME IInv, [Next]_vars, NEW id \in Ids PROVE RowMoves(id)
<1>1. rows \in [Ids -> Row] /\ job \in [Ids -> Job] /\ job[id] \in Job
  BY DEF IInv, TypeOK
<1>2. CASE UNCHANGED rows
  BY <1>2 DEF RowMoves
<1>3. ASSUME NEW n \in Saves, Submit(n) \/ Finishes(n) PROVE RowMoves(id)
  <2>1. CASE (Mark(n) \/ Replay(n)) /\ Marks(n)
    <3>1. rows'[id] = IF id \in SentIds(n) /\ rows[id].status = "staged"
                      THEN [rows[id] EXCEPT !.status = "committed"] ELSE rows[id]
      BY <2>1 DEF Marks
    <3> QED
      BY <2>1, <3>1 DEF RowMoves
  <2> QED
    BY <1>2, <1>3, <2>1, SavesKeep
<1>4. ASSUME NEW i \in Ids, Expire(i) PROVE RowMoves(id)
  BY <1>1, <1>4 DEF Expire, RowMoves
<1>5. CASE SweepRows
  BY <1>5 DEF SweepRows, RowMoves
<1>6. ASSUME NEW i \in Ids, Insert(i) PROVE RowMoves(id)
  <2>1. CASE i = id /\ rows' # rows
    <3>1. /\ job[id].step = "insert" /\ SameKey(id) = {} /\ rows'[id] = NewRow(id)
          /\ UNCHANGED <<objects, sweep, shown>> /\ torn' = torn
      BY <1>1, <1>6, <2>1 DEF Insert, history
    <3>2. job' = [job EXCEPT ![id].step = "answer", ![id].id = id]
      BY <1>6, <2>1 DEF Insert
    <3>3. job'[id].step = "answer"
      BY <1>1, <3>2 DEF Job
    <3> QED
      BY <3>1, <3>3 DEF RowMoves, Inserted
  <2>2. CASE i # id \/ rows' = rows
    BY <1>1, <1>6, <2>2 DEF Insert, RowMoves
  <2> QED
    BY <2>1, <2>2
<1>7. ASSUME NEW i \in Ids, InsertFails(i) PROVE RowMoves(id)
  <2>1. CASE i = id /\ rows' # rows
    <3>1. /\ job[id].step = "insert" /\ SameKey(id) = {} /\ rows'[id] = NewRow(id)
          /\ UNCHANGED <<objects, sweep, shown>> /\ torn' = torn \cup {id}
      BY <1>1, <1>7, <2>1 DEF InsertFails
    <3>2. job'[id].step = "clean"
      BY <1>1, <1>7, <2>1 DEF InsertFails, Goto, Job
    <3> QED
      BY <3>1, <3>2 DEF RowMoves, Inserted
  <2>2. CASE i # id \/ rows' = rows
    BY <1>1, <1>7, <2>2 DEF InsertFails, RowMoves
  <2> QED
    BY <2>1, <2>2
<1>8. ASSUME NEW i \in Ids, Request(i), ~Insert(i), ~InsertFails(i) PROVE UNCHANGED rows
  BY <1>8 DEF Request, server, Find, Put, Reject, PutFails, Delete, Die, Answer, Refused,
     Disconnect
<1>9. ASSUME NEW n \in Saves, NEW f \in Fields,
             UseCached(n, f) \/ \E i \in Ids : Upload(n, f, i)
      PROVE  UNCHANGED rows
  BY <1>9 DEF server, UseCached, Upload
<1>10. CASE Edits
  BY <1>2, <1>10, EditsKeep DEF FormOnly
<1> QED
  BY <1>2, <1>3, <1>4, <1>5, <1>6, <1>7, <1>8, <1>9, <1>10 DEF Next, Edits, vars, server,
     SweepSelect, SweepObject, SweepFails

\* The loss of a mark is made good by a mark only, of what is still usable.
LEMMA UnmarkedMoves ==
    ASSUME IInv, [Next]_vars, NEW id \in unmarked, id \notin unmarked'
    PROVE  Usable(id) /\ \E n \in Saves : Marks(n) /\ id \in SentIds(n)
<1>1. ASSUME NEW i \in Ids, Request(i) PROVE UNCHANGED unmarked
  BY <1>1 DEF Request, history, Find, Put, Reject, PutFails, Insert, InsertFails,
     Delete, Die, Answer, Refused, Disconnect
<1>2. ASSUME NEW n \in Saves, NEW f \in Fields,
             UseCached(n, f) \/ \E i \in Ids : Upload(n, f, i)
      PROVE  UNCHANGED unmarked
  BY <1>2 DEF history, UseCached, Upload
<1>3. CASE Edits
  BY <1>3, EditsKeep DEF FormOnly
<1>4. ASSUME NEW n \in Saves, Submit(n) \/ Finishes(n)
      PROVE  Usable(id) /\ Marks(n) /\ id \in SentIds(n)
  BY <1>4, SavesKeep DEF MarkFails, Marks, Unmarked
<1> QED
  BY <1>1, <1>2, <1>3, <1>4 DEF Next, Edits, vars, history, Expire, SweepSelect,
     SweepObject, SweepRows, SweepFails

\* A row that a card uses and that is not marked is so for a reason.
LEMMA MarksAreDue ==
    ASSUME IInv, [Next]_vars, NEW id \in Ids, Shown(id)',
           rows[id].status = "staged", rows'[id].status = "staged"
    PROVE  id \in unmarked' \/ BeingMarked(id)'
<1>1. rows \in [Ids -> Row] /\ rows[id] \in Row /\ save \in [Saves -> Save]
  BY DEF IInv, TypeOK
<1>2. ASSUME NEW n \in Saves, Marks(n), id \in SentIds(n) PROVE FALSE
  BY <1>1, <1>2 DEF Marks, Row
<1>3. ASSUME NEW n \in Saves, Commit(n), id \in SentIds(n) PROVE BeingMarked(id)'
  <2>1. save'[n] = [save[n] EXCEPT !.state = "marking"]
    BY <1>1, <1>3 DEF Commit, Becomes
  <2>2. save'[n].state = "marking" /\ save'[n].body = save[n].body
    BY <1>1, <2>1 DEF Save
  <2> QED
    BY <1>3, <2>2 DEF BeingMarked, SentIds
<1>4. CASE id \in unmarked
  BY <1>2, <1>4, UnmarkedMoves
<1>5. ASSUME NEW n \in Saves, save[n].state = "marking", id \in SentIds(n)
      PROVE  id \in unmarked' \/ BeingMarked(id)'
  <2>1. Keeps(n) /\ SaveStep(n)
    BY <1>5, SaveGoesOn
  <2>2. CASE save'[n].state = "marking"
    BY <1>5, <2>1, <2>2 DEF Keeps, BeingMarked, SentIds
  <2>3. CASE MarkFails(n)
    BY <1>5, <2>3 DEF MarkFails
  <2>4. CASE Mark(n)
    BY <1>2, <1>5, <2>4 DEF Mark
  <2> QED
    BY <1>5, <2>1, <2>2, <2>3, <2>4 DEF SaveStep, Commit, CommitRefused, GiveUp, Replay
<1>6. CASE Shown(id)
  <2>1. id \in unmarked \/ BeingMarked(id)
    BY <1>6 DEF IInv, RowsAreAnswered, Present
  <2> QED
    BY <1>4, <1>5, <2>1 DEF BeingMarked
<1> QED
  BY <1>3, <1>6, ShownMoves

\* A request that has answered stays so, and one that deletes after a failure goes
\* on to answer with it.
LEMMA AnsweredStays ==
    ASSUME IInv, [Next]_vars, NEW id \in Ids
    PROVE  /\ job[id].step \in {"answer", "fail", "done"} =>
                job'[id].step \in {"answer", "fail", "done"}
           /\ job[id].step = "clean" => job'[id].step \in {"clean", "fail"}
           /\ torn \subseteq torn'
<1>1. job \in [Ids -> Job] /\ job[id] \in Job
  BY DEF IInv, TypeOK
<1>2. ASSUME NEW n \in Saves, NEW f \in Fields, Upload(n, f, id) PROVE job[id].step = "new"
  BY <1>2, UploadBegins
<1>3. ASSUME Serves(id) \/ Answer(id) \/ Refused(id) \/ Disconnect(id)
      PROVE  /\ job[id].step \in {"answer", "fail", "done"} =>
                   job'[id].step \in {"answer", "fail", "done"}
             /\ job[id].step = "clean" => job'[id].step \in {"clean", "fail"}
  <2>1. ASSUME Find(id) \/ Put(id) \/ Reject(id) \/ PutFails(id) \/ Insert(id) \/ InsertFails(id)
        PROVE  job[id].step \in {"find", "put", "insert"}
    BY <2>1 DEF Find, Put, Reject, PutFails, Insert, InsertFails
  <2>2. ASSUME Delete(id) \/ Die(id)
        PROVE  /\ job[id].step \in Running
               /\ job[id].step = "clean" => job'[id].step = "fail"
    BY <1>1, <2>2 DEF Delete, Die, Goto, Job, Running
  <2>3. ASSUME Answer(id) \/ Refused(id)
        PROVE  job[id].step \in {"answer", "fail"} /\ job'[id].step = "done"
    BY <1>1, <2>3 DEF Answer, Refused, Done, Job
  <2>4. ASSUME Disconnect(id) PROVE job'[id].step = job[id].step
    BY <1>1, <2>4 DEF Disconnect, Job
  <2> QED
    BY <1>3, <2>1, <2>2, <2>3, <2>4 DEF Serves, Running
<1>4. torn \subseteq torn'
  <2>1. ASSUME NEW i \in Ids, Request(i) PROVE torn \subseteq torn'
    BY <2>1 DEF Request, history, Find, Put, Reject, PutFails, Insert, InsertFails,
       Delete, Die, Answer, Refused, Disconnect
  <2>2. ASSUME NEW n \in Saves, NEW f \in Fields,
               UseCached(n, f) \/ \E i \in Ids : Upload(n, f, i)
        PROVE  UNCHANGED torn
    BY <2>2 DEF history, UseCached, Upload
  <2>3. CASE Edits
    BY <2>3, EditsKeep DEF FormOnly
  <2>4. ASSUME NEW n \in Saves, Submit(n) \/ Finishes(n) PROVE UNCHANGED torn
    BY <2>4, SavesKeep DEF SaveOnly
  <2> QED
    BY <2>1, <2>2, <2>3, <2>4 DEF Next, Edits, vars, history, Expire,
       SweepSelect, SweepObject, SweepRows, SweepFails
<1> QED
  BY <1>2, <1>3, <1>4, JobMoves

\* Rows and uses stay those of uploads that have answered.
LEMMA RowsStay == ASSUME IInv, [Next]_vars PROVE RowsAreAnswered'
<1> SUFFICES ASSUME NEW id \in Ids
             PROVE  /\ Present(id)' => rows'[id].key = job'[id].key
                    /\ Present(id)' \/ Shown(id)' =>
                         \/ job'[id].step \in {"answer", "fail", "done"}
                         \/ job'[id].step = "clean" /\ id \in torn'
                    /\ rows'[id].status = "committed" => Shown(id)'
                    /\ Present(id)' /\ Shown(id)' =>
                         \/ rows'[id].status = "committed" \/ id \in unmarked'
                         \/ BeingMarked(id)'
                    /\ Present(id)' /\ rows'[id].expired => job'[id].step \notin Running
  BY DEF RowsAreAnswered
<1>1. rows \in [Ids -> Row] /\ rows[id] \in Row
  BY DEF IInv, TypeOK
<1>2. /\ Present(id) => rows[id].key = job[id].key
      /\ Present(id) \/ Shown(id) =>
           \/ job[id].step \in {"answer", "fail", "done"}
           \/ job[id].step = "clean" /\ id \in torn
      /\ rows[id].status = "committed" => Shown(id)
      /\ Present(id) /\ rows[id].expired => job[id].step \notin Running
  BY DEF IInv, RowsAreAnswered
<1>3. ASSUME Present(id) \/ Shown(id)
      PROVE  /\ \/ job'[id].step \in {"answer", "fail", "done"}
                \/ job'[id].step = "clean" /\ id \in torn'
             /\ job'[id].key = job[id].key
             /\ job[id].step \notin Running => job'[id].step \notin Running
  <2>1. Started(id)
    BY <1>2, <1>3 DEF Started
  <2>2. /\ \/ job'[id].step \in {"answer", "fail", "done"}
           \/ job'[id].step = "clean" /\ id \in torn'
        /\ job'[id].key = job[id].key
    BY <1>2, <1>3, <2>1, AnsweredStays, StartedStays
  <2>3. job[id].step \notin Running => job'[id].step \notin Running
    BY <1>2, <1>3, AnsweredStays DEF Running
  <2> QED
    BY <2>2, <2>3
<1>4. ASSUME Shown(id)', ~Shown(id) PROVE Usable(id) /\ UNCHANGED rows
  BY <1>4, ShownMoves DEF Commit, server
<1>5. CASE rows'[id] = rows[id]
  <2>1. Present(id)' /\ Shown(id)' =>
          rows'[id].status = "committed" \/ id \in unmarked' \/ BeingMarked(id)'
    BY <1>1, <1>5, MarksAreDue DEF Present, Row
  <2>2. Present(id)' <=> Present(id)
    BY <1>5 DEF Present
  <2>3. Shown(id)' => Shown(id) \/ Present(id)
    BY <1>4 DEF Usable, Present
  <2> QED
    BY <1>2, <1>3, <1>5, <2>1, <2>2, <2>3, ShownMoves
<1>6. CASE Inserted(id)
  <2>1. ~Present(id) /\ ~Shown(id) /\ ~Shown(id)' /\ job[id].step # "new"
    BY <1>2, <1>6 DEF Inserted, Shown
  <2>2. job'[id].key = job[id].key
    BY <2>1, StartedStays DEF Started
  <2> QED
    BY <1>6, <2>1, <2>2 DEF Inserted, NewRow, Present
<1>7. CASE /\ rows[id].status = "staged" /\ rows'[id] = [rows[id] EXCEPT !.status = "committed"]
           /\ \E n \in Saves : (Mark(n) \/ Replay(n)) /\ id \in SentIds(n)
  <2>1. Shown(id) /\ Shown(id)'
    BY <1>7, ShownMoves DEF IInv, CommitsAreShown, Mark, Replay
  <2>2. /\ rows'[id].status = "committed" /\ rows'[id].key = rows[id].key /\ Present(id)
        /\ rows'[id].expired = rows[id].expired
    BY <1>1, <1>7 DEF Row, Present
  <2> QED
    BY <1>2, <1>3, <2>1, <2>2
<1>8. CASE Expire(id) /\ rows'[id] = [rows[id] EXCEPT !.expired = TRUE]
  <2>1. rows'[id].status = rows[id].status /\ rows'[id].key = rows[id].key /\ Present(id)
    BY <1>1, <1>8 DEF Row, Expire
  <2>2. /\ Shown(id)' <=> Shown(id)
        /\ BeingMarked(id)' <=> BeingMarked(id)
        /\ unmarked' = unmarked
        /\ job'[id].step \notin Running
    BY <1>8 DEF Expire, history, Shown, BeingMarked, SentIds
  <2>3. Present(id)' /\ Shown(id)' =>
          rows'[id].status = "committed" \/ id \in unmarked' \/ BeingMarked(id)'
    BY <2>1, <2>2 DEF IInv, RowsAreAnswered
  <2> QED
    BY <1>2, <1>3, <2>1, <2>2, <2>3 DEF Present
<1>9. CASE SweepRows /\ rows'[id] = NoRow
  <2>1. Shown(id)' <=> Shown(id)
    BY <1>9 DEF SweepRows, history, Shown
  <2> QED
    BY <1>2, <1>3, <1>9, <2>1 DEF NoRow, Present
<1> QED
  BY <1>5, <1>6, <1>7, <1>8, <1>9, AllRowsMove DEF RowMoves

-----------------------------------------------------------------------------
(* Objects.                                                                *)

\* What a step does to the objects of an upload.
ObjectMoves(id) ==
    \/ Stored(id)' = Stored(id)
    \/ Put(id) \/ PutFails(id) \/ Delete(id)
    \/ /\ SweepObject /\ id \in sweep.saw /\ rows[id].status # "committed"
       /\ Stored(id)' \subseteq Stored(id)

\* No step does anything else to them.
LEMMA AllObjectsMove == ASSUME IInv, [Next]_vars, NEW id \in Ids PROVE ObjectMoves(id)
<1>1. CASE UNCHANGED objects
  BY <1>1 DEF ObjectMoves, Stored
<1>2. CASE SweepObject
  <2>1. PICK o \in sweep.left : objects' = objects \ {o}
    BY <1>2 DEF SweepObject
  <2>2. o[1] \in sweep.saw /\ rows[o[1]].status # "committed" /\ o \in Ids \X (1..Parts)
    BY <2>1 DEF IInv, SweepIsSafe, TypeOK
  <2>3. CASE o[1] = id
    BY <1>2, <2>1, <2>2, <2>3 DEF ObjectMoves, Stored
  <2>4. CASE o[1] # id
    <3>1. \A p \in 1..Parts : <<id, p>> # o
      BY <2>4
    <3> QED
      BY <2>1, <3>1 DEF ObjectMoves, Stored
  <2> QED
    BY <2>3, <2>4
<1>3. ASSUME NEW i \in Ids, Put(i) \/ PutFails(i) \/ Delete(i) PROVE ObjectMoves(id)
  <2>1. CASE i = id
    BY <1>3, <2>1 DEF ObjectMoves
  <2>2. CASE i # id
    <3>1. \A p \in 1..Parts : <<id, p>> \in objects' <=> <<id, p>> \in objects
      <4>1. CASE Put(i) \/ PutFails(i)
        BY <2>2, <4>1 DEF Put, PutFails, Base, server
      <4>2. CASE Delete(i)
        <5>1. \A p \in 1..Parts : <<id, p>> \notin OwnObjects(i)
          BY <2>2 DEF OwnObjects, Base
        <5> QED
          BY <4>2, <5>1 DEF Delete
      <4> QED
        BY <1>3, <4>1, <4>2
    <3> QED
      BY <3>1 DEF ObjectMoves, Stored
  <2> QED
    BY <2>1, <2>2
<1>4. ASSUME NEW i \in Ids, Request(i), ~Put(i), ~PutFails(i), ~Delete(i)
      PROVE  UNCHANGED objects
  BY <1>4 DEF Request, server, Find, Reject, Insert, InsertFails, Die, Answer, Refused,
     Disconnect
<1>5. ASSUME NEW n \in Saves, NEW f \in Fields,
             UseCached(n, f) \/ \E i \in Ids : Upload(n, f, i)
      PROVE  UNCHANGED objects
  BY <1>5 DEF server, UseCached, Upload
<1>6. CASE Edits
  BY <1>1, <1>6, EditsKeep DEF FormOnly
<1>7. ASSUME NEW n \in Saves, Submit(n) \/ Finishes(n) PROVE UNCHANGED objects
  BY <1>7, SavesKeep DEF SaveOnly
<1> QED
  BY <1>1, <1>2, <1>3, <1>4, <1>5, <1>6, <1>7 DEF Next, Edits, vars, server, Expire,
     SweepSelect, SweepRows, SweepFails

\* What a failure left is remembered.
LEMMA LeakedStays == ASSUME IInv, [Next]_vars PROVE leaked \subseteq leaked'
<1>1. ASSUME NEW i \in Ids, Request(i) PROVE leaked \subseteq leaked'
  BY <1>1 DEF Request, history, Find, Put, Reject, PutFails, Insert, InsertFails,
     Delete, Die, Answer, Refused, Disconnect
<1>2. ASSUME NEW n \in Saves, NEW f \in Fields,
             UseCached(n, f) \/ \E i \in Ids : Upload(n, f, i)
      PROVE  UNCHANGED leaked
  BY <1>2 DEF history, UseCached, Upload
<1>3. CASE Edits
  BY <1>3, EditsKeep DEF FormOnly
<1>4. ASSUME NEW n \in Saves, Submit(n) \/ Finishes(n) PROVE UNCHANGED leaked
  BY <1>4, SavesKeep DEF SaveOnly
<1> QED
  BY <1>1, <1>2, <1>3, <1>4 DEF Next, Edits, vars, history, Expire,
     SweepSelect, SweepObject, SweepRows, SweepFails

\* An object more is stored, or the upload fails.
LEMMA PutStores ==
    ASSUME IInv, NEW id \in Ids, Put(id) \/ PutFails(id)
    PROVE  StoredSoFar(id)'
<1>1. /\ job \in [Ids -> Job] /\ job[id] \in Job /\ job[id].stored \in 0..Parts
      /\ Parts \in Nat \ {0}
  BY NumberAssumption DEF IInv, TypeOK, Job
<1>2. job[id].stored < Parts /\ Stored(id) = 1..job[id].stored
  BY DEF IInv, ObjectsAreStored, StoredSoFar, Put, PutFails
<1>3. CASE Put(id)
  <2>1. objects' = objects \cup {<<id, job[id].stored + 1>>}
    BY <1>3 DEF Put, Base
  <2>2. Stored(id)' = Stored(id) \cup {job[id].stored + 1}
    BY <1>1, <1>2, <2>1 DEF Stored
  <2>3. Stored(id)' = 1..(job[id].stored + 1)
    BY <1>1, <1>2, <2>2
  <2>4. /\ job'[id].stored = job[id].stored + 1
        /\ job'[id].step = IF job[id].stored + 1 = Parts THEN "insert" ELSE "put"
    BY <1>1, <1>3 DEF Put, Job
  <2>5. \/ job'[id].step = "put" /\ job'[id].stored < Parts
        \/ job'[id].step = "insert" /\ job'[id].stored = Parts
    BY <1>1, <1>2, <2>4
  <2> QED
    BY <1>1, <2>3, <2>4, <2>5 DEF StoredSoFar
<1>4. CASE PutFails(id)
  <2>1. job'[id].step = "clean" /\ job'[id].stored = job[id].stored
    BY <1>1, <1>4 DEF PutFails, Goto, Job
  <2>2. Stored(id)' = Stored(id) \/ id \in leaked'
    BY <1>4 DEF PutFails, Stored
  <2> QED
    BY <1>2, <2>1, <2>2 DEF StoredSoFar
<1> QED
  BY <1>3, <1>4

\* The other steps of a request keep what is stored, or end the upload.
LEMMA StepStores ==
    ASSUME IInv, NEW id \in Ids, Stored(id)' = Stored(id), leaked \subseteq leaked',
           \/ Find(id) \/ Reject(id) \/ Insert(id) \/ InsertFails(id) \/ Die(id)
           \/ Answer(id) \/ Refused(id) \/ Disconnect(id)
    PROVE  StoredSoFar(id)'
<1>1. /\ job \in [Ids -> Job] /\ job[id] \in Job /\ job[id].stored \in 0..Parts
      /\ Parts \in Nat \ {0}
  BY NumberAssumption DEF IInv, TypeOK, Job
<1>2. StoredSoFar(id)
  BY DEF IInv, ObjectsAreStored
<1>3. CASE Find(id)
  <2>1. job[id].step = "find" /\ Stored(id) = {} /\ job[id].stored = 0
    BY <1>2, <1>3 DEF Find, StoredSoFar
  <2>2. job'[id].step \in {"answer", "put"} /\ job'[id].stored = job[id].stored
    BY <1>1, <1>3 DEF Find, Goto, Job
  <2>3. 0 < Parts /\ 1..0 = {}
    BY <1>1
  <2> QED
    BY <2>1, <2>2, <2>3 DEF StoredSoFar
<1>4. CASE Insert(id) \/ InsertFails(id)
  <2>1. Stored(id) = 1..job[id].stored
    BY <1>2, <1>4 DEF Insert, InsertFails, StoredSoFar
  <2>2. job'[id].step \in {"answer", "drop", "clean"} /\ job'[id].stored = job[id].stored
    <3>1. CASE Insert(id)
      BY <1>1, <3>1 DEF Insert, Loser, Job
    <3>2. CASE InsertFails(id)
      BY <1>1, <3>2 DEF InsertFails, Goto, Job
    <3> QED
      BY <1>4, <3>1, <3>2
  <2> QED
    BY <2>1, <2>2 DEF StoredSoFar
<1>5. CASE Reject(id) \/ Die(id) \/ Answer(id) \/ Refused(id)
  <2>1. job'[id].step \in {"fail", "done"}
    <3>1. CASE Reject(id) \/ Die(id)
      BY <1>1, <3>1 DEF Reject, Die, Goto, Job
    <3>2. CASE Answer(id) \/ Refused(id)
      BY <1>1, <3>2 DEF Answer, Refused, Done, Job
    <3> QED
      BY <1>5, <3>1, <3>2
  <2> QED
    BY <2>1 DEF StoredSoFar
<1>6. CASE Disconnect(id)
  <2>1. job'[id].step = job[id].step /\ job'[id].stored = job[id].stored
    BY <1>1, <1>6 DEF Disconnect, Job
  <2> QED
    BY <1>2, <2>1 DEF StoredSoFar
<1> QED
  BY <1>3, <1>4, <1>5, <1>6

\* An upload's objects stay those that it has stored so far.
LEMMA ObjectsStay == ASSUME IInv, [Next]_vars PROVE ObjectsAreStored'
<1> SUFFICES ASSUME NEW id \in Ids PROVE StoredSoFar(id)'
  BY DEF ObjectsAreStored
<1>1. job \in [Ids -> Job] /\ job[id] \in Job /\ StoredSoFar(id)
  BY DEF IInv, TypeOK, ObjectsAreStored
<1>2. leaked \subseteq leaked'
  BY LeakedStays
<1>3. CASE Delete(id)
  <2>1. job'[id].step \in {"answer", "fail"}
    BY <1>1, <1>3 DEF Delete, Goto, Job
  <2> QED
    BY <2>1 DEF StoredSoFar
<1>4. CASE Put(id) \/ PutFails(id)
  BY <1>4, PutStores
<1>5. CASE SweepObject /\ id \in sweep.saw
  <2>1. job[id].step \notin {"find", "put", "insert", "drop", "clean"} /\ job'[id] = job[id]
    BY <1>5 DEF IInv, SweepIsSafe, SweepObject, Running
  <2>2. job[id].step # "new"
    BY <1>5 DEF IInv, SweepIsSafe, RowsAreAnswered
  <2> QED
    BY <2>1, <2>2 DEF StoredSoFar
<1>6. CASE Stored(id)' = Stored(id)
  <2>1. CASE job'[id] = job[id]
    BY <1>1, <1>2, <1>6, <2>1 DEF StoredSoFar
  <2>2. ASSUME NEW n \in Saves, NEW f \in Fields, Upload(n, f, id) PROVE StoredSoFar(id)'
    <3>1. job[id].step = "new"
      BY <2>2 DEF Upload
    <3>2. job'[id].step = "find"
      BY ONLY IInv, <2>2, UploadBegins
    <3>3. job'[id].stored = 0
      <4>1. PICK key \in Ids :
              /\ key = id \/ (cache[f] # NoEntry /\ key = cache[f].key
                              /\ cache[f].source = save[n].wanted[f])
              /\ cache'[f] = [source |-> save[n].wanted[f], key |-> key, id |-> None]
              /\ job'[id] = [step |-> "find", waits |-> "yes", save |-> n, field |-> f,
                             source |-> save[n].wanted[f], key |-> key,
                             stored |-> 0, id |-> None]
        BY <2>2, UploadKey
      <4> QED
        BY <4>1
    <3> QED
      BY <1>1, <1>6, <3>1, <3>2, <3>3 DEF StoredSoFar
  <2> QED
    BY <1>2, <1>3, <1>4, <1>6, <2>1, <2>2, JobMoves, StepStores DEF Serves
<1> QED
  BY <1>3, <1>4, <1>5, <1>6, AllObjectsMove DEF ObjectMoves

-----------------------------------------------------------------------------
(* Types.                                                                  *)

\* A save with other values in its fields is a save.
LEMMA SaveParts ==
    ASSUME NEW s \in Save
    PROVE  /\ \A state \in SaveStates : [s EXCEPT !.state = state] \in Save
           /\ \A waits \in {"yes", "no"} : [s EXCEPT !.waits = waits] \in Save
           /\ \A taken \in SUBSET Fields : [s EXCEPT !.taken = taken] \in Save
           /\ \A ready \in [Fields -> Ids \cup {None}] : [s EXCEPT !.ready = ready] \in Save
           /\ \A k \in 0..Workers : [s EXCEPT !.workers = k] \in Save
           /\ \A c \in Targets : [s EXCEPT !.target = c] \in Save
           /\ \A body \in SUBSET (Ids \X Files) : [s EXCEPT !.body = body] \in Save
<1>1. \A state \in SaveStates : [s EXCEPT !.state = state] \in Save
  BY DEF Save
<1>2. \A waits \in {"yes", "no"} : [s EXCEPT !.waits = waits] \in Save
  BY DEF Save
<1>3. \A taken \in SUBSET Fields : [s EXCEPT !.taken = taken] \in Save
  BY DEF Save
<1>4. \A ready \in [Fields -> Ids \cup {None}] : [s EXCEPT !.ready = ready] \in Save
  BY DEF Save
<1>5. \A k \in 0..Workers : [s EXCEPT !.workers = k] \in Save
  BY DEF Save
<1>6. \A c \in Targets : [s EXCEPT !.target = c] \in Save
  BY DEF Save
<1>7. \A body \in SUBSET (Ids \X Files) : [s EXCEPT !.body = body] \in Save
  BY DEF Save
<1> QED
  BY <1>1, <1>2, <1>3, <1>4, <1>5, <1>6, <1>7

\* A save with another value in a field.
LEMMA SaveFields ==
    ASSUME NEW n \in Saves, save \in [Saves -> Save]
    PROVE  /\ \A state \in SaveStates : [save EXCEPT ![n].state = state] \in [Saves -> Save]
           /\ \A f \in Fields : [save EXCEPT ![n].taken = @ \cup {f}] \in [Saves -> Save]
           /\ \A f \in Fields, id \in Ids : [save EXCEPT ![n].ready[f] = id] \in [Saves -> Save]
           /\ \A state \in SaveStates, k \in 0..Workers :
                [save EXCEPT ![n].state = state, ![n].workers = k] \in [Saves -> Save]
<1>1. \A state \in SaveStates : [save EXCEPT ![n].state = state] \in [Saves -> Save]
  BY DEF Save
<1>2. \A f \in Fields : [save EXCEPT ![n].taken = @ \cup {f}] \in [Saves -> Save]
  BY DEF Save
<1>3. ASSUME NEW f \in Fields, NEW id \in Ids
      PROVE  [save EXCEPT ![n].ready[f] = id] \in [Saves -> Save]
  <2>1. PICK ready \in [Fields -> Ids \cup {None}] : ready = [save[n].ready EXCEPT ![f] = id]
    BY DEF Save
  <2>2. [save EXCEPT ![n].ready[f] = id] = [save EXCEPT ![n].ready = ready]
    BY <2>1
  <2>3. [save[n] EXCEPT !.ready = ready] \in Save
    BY SaveParts
  <2> QED
    BY <2>2, <2>3
<1>4. ASSUME NEW state \in SaveStates, NEW k \in 0..Workers
      PROVE  [save EXCEPT ![n].state = state, ![n].workers = k] \in [Saves -> Save]
  <2>1. [save[n] EXCEPT !.state = state] \in Save
    BY SaveParts
  <2>2. [[save[n] EXCEPT !.state = state] EXCEPT !.workers = k] \in Save
    BY <2>1, SaveParts
  <2> QED
    BY <2>2
<1> QED
  BY <1>1, <1>2, <1>3, <1>4

\* An upload with another value in a field.
LEMMA JobFields ==
    ASSUME NEW id \in Ids, job \in [Ids -> Job]
    PROVE  /\ \A step \in Steps : [job EXCEPT ![id].step = step] \in [Ids -> Job]
           /\ \A step \in Steps, r \in Ids :
                [job EXCEPT ![id].step = step, ![id].id = r] \in [Ids -> Job]
           /\ \A step \in Steps, k \in 0..Parts :
                [job EXCEPT ![id].stored = k, ![id].step = step] \in [Ids -> Job]
           /\ \A step \in Steps :
                [job EXCEPT ![id].step = step, ![id].waits = "no"] \in [Ids -> Job]
<1>1. \A step \in Steps : [job EXCEPT ![id].step = step] \in [Ids -> Job]
  BY DEF Job
<1>2. ASSUME NEW step \in Steps, NEW r \in Ids
      PROVE  [job EXCEPT ![id].step = step, ![id].id = r] \in [Ids -> Job]
  <2> DEFINE new == [job[id] EXCEPT !.step = step, !.id = r]
  <2>1. new \in Job
    <3>1. job[id] \in Job
      OBVIOUS
    <3> QED
      BY <3>1 DEF Job
  <2>2. [job EXCEPT ![id].step = step, ![id].id = r] = [job EXCEPT ![id] = new]
    OBVIOUS
  <2> HIDE DEF new
  <2> QED
    BY <2>1, <2>2
<1>3. ASSUME NEW step \in Steps, NEW k \in 0..Parts
      PROVE  [job EXCEPT ![id].stored = k, ![id].step = step] \in [Ids -> Job]
  <2> DEFINE new == [job[id] EXCEPT !.stored = k, !.step = step]
  <2>1. new \in Job
    <3>1. job[id] \in Job
      OBVIOUS
    <3> QED
      BY <3>1 DEF Job
  <2>2. [job EXCEPT ![id].stored = k, ![id].step = step] = [job EXCEPT ![id] = new]
    OBVIOUS
  <2> HIDE DEF new
  <2> QED
    BY <2>1, <2>2
<1>4. ASSUME NEW step \in Steps
      PROVE  [job EXCEPT ![id].step = step, ![id].waits = "no"] \in [Ids -> Job]
  <2> DEFINE new == [job[id] EXCEPT !.step = step, !.waits = "no"]
  <2>1. new \in Job
    <3>1. job[id] \in Job
      OBVIOUS
    <3> QED
      BY <3>1 DEF Job
  <2>2. [job EXCEPT ![id].step = step, ![id].waits = "no"] = [job EXCEPT ![id] = new]
    OBVIOUS
  <2> HIDE DEF new
  <2> QED
    BY <2>1, <2>2
<1> QED
  BY <1>1, <1>2, <1>3, <1>4

\* The steps of the form and of the removal keep the types.
LEMMA FormTypes ==
    ASSUME IInv,
           Edits \/ SweepSelect \/ SweepObject \/ SweepFails
    PROVE  TypeOK'
<1>1. /\ TypeOK /\ NoEntry \in Entry /\ MaxFiles \in Nat /\ MaxFaults \in Nat
      /\ Cards \cup {NewCard, None} = Targets
  BY NumberAssumption DEF IInv, Entry, Targets
<1>0. Edit => edits' \in 0..MaxEdits
  BY <1>1, NumberAssumption DEF Edit, TypeOK
<1>2. ASSUME NEW f \in Fields, Choose(f) PROVE TypeOK'
  <2>1. files' \in Files /\ preparing' \subseteq Fields \X Files /\ files' \in 0..MaxFiles
    BY <1>1, <1>2 DEF Choose, TypeOK, Files
  <2> QED
    BY <1>0, <1>1, <1>2, <2>1 DEF Choose, TypeOK, server, history
<1>3. ASSUME NEW f \in Fields, NEW s \in Files, Prepared(f, s) PROVE TypeOK'
  BY <1>1, <1>3 DEF Prepared, TypeOK, server, history
<1>4. ASSUME NEW f \in Fields, Clear(f) PROVE TypeOK'
  BY <1>0, <1>1, <1>4 DEF Clear, TypeOK, server, history
<1>5. ASSUME NEW c \in Cards \cup {NewCard}, Open(c) PROVE TypeOK'
  <2>1. opened' \subseteq Saves \X Targets /\ card' \in Targets
    BY <1>1, <1>5 DEF Open, TypeOK, Targets
  <2> QED
    BY <1>0, <1>1, <1>5, <2>1 DEF Open, TypeOK, server
<1>9. CASE Close
  BY <1>0, <1>1, <1>9 DEF Close, TypeOK, Targets, server, history
<1>6. CASE SweepSelect
  BY <1>1, <1>6 DEF SweepSelect, TypeOK, client, server, history
<1>7. CASE SweepObject
  BY <1>1, <1>7 DEF SweepObject, TypeOK, client, history
<1>8. CASE SweepFails
  BY <1>1, <1>8 DEF SweepFails, Fault, TypeOK, client, server, history
<1> QED
  BY <1>2, <1>3, <1>4, <1>5, <1>6, <1>7, <1>8, <1>9 DEF Edits

\* An upload that begins has its types.
LEMMA UploadTypes ==
    ASSUME IInv, NEW n \in Saves, NEW f \in Fields, NEW id \in Ids, Upload(n, f, id)
    PROVE  TypeOK'
<1>0. TypeOK /\ save[n].wanted[f] \in Files \cup {None}
  BY DEF IInv, TypeOK, Save
<1>1. PICK key \in Ids :
        /\ key = id \/ (cache[f] # NoEntry /\ key = cache[f].key
                        /\ cache[f].source = save[n].wanted[f])
        /\ cache'[f] = [source |-> save[n].wanted[f], key |-> key, id |-> None]
        /\ job'[id] = [step |-> "find", waits |-> "yes", save |-> n, field |-> f,
                       source |-> save[n].wanted[f], key |-> key,
                       stored |-> 0, id |-> None]
  BY UploadKey
<1>2. save[n].wanted[f] \in Files
  BY <1>0 DEF Upload, Takes
<1>3. cache' \in [Fields -> Entry]
  <2>1. cache'[f] \in Entry
    BY <1>1, <1>2 DEF Entry
  <2> QED
    BY <1>0, <2>1 DEF Upload, TypeOK
<1>4. job' \in [Ids -> Job]
  <2>1. job'[id] \in Job
    BY <1>1, <1>2, NumberAssumption DEF Job, Steps, Running, Saves
  <2> QED
    BY <1>0, <2>1 DEF Upload, TypeOK
<1>5. save' \in [Saves -> Save]
  BY <1>0, SaveFields DEF Upload, TypeOK
<1> QED
  BY <1>0, <1>3, <1>4, <1>5 DEF Upload, TypeOK, server, history

\* The steps of saves keep the types.
LEMMA SaveTypes ==
    ASSUME IInv,
           \/ \E n \in Saves : Submit(n) \/ Finishes(n)
           \/ \E n \in Saves, f \in Fields :
                UseCached(n, f) \/ \E id \in Ids : Upload(n, f, id)
    PROVE  TypeOK'
<1>1. /\ TypeOK /\ Workers \in Nat /\ None \in Targets
      /\ \A n \in Saves, f \in Fields : save[n].ready[f] \in Ids \cup {None}
      /\ \A n \in Saves, f \in Fields : save[n].wanted[f] \in Files \cup {None}
  BY NumberAssumption DEF IInv, TypeOK, Save, Targets
<1>2. ASSUME NEW n \in Saves, Submit(n) PROVE TypeOK'
  <2>1. save' \in [Saves -> Save]
    <3> DEFINE begun == [NewSave EXCEPT !.state = "staging", !.waits = "yes", !.card = card,
                                        !.wanted = form, !.workers = Workers]
    <3>1. begun \in Save
      <4>1. NewSave \in Save
        BY <1>1 DEF NewSave, Save, SaveStates
      <4>2. form \in [Fields -> Files \cup {None}] /\ Workers \in 0..Workers /\ card \in Targets
        BY <1>1 DEF TypeOK
      <4> QED
        BY <4>1, <4>2 DEF Save, SaveStates
    <3>2. save' = [save EXCEPT ![n] = begun]
      BY <1>2 DEF Submit
    <3> HIDE DEF begun
    <3> QED
      BY <1>1, <3>1, <3>2 DEF TypeOK
  <2> QED
    BY <1>1, <1>2, <2>1 DEF Submit, TypeOK, client, server, history
<1>3. ASSUME NEW n \in Saves, Finishes(n) PROVE TypeOK'
  <2>1. save' \in [Saves -> Save]
    <3>1. CASE Send(n)
      <4> DEFINE body == {<<save[n].ready[f], save[n].wanted[f]>> :
                            f \in {f \in Fields : save[n].ready[f] # None}}
      <4>1. body \in SUBSET (Ids \X Files)
        <5>1. ASSUME NEW f \in Fields, save[n].ready[f] # None
              PROVE  save[n].ready[f] \in Ids /\ save[n].wanted[f] \in Files
          <6>1. IsOf(save[n].ready[f], save[n].wanted[f])
            BY <5>1 DEF IInv, AnswersAreRight
          <6> QED
            BY <6>1 DEF IsOf, Started
        <5> QED
          BY <5>1
      <4>2. save' = [save EXCEPT ![n] = [save[n] EXCEPT
                       !.state = "sent", !.target = card, !.body = body]]
        BY <1>1, <3>1 DEF Send, TypeOK
      <4> HIDE DEF body
      <4>3. [save[n] EXCEPT !.state = "sent", !.target = card, !.body = body] \in Save
        <5>1. [save[n] EXCEPT !.state = "sent"] \in Save
          BY <1>1, SaveParts DEF SaveStates, TypeOK
        <5>2. [[save[n] EXCEPT !.state = "sent"] EXCEPT !.target = card] \in Save
          BY <1>1, <5>1, SaveParts DEF TypeOK
        <5>3. [[[save[n] EXCEPT !.state = "sent"] EXCEPT !.target = card]
                 EXCEPT !.body = body] \in Save
          BY <4>1, <5>2, SaveParts
        <5> QED
          BY <5>3
      <4> QED
        BY <1>1, <4>2, <4>3 DEF TypeOK
    <3>2. CASE save' = [save EXCEPT ![n].waits = "no"]
      <4>1. save[n] \in Save /\ "no" \in {"yes", "no"}
        BY <1>1 DEF TypeOK
      <4>2. [save[n] EXCEPT !.waits = "no"] \in Save
        BY <4>1, SaveParts
      <4> QED
        BY <1>1, <3>2, <4>2 DEF TypeOK
    <3>3. CASE \E to \in {"marking", "resent", "failed", "done"} :
                 save' = [save EXCEPT ![n].state = to]
      <4>1. PICK to \in SaveStates : save' = [save EXCEPT ![n].state = to]
        BY <3>3 DEF SaveStates
      <4>2. save \in [Saves -> Save]
        BY <1>1 DEF TypeOK
      <4> QED
        BY <4>1, <4>2, SaveFields
    <3> QED
      BY <1>3, <3>1, <3>2, <3>3, SavesGo
  <2>2. rows' \in [Ids -> Row] /\ unmarked' \subseteq Ids
    <3>1. SentIds(n) \subseteq Ids
      BY <1>1 DEF TypeOK, Save, SentIds
    <3> QED
      BY <1>1, <1>3, <3>1, SavesKeep DEF Marks, Unmarked, MarkFails, TypeOK, Row
  <2>3. shown' \subseteq Ids \X Files \X Saves
    <3>1. CASE Commit(n)
      <4>1. save[n].body \subseteq Ids \X Files
        BY <1>1 DEF TypeOK, Save
      <4>2. shown' = shown \cup {<<use[1], use[2], n>> : use \in save[n].body}
        BY <3>1 DEF Commit
      <4> QED
        BY <1>1, <4>1, <4>2 DEF TypeOK
    <3> QED
      BY <1>1, <1>3, <3>1, SavesKeep DEF TypeOK
  <2>4. card' \in Targets /\ faults' \in 0..MaxFaults
    <3>1. UNCHANGED faults \/ Fault
      BY <1>3 DEF Finishes, Send, HangUp, Commit, CommitRefused, Mark, MarkFails, Replay, GiveUp
    <3> QED
      BY <1>1, <1>3, <3>1, SavesKeep, NumberAssumption DEF TypeOK, Fault
  <2>5. SaveOnly /\ UNCHANGED sweep
    BY <1>3, SavesKeep DEF Finishes, Send, HangUp, Commit, CommitRefused, Mark, MarkFails,
       Replay, GiveUp
  <2> QED
    BY <1>1, <2>1, <2>2, <2>3, <2>4, <2>5 DEF TypeOK, SaveOnly
<1>5. ASSUME NEW n \in Saves, NEW f \in Fields, UseCached(n, f) PROVE TypeOK'
  <2>1. cache[f].id \in Ids
    BY <1>1, <1>5 DEF UseCached, TypeOK, Entry, NoEntry
  <2>2. save' \in [Saves -> Save]
    <3>1. save \in [Saves -> Save] /\ save[n] \in Save
      BY <1>1 DEF TypeOK
    <3>2. save[n].taken \cup {f} \in SUBSET Fields
      BY <3>1 DEF Save
    <3>3. PICK ready \in [Fields -> Ids \cup {None}] :
            ready = [save[n].ready EXCEPT ![f] = cache[f].id]
      BY <2>1, <3>1 DEF Save
    <3>4. save' = [save EXCEPT ![n].taken = save[n].taken \cup {f}, ![n].ready = ready]
      BY <1>5, <3>1, <3>3 DEF UseCached
    <3>5. [save[n] EXCEPT !.taken = save[n].taken \cup {f}] \in Save
      BY <3>1, <3>2, SaveParts
    <3>6. [[save[n] EXCEPT !.taken = save[n].taken \cup {f}] EXCEPT !.ready = ready] \in Save
      BY <3>5, SaveParts
    <3> QED
      BY <3>1, <3>4, <3>6
  <2> QED
    BY <1>1, <1>5, <2>2 DEF UseCached, TypeOK, client, server, history
<1>6. ASSUME NEW n \in Saves, NEW f \in Fields, NEW id \in Ids, Upload(n, f, id)
      PROVE  TypeOK'
  BY <1>6, UploadTypes
<1> QED
  BY <1>2, <1>3, <1>5, <1>6

\* A save that has an upload to wait for has a worker to lose.
LEMMA FailsTypes ==
    ASSUME IInv, NEW id \in Ids, job[id].waits = "yes"
    PROVE  Fails(job[id].save) \in [Saves -> Save]
<1> DEFINE n == job[id].save
<1>1. n \in Saves /\ save \in [Saves -> Save] /\ Workers \in Nat
  BY NumberAssumption DEF IInv, TypeOK, UploadsAreWanted
<1>2. Cardinality(Uploading(n)) # 0
  <2>1. id \in Uploading(n) /\ IsFiniteSet(Uploading(n))
    BY <1>1 DEF Uploading, IInv, WorkersSuffice
  <2> QED
    BY <2>1, FS_EmptySet
<1>3. Cardinality(Uploading(n)) \in Nat /\ Cardinality(Uploading(n)) <= save[n].workers
  BY <1>1, FS_CardinalityType DEF IInv, WorkersSuffice
<1> HIDE DEF n
<1>4. save[n].workers - 1 \in 0..Workers
  BY <1>1, <1>2, <1>3 DEF Save
<1>5. Fails(n) \in [Saves -> Save]
  <2> DEFINE state == IF save[n].state = "staging" THEN "failed" ELSE save[n].state
  <2>1. state \in SaveStates
    BY <1>1 DEF Save, SaveStates
  <2>2. Fails(n) = [save EXCEPT ![n].state = state, ![n].workers = save[n].workers - 1]
    BY <1>1 DEF Fails
  <2> HIDE DEF state
  <2>3. [save EXCEPT ![n].state = state, ![n].workers = save[n].workers - 1]
          \in [Saves -> Save]
    BY <1>1, <1>4, <2>1, SaveFields
  <2> QED
    BY <2>2, <2>3
<1> QED
  BY <1>5 DEF n

\* The steps of requests keep the types.
LEMMA RequestTypes == ASSUME IInv, NEW id \in Ids, Request(id) PROVE TypeOK'
<1>1. /\ TypeOK /\ job[id] \in Job /\ Parts \in Nat \ {0} /\ MaxFaults \in Nat
      /\ job \in [Ids -> Job]
  BY NumberAssumption DEF IInv, TypeOK
<1>2. \A step \in Steps : [job EXCEPT ![id].step = step] \in [Ids -> Job]
  BY <1>1, JobFields
<1>3. \A step \in Steps, r \in Ids :
        [job EXCEPT ![id].step = step, ![id].id = r] \in [Ids -> Job]
  BY <1>1, JobFields
<1>4. Fault => faults' \in 0..MaxFaults
  BY <1>1 DEF Fault, TypeOK
<1>5. Running \cup {"answer", "fail"} \subseteq Steps /\ SameKey(id) \subseteq Ids
  BY DEF Running, Steps, SameKey
<1>6. CASE Find(id)
  <2>1. job' \in [Ids -> Job]
    <3>1. CASE \E r \in SameKey(id) : Usable(r)
      <4>1. PICK r \in SameKey(id) : job' = [job EXCEPT ![id].step = "answer", ![id].id = r]
        BY <1>6, <3>1 DEF Find
      <4> QED
        BY <1>3, <1>5, <4>1
    <3>2. CASE ~\E r \in SameKey(id) : Usable(r)
      BY <1>2, <1>5, <1>6, <3>2 DEF Find, Goto, Running
    <3> QED
      BY <3>1, <3>2
  <2> QED
    BY <1>1, <1>6, <2>1 DEF Find, TypeOK, client, server, history
<1>7. job[id].step = "put" => /\ job[id].stored + 1 \in 1..Parts
                              /\ job[id].stored \in Nat
  <2>1. job[id].step = "put" => job[id].stored < Parts
    BY DEF IInv, ObjectsAreStored, StoredSoFar
  <2>2. job[id].stored \in 0..Parts
    BY <1>1 DEF Job
  <2> QED
    BY <2>1, <2>2
<1>8. CASE Put(id)
  <2>1. job' \in [Ids -> Job]
    <3> DEFINE step == IF job[id].stored + 1 = Parts THEN "insert" ELSE job[id].step
               k == job[id].stored + 1
    <3>1. step \in Steps /\ k \in 0..Parts
      BY <1>1, <1>5, <1>7, <1>8 DEF Put, Running
    <3>2. job' = [job EXCEPT ![id].stored = k, ![id].step = step]
      BY <1>1, <1>8 DEF Put
    <3> HIDE DEF step, k
    <3> QED
      BY <1>1, <3>1, <3>2, JobFields
  <2>2. objects' \subseteq Ids \X (1..Parts)
    BY <1>1, <1>7, <1>8 DEF Put, Base, TypeOK
  <2> QED
    BY <1>1, <1>8, <2>1, <2>2 DEF Put, TypeOK, client, history
<1>9. CASE Reject(id)
  <2>1. job' \in [Ids -> Job]
    BY <1>2, <1>5, <1>9 DEF Reject, Goto
  <2> QED
    BY <1>1, <1>4, <1>9, <2>1 DEF Reject, TypeOK, client, server, history
<1>10. CASE PutFails(id)
  <2>1. job' \in [Ids -> Job]
    BY <1>2, <1>5, <1>10 DEF PutFails, Goto, Running
  <2>2. objects' \subseteq Ids \X (1..Parts) /\ leaked' \subseteq Ids
    <3>1. <<id, job[id].stored + 1>> \in Ids \X (1..Parts)
      BY <1>7, <1>10 DEF PutFails
    <3>2. \/ UNCHANGED <<objects, leaked>>
          \/ /\ objects' = objects \cup {<<id, job[id].stored + 1>>}
             /\ leaked' = leaked \cup {id}
      BY <1>10 DEF PutFails, Base
    <3> QED
      BY <1>1, <3>1, <3>2 DEF TypeOK
  <2> QED
    BY <1>1, <1>4, <1>10, <2>1, <2>2 DEF PutFails, TypeOK, client
<1>11. NewRow(id) \in Row
  BY <1>1 DEF NewRow, Row, Job
<1>12. CASE Insert(id)
  <2>1. job' \in [Ids -> Job]
    <3>1. CASE SameKey(id) # {}
      <4>1. PICK r \in SameKey(id) : job' = [job EXCEPT ![id].step = "drop", ![id].id = r]
        BY <1>12, <3>1 DEF Insert, Loser
      <4>2. "drop" \in Steps
        BY DEF Steps, Running
      <4> QED
        BY <1>3, <1>5, <4>1, <4>2
    <3>2. CASE SameKey(id) = {}
      <4>1. job' = [job EXCEPT ![id].step = "answer", ![id].id = id]
        BY <1>12, <3>2 DEF Insert
      <4>2. "answer" \in Steps
        BY DEF Steps
      <4> QED
        BY <1>3, <4>1, <4>2
    <3> QED
      BY <3>1, <3>2
  <2>2. rows' \in [Ids -> Row]
    BY <1>1, <1>11, <1>12 DEF Insert, TypeOK
  <2> QED
    BY <1>1, <1>12, <2>1, <2>2 DEF Insert, TypeOK, client, history
<1>13. CASE InsertFails(id)
  <2>1. job' \in [Ids -> Job]
    BY <1>2, <1>5, <1>13 DEF InsertFails, Goto, Running
  <2>2. rows' \in [Ids -> Row] /\ torn' \subseteq Ids
    <3>1. \/ UNCHANGED <<rows, torn>>
          \/ rows' = [rows EXCEPT ![id] = NewRow(id)] /\ torn' = torn \cup {id}
      BY <1>13 DEF InsertFails
    <3>2. rows \in [Ids -> Row] /\ torn \subseteq Ids
      BY <1>1 DEF TypeOK
    <3>3. CASE UNCHANGED <<rows, torn>>
      BY <3>2, <3>3
    <3>4. CASE rows' = [rows EXCEPT ![id] = NewRow(id)] /\ torn' = torn \cup {id}
      BY <1>11, <3>2, <3>4
    <3> QED
      BY <3>1, <3>3, <3>4
  <2> QED
    BY <1>1, <1>4, <1>13, <2>1, <2>2 DEF InsertFails, TypeOK, client
<1>14. CASE Delete(id)
  <2>1. job' \in [Ids -> Job]
    BY <1>2, <1>5, <1>14 DEF Delete, Goto
  <2>2. objects' \subseteq objects /\ leaked' \subseteq Ids /\ faults' \in 0..MaxFaults
    BY <1>1, <1>4, <1>14 DEF Delete, TypeOK
  <2> QED
    BY <1>1, <1>14, <2>1, <2>2 DEF Delete, TypeOK, client
<1>15. CASE Die(id)
  <2>1. job' \in [Ids -> Job]
    BY <1>2, <1>5, <1>15 DEF Die, Goto
  <2>2. leaked' \subseteq Ids
    BY <1>1, <1>15 DEF Die, TypeOK
  <2> QED
    BY <1>1, <1>4, <1>15, <2>1, <2>2 DEF Die, TypeOK, client, server
<1>16. Done(id) => job' \in [Ids -> Job]
  <2>1. [job EXCEPT ![id].step = "done", ![id].waits = "no"] \in [Ids -> Job]
    <3>1. "done" \in Steps
      BY DEF Steps
    <3> QED
      BY <1>1, <3>1, JobFields
  <2> QED
    BY <2>1 DEF Done
<1>17. CASE Answer(id)
  <2>1. CASE job[id].waits = "no"
    BY <1>1, <1>16, <1>17, <2>1 DEF Answer, TypeOK, server, history
  <2>2. CASE job[id].waits = "yes"
    <3>1. /\ job[id].save \in Saves /\ job[id].field \in Fields /\ job[id].id \in Ids
          /\ job[id].source \in Files /\ job[id].key \in Ids
      BY <1>1, <1>17, <2>2 DEF Answer, IInv, UploadsAreWanted, AnswersAreRight,
         KeysNameFiles, IsOf, Started
    <3>2. cache' \in [Fields -> Entry]
      <4>1. [source |-> job[id].source, key |-> job[id].key, id |-> job[id].id] \in Entry
        BY <3>1 DEF Entry
      <4> QED
        BY <1>1, <1>17, <2>2, <3>1, <4>1 DEF Answer, TypeOK
    <3>3. save' \in [Saves -> Save]
      <4>1. save' = [save EXCEPT ![job[id].save].ready[job[id].field] = job[id].id]
        BY <1>17, <2>2 DEF Answer
      <4>2. save \in [Saves -> Save]
        BY <1>1 DEF TypeOK
      <4> QED
        BY <3>1, <4>1, <4>2, SaveFields
    <3> QED
      BY <1>1, <1>16, <1>17, <3>2, <3>3 DEF Answer, TypeOK, server, history
  <2> QED
    BY <1>1, <2>1, <2>2 DEF Job
<1>18. CASE Refused(id)
  <2>1. save' \in [Saves -> Save]
    BY <1>1, <1>18, FailsTypes DEF Refused, TypeOK
  <2> QED
    BY <1>1, <1>16, <1>18, <2>1 DEF Refused, TypeOK, client, server, history
<1>19. CASE Disconnect(id)
  <2>1. save' \in [Saves -> Save]
    BY <1>19, FailsTypes DEF Disconnect
  <2>2. job' \in [Ids -> Job]
    BY <1>1, <1>19 DEF Disconnect, Job
  <2> QED
    BY <1>1, <1>4, <1>19, <2>1, <2>2 DEF Disconnect, TypeOK, client, server, history
<1> QED
  BY <1>6, <1>8, <1>9, <1>10, <1>12, <1>13, <1>14, <1>15, <1>17, <1>18, <1>19 DEF Request

\* Every step keeps the types.
LEMMA TypesStay == ASSUME IInv, [Next]_vars PROVE TypeOK'
<1>1. TypeOK
  BY DEF IInv
<1>2. ASSUME NEW id \in Ids, Expire(id) PROVE TypeOK'
  BY <1>1, <1>2 DEF Expire, TypeOK, Row, client, history
<1>3. CASE SweepRows
  BY <1>1, <1>3 DEF SweepRows, TypeOK, Row, NoRow, client, history
<1>4. CASE UNCHANGED vars
  BY <1>1, <1>4 DEF vars, client, server, history, TypeOK
<1>5. CASE SweepSelect \/ SweepObject \/ SweepFails
  BY <1>5, FormTypes
<1>6. CASE Edits
  BY <1>6, FormTypes
<1> QED
  BY <1>2, <1>3, <1>4, <1>5, <1>6, SaveTypes, RequestTypes DEF Next, Edits

-----------------------------------------------------------------------------
(* What is complete, and what is removed.                                  *)

\* A row that is there, or that a commit finds, was so before or is just inserted,
\* and only the removal takes one.
LEMMA RowsGoOn ==
    ASSUME IInv, [Next]_vars, NEW id \in Ids
    PROVE  /\ Present(id)' => Present(id) \/ Inserted(id)
           /\ Usable(id)' => Usable(id) \/ Inserted(id)
           /\ Present(id) => Present(id)' \/ (SweepRows /\ id \in sweep.saw)
<1>1. rows[id] \in Row
  BY DEF IInv, TypeOK
<1>2. CASE rows'[id] = rows[id]
  BY <1>2 DEF Present, Usable
<1>3. CASE Inserted(id)
  BY <1>3 DEF Inserted, Present, NewRow
<1>4. CASE rows[id].status = "staged" /\ rows'[id] = [rows[id] EXCEPT !.status = "committed"]
  BY <1>1, <1>4 DEF Row, Usable, Present
<1>5. CASE Expire(id) /\ rows'[id] = [rows[id] EXCEPT !.expired = TRUE]
  BY <1>1, <1>5 DEF Row, Usable, Present
<1>6. CASE SweepRows /\ id \in sweep.saw /\ rows'[id] = NoRow
  BY <1>6 DEF NoRow, Usable, Present
<1> QED
  BY <1>2, <1>3, <1>4, <1>5, <1>6, AllRowsMove DEF RowMoves

\* What can be committed, or is shown, stays complete.
LEMMA CompleteStays == ASSUME IInv, [Next]_vars PROVE UsableMediaIsComplete'
<1> SUFFICES ASSUME NEW id \in Ids, Usable(id)' \/ (Shown(id)' /\ id \notin unmarked'),
                    id \notin torn'
             PROVE  Stored(id)' = 1..Parts
  BY DEF UsableMediaIsComplete
<1>1. rows \in [Ids -> Row] /\ rows[id] \in Row /\ Parts \in Nat
  BY NumberAssumption DEF IInv, TypeOK
<1>2. torn \subseteq torn'
  BY AnsweredStays
<1>3. Usable(id) \/ (Shown(id) /\ id \notin unmarked) \/ Inserted(id)
  <2>1. ASSUME Shown(id)', ~Shown(id) PROVE Usable(id)
    BY <2>1, ShownMoves DEF Commit
  <2>2. ASSUME id \notin unmarked', id \in unmarked PROVE Usable(id)
    BY <2>2, UnmarkedMoves
  <2>3. ASSUME Usable(id)', ~Inserted(id) PROVE Usable(id)
    BY <2>3, RowsGoOn
  <2> QED
    BY <2>1, <2>2, <2>3
<1>4. CASE Inserted(id)
  <2>1. Stored(id) = 1..Parts
    BY <1>4 DEF Inserted, IInv, ObjectsAreStored, StoredSoFar
  <2> QED
    BY <1>4, <2>1 DEF Inserted, Stored
<1>5. CASE Usable(id) \/ (Shown(id) /\ id \notin unmarked)
  <2>1. Stored(id) = 1..Parts
    BY <1>2, <1>5 DEF IInv, UsableMediaIsComplete
  <2>2. job[id].step \in {"answer", "fail", "done"}
    BY <1>2, <1>5 DEF IInv, RowsAreAnswered, Usable, Present
  <2>3. ~Put(id) /\ ~PutFails(id) /\ ~Delete(id)
    BY <2>2 DEF Put, PutFails, Delete
  <2>4. ASSUME id \in sweep.saw, rows[id].status # "committed" PROVE FALSE
    <3>1. Present(id) /\ rows[id].expired /\ Sweeping
      BY <2>4 DEF IInv, SweepIsSafe, Sweeping
    <3>2. Shown(id) /\ id \notin unmarked
      BY <1>5, <3>1 DEF Usable
    <3>3. ~BeingMarked(id)
      BY <3>1 DEF IInv, CommitsAreShown, BeingMarked
    <3> QED
      BY <2>4, <3>1, <3>2, <3>3 DEF IInv, RowsAreAnswered
  <2> QED
    BY <2>1, <2>3, <2>4, AllObjectsMove DEF ObjectMoves
<1> QED
  BY <1>3, <1>4, <1>5

\* The removal goes on deleting what it saw, and nothing else.
LEMMA SweepMoves ==
    ASSUME IInv, [Next]_vars
    PROVE  \/ sweep' = sweep /\ ~SweepRows
           \/ SweepSelect
           \/ \E o \in sweep.left : /\ SweepObject /\ objects' = objects \ {o}
                                    /\ sweep'.saw = sweep.saw
                                    /\ sweep'.left = sweep.left \ {o}
           \/ sweep' = [saw |-> {}, left |-> {}]
<1>1. sweep \in [saw : SUBSET Ids, left : SUBSET (Ids \X (1..Parts))]
  BY DEF IInv, TypeOK
<1>2. CASE SweepObject
  BY <1>1, <1>2 DEF SweepObject
<1>3. ASSUME NEW i \in Ids, Request(i) PROVE UNCHANGED sweep
  BY <1>3 DEF Request, Find, Put, Reject, PutFails, Insert, InsertFails, Delete, Die,
     Answer, Refused, Disconnect
<1>4. ASSUME NEW n \in Saves, NEW f \in Fields,
             UseCached(n, f) \/ \E i \in Ids : Upload(n, f, i)
      PROVE  UNCHANGED sweep
  BY <1>4 DEF UseCached, Upload
<1>5. Edits => UNCHANGED sweep
  BY EditsKeep DEF FormOnly
<1>6. ASSUME NEW n \in Saves, Submit(n) \/ Finishes(n) PROVE UNCHANGED sweep
  BY <1>6 DEF Finishes, Submit, Send, HangUp, Commit, CommitRefused, Mark, MarkFails,
     Replay, GiveUp
<1>7. SweepRows => sweep' = [saw |-> {}, left |-> {}]
  BY DEF SweepRows
<1>8. UNCHANGED sweep \/ SweepSelect \/ SweepObject \/ sweep' = [saw |-> {}, left |-> {}]
  BY <1>3, <1>4, <1>5, <1>6 DEF Next, Edits, vars, Expire, SweepRows, SweepFails
<1> QED
  BY <1>2, <1>7, <1>8

\* What the removal saw stays what nothing can come to use.
LEMMA SweepStays == ASSUME IInv, [Next]_vars PROVE SweepIsSafe'
<1>1. sweep \in [saw : SUBSET Ids, left : SUBSET (Ids \X (1..Parts))]
  BY DEF IInv, TypeOK
<1>2. CASE sweep' = [saw |-> {}, left |-> {}]
  BY <1>2 DEF SweepIsSafe
<1>3. CASE SweepSelect
  <2>1. /\ sweep'.saw = {id \in Ids : Present(id) /\ rows[id].expired}
        /\ sweep'.left = {id \in sweep'.saw : rows[id].status # "committed"} \X (1..Parts)
        /\ UNCHANGED <<rows, objects, job>>
    BY <1>3 DEF SweepSelect, server
  <2>2. ASSUME NEW id \in sweep'.saw
        PROVE  /\ Present(id)' /\ rows'[id].expired /\ job'[id].step \notin Running
               /\ rows'[id].status # "committed" =>
                    \A p \in Stored(id)' : <<id, p>> \in sweep'.left
    BY <2>1, <2>2 DEF Present, Stored, IInv, RowsAreAnswered
  <2>3. ASSUME NEW o \in sweep'.left
        PROVE  o[1] \in sweep'.saw /\ rows'[o[1]].status # "committed"
    BY <2>1, <2>3
  <2> QED
    BY <2>2, <2>3 DEF SweepIsSafe
<1>4. ASSUME sweep'.saw = sweep.saw, sweep'.left \subseteq sweep.left, ~SweepRows,
             \A o \in sweep.left \ sweep'.left : o \notin objects'
      PROVE  SweepIsSafe'
  <2>1. ASSUME NEW id \in sweep.saw
        PROVE  /\ id \in Ids /\ Present(id) /\ rows[id].expired
               /\ job[id].step \in {"answer", "fail", "done"}
    <3>1. id \in Ids
      BY <1>1, <2>1
    <3>2. Present(id) /\ rows[id].expired /\ job[id].step \notin Running
      BY <2>1 DEF IInv, SweepIsSafe
    <3> QED
      BY <3>1, <3>2 DEF IInv, RowsAreAnswered, Running
  <2>2. ASSUME NEW id \in sweep.saw PROVE rows'[id] = rows[id]
    <3>1. \A n \in Saves : ~Mark(n) /\ ~Replay(n)
      BY <2>2 DEF IInv, CommitsAreShown, Sweeping, Mark, Replay, Free
    <3> QED
      BY <1>4, <2>1, <2>2, <3>1, AllRowsMove DEF RowMoves, Inserted, Expire
  <2>3. ASSUME NEW id \in sweep.saw PROVE job'[id].step \notin Running
    BY <2>1, AnsweredStays DEF Running
  <2>4. ASSUME NEW id \in sweep.saw PROVE Stored(id)' \subseteq Stored(id)
    BY <2>1, AllObjectsMove DEF ObjectMoves, Put, PutFails, Delete
  <2>5. ASSUME NEW id \in sweep.saw, rows[id].status # "committed", NEW p \in Stored(id)'
        PROVE  <<id, p>> \in sweep'.left
    <3>1. <<id, p>> \in sweep.left
      BY <2>4, <2>5 DEF IInv, SweepIsSafe
    <3>2. <<id, p>> \in objects'
      BY <2>5 DEF Stored
    <3> QED
      BY <1>4, <3>1, <3>2
  <2>6. ASSUME NEW o \in sweep'.left
        PROVE  o[1] \in sweep'.saw /\ rows'[o[1]].status # "committed"
    <3>1. o[1] \in sweep.saw /\ rows[o[1]].status # "committed"
      BY <1>4, <2>6 DEF IInv, SweepIsSafe
    <3> QED
      BY <1>4, <2>2, <3>1
  <2> QED
    BY <1>4, <2>1, <2>2, <2>3, <2>5, <2>6 DEF SweepIsSafe, Present
<1>5. CASE sweep' = sweep /\ ~SweepRows
  BY <1>4, <1>5
<1>6. ASSUME NEW o \in sweep.left, SweepObject, objects' = objects \ {o},
             sweep'.saw = sweep.saw, sweep'.left = sweep.left \ {o}
      PROVE  SweepIsSafe'
  <2>1. ~SweepRows
    BY <1>6 DEF SweepRows, Swept
  <2> QED
    BY <1>4, <1>6, <2>1
<1> QED
  BY <1>2, <1>3, <1>5, <1>6, SweepMoves

\* What a commit was sent with stays shown, and its marks under the lock.
LEMMA CommitsStay == ASSUME IInv, [Next]_vars PROVE CommitsAreShown'
<1>1. ASSUME NEW n \in Saves, save'[n].state \in {"marking", "resent"},
             NEW id \in SentIds(n)'
      PROVE  Shown(id)'
  <2>1. Keeps(n) /\ SaveStep(n)
    BY <1>1, SaveGoesOn
  <2>2. id \in SentIds(n)
    BY <1>1, <2>1 DEF Keeps, SentIds
  <2>3. id \in Ids
    BY <2>2 DEF IInv, TypeOK, Save, SentIds
  <2>4. CASE Commit(n)
    BY <2>2, <2>4, CommitShows
  <2>5. CASE save[n].state \in {"marking", "resent"}
    BY <2>2, <2>3, <2>5, ShownMoves DEF IInv, CommitsAreShown
  <2> QED
    BY <1>1, <2>1, <2>4, <2>5 DEF SaveStep, MarkFails
<1>2. ASSUME Sweeping', NEW n \in Saves, save'[n].state = "marking" PROVE FALSE
  <2>1. save[n].state = "marking" \/ Commit(n)
    BY <1>2, SaveGoesOn DEF SaveStep
  <2>2. ~Sweeping
    BY <2>1 DEF IInv, CommitsAreShown, Commit, Free
  <2>3. SweepSelect
    <3>1. sweep'.saw # {} /\ sweep.saw = {}
      BY <1>2, <2>2 DEF Sweeping
    <3> QED
      BY <3>1, SweepMoves
  <2> QED
    BY <2>1, <2>3 DEF SweepSelect, Free, Commit, server, Sweeping
<1> QED
  BY <1>1, <1>2 DEF CommitsAreShown

\* How the form comes to be of a card, or of none.
LEMMA CardMoves ==
    ASSUME [Next]_vars
    PROVE  card' = card \/ card' = None \/ \E c \in Cards \cup {NewCard} : Open(c)
<1>1. ASSUME NEW i \in Ids, Request(i) PROVE UNCHANGED card
  BY <1>1 DEF Request, client, Find, Put, Reject, PutFails, Insert, InsertFails,
     Delete, Die, Answer, Refused, Disconnect
<1>2. ASSUME NEW n \in Saves, NEW f \in Fields,
             UseCached(n, f) \/ \E i \in Ids : Upload(n, f, i)
      PROVE  UNCHANGED card
  BY <1>2 DEF client, UseCached, Upload
<1>3. ASSUME NEW f \in Fields, Choose(f) \/ Clear(f) \/ \E s \in Files : Prepared(f, s)
      PROVE  UNCHANGED card
  BY <1>3 DEF Choose, Clear, Prepared
<1>4. ASSUME NEW n \in Saves, Submit(n) \/ Finishes(n) PROVE UNCHANGED card \/ card' = None
  BY <1>4, SavesKeep
<1> QED
  BY <1>1, <1>2, <1>3, <1>4 DEF Next, vars, client, Close, Expire, SweepSelect,
     SweepObject, SweepRows, SweepFails

\* Saves go on to be sent for the card they were begun on, or one opened since.
LEMMA TargetsStay == ASSUME IInv, [Next]_vars PROVE TargetsAreOpened'
<1>1. opened \subseteq opened'
  BY UsesCome
<1>2. ASSUME NEW n \in Saves PROVE MayTarget(n, save[n].target)'
  <2>1. /\ MayTarget(n, save[n].target)
        /\ save[n].state = "staging" => MayTarget(n, card)
    BY DEF IInv, TargetsAreOpened, MayTarget
  <2> QED
    BY <1>1, <2>1, SaveGoesOn DEF MayTarget, Keeps
<1>3. ASSUME NEW n \in Saves, save'[n].state = "staging" PROVE MayTarget(n, card)'
  <2>1. CASE Submit(n) /\ save'[n].card = card
    BY <2>1 DEF Submit, client, MayTarget
  <2>2. CASE Keeps(n) /\ SaveStep(n)
    <3>1. save[n].state = "staging" /\ save'[n].card = save[n].card
      BY <1>3, <2>2 DEF Keeps, SaveStep
    <3>2. MayTarget(n, card)
      BY <3>1 DEF IInv, TargetsAreOpened, MayTarget
    <3>3. ASSUME NEW c \in Cards \cup {NewCard}, Open(c) PROVE MayTarget(n, card)'
      BY <3>1, <3>3 DEF Open, MayTarget
    <3> QED
      BY <1>1, <3>1, <3>2, <3>3, CardMoves DEF MayTarget
  <2> QED
    BY <1>3, <2>1, <2>2, SaveGoesOn
<1>4. ASSUME NEW use \in shown'
      PROVE  /\ use[3] \in Saves /\ save'[use[3]].target # None
             /\ save'[use[3]].state \notin {"new", "staging", "sent"}
  <2>1. CASE use \in shown
    <3>1. /\ use[3] \in Saves /\ save[use[3]].target # None
          /\ save[use[3]].state \notin {"new", "staging", "sent"}
      BY <2>1 DEF IInv, TargetsAreOpened
    <3>2. Keeps(use[3]) /\ SaveStep(use[3])
      BY <3>1, SaveGoesOn
    <3> QED
      BY <3>1, <3>2 DEF Keeps, SaveStep
  <2>2. ASSUME NEW n \in Saves, Commit(n), use \notin shown
        PROVE  /\ use[3] = n /\ save'[n].target # None
               /\ save'[n].state = "marking"
    <3>1. use[3] = n /\ save[n].target # None
      BY <2>2 DEF Commit
    <3>2. save'[n] = [save[n] EXCEPT !.state = "marking"]
      BY <2>2 DEF Commit, Becomes, IInv, TypeOK
    <3>3. save[n] \in Save
      BY DEF IInv, TypeOK
    <3> QED
      BY <3>1, <3>2, <3>3 DEF Save
  <2> QED
    BY <2>1, <2>2, UsesCome
<1> QED
  BY <1>2, <1>3, <1>4 DEF TargetsAreOpened

\* No object is left that nothing will remove.
LEMMA OrphansStay == ASSUME IInv, [Next]_vars PROVE NothingIsOrphaned'
<1> DEFINE Kept(id) == \/ job[id].step \in Running \/ Present(id)
                       \/ Shown(id) \/ id \in leaked
<1>1. /\ job \in [Ids -> Job] /\ rows \in [Ids -> Row]
      /\ objects \subseteq Ids \X (1..Parts) /\ Parts \in Nat \ {0}
  BY NumberAssumption DEF IInv, TypeOK
<1>2. ASSUME NEW id \in Ids, Stored(id) # {} PROVE Kept(id)
  BY <1>2 DEF IInv, NothingIsOrphaned, Stored
<1>3. ASSUME NEW id \in Ids, Stored(id)' # {}, job[id].step \notin Running,
             job'[id].step \notin Running
      PROVE  Kept(id)'
  <2>1. Stored(id)' \subseteq Stored(id)
    BY <1>3, AllObjectsMove DEF ObjectMoves, Put, PutFails, Delete, Running
  <2>2. Present(id) \/ Shown(id) \/ id \in leaked
    BY <1>2, <1>3, <2>1
  <2>3. CASE Shown(id) \/ id \in leaked
    BY <2>3, ShownMoves, LeakedStays
  <2>4. ASSUME Present(id), ~Present(id)', ~Shown(id) PROVE FALSE
    <3>1. SweepRows /\ id \in sweep.saw
      BY <2>4, RowsGoOn
    <3>2. rows[id].status # "committed"
      BY <2>4 DEF IInv, RowsAreAnswered
    <3>3. Stored(id) = {}
      BY <3>1, <3>2 DEF IInv, SweepIsSafe, SweepRows, Swept
    <3> QED
      BY <1>3, <2>1, <3>3
  <2> QED
    BY <2>2, <2>3, <2>4
<1>4. ASSUME NEW id \in Ids, Stored(id)' # {}, job[id].step \in Running,
             job'[id].step \notin Running
      PROVE  Kept(id)'
  <2>0. job[id] \in Job /\ job[id].stored \in Nat /\ StoredSoFar(id) /\ 1..0 = {}
    BY <1>1 DEF Job, IInv, ObjectsAreStored
  <2>1. CASE Find(id) \/ Reject(id)
    <3>1. Stored(id) = {}
      BY <2>0, <2>1 DEF Find, Reject, StoredSoFar
    <3>2. Stored(id)' = Stored(id)
      BY <2>1 DEF Find, Reject, server, Stored
    <3> QED
      BY <1>4, <3>1, <3>2
  <2>2. CASE Insert(id)
    <3>1. CASE SameKey(id) # {}
      <4>1. job'[id].step = "drop"
        BY <1>1, <2>0, <2>2, <3>1 DEF Insert, Loser, Job
      <4> QED
        BY <1>4, <4>1 DEF Running
    <3>2. CASE SameKey(id) = {}
      <4>1. rows'[id] = NewRow(id)
        BY <1>1, <2>2, <3>2 DEF Insert
      <4> QED
        BY <4>1 DEF NewRow, Present
    <3> QED
      BY <3>1, <3>2
  <2>3. CASE Delete(id)
    <3>1. CASE id \in leaked'
      BY <3>1
    <3>2. CASE id \notin leaked'
      <4>1. objects' = objects \ OwnObjects(id)
        BY <2>3, <3>2 DEF Delete
      <4>2. Stored(id) \subseteq 1..job[id].stored
        BY <2>0, <2>3, <3>2, LeakedStays DEF StoredSoFar, Delete
      <4>3. ASSUME NEW p \in Stored(id)' PROVE FALSE
        <5>1. p \in Stored(id) /\ <<id, p>> \in objects' /\ <<id, p>> \notin OwnObjects(id)
          BY <4>1, <4>3 DEF Stored
        <5> QED
          BY <4>2, <5>1 DEF OwnObjects, Base
      <4> QED
        BY <1>4, <4>3
    <3> QED
      BY <3>1, <3>2
  <2>4. CASE Die(id)
    <3>1. CASE job[id].stored > 0
      BY <2>4, <3>1 DEF Die
    <3>2. CASE job[id].stored = 0
      <4>1. Stored(id) = {} \/ id \in leaked
        BY <1>1, <1>4, <2>0, <3>2 DEF StoredSoFar, Running
      <4>2. Stored(id)' = Stored(id)
        BY <2>4 DEF Die, server, Stored
      <4> QED
        BY <1>4, <4>1, <4>2, LeakedStays
    <3> QED
      BY <2>0, <3>1, <3>2
  <2>5. ASSUME Put(id) \/ PutFails(id) \/ InsertFails(id) \/ Disconnect(id) PROVE FALSE
    <3>1. job'[id].step \in {"put", "insert", "clean"} \/ job'[id].step = job[id].step
      <4>1. CASE Put(id)
        BY <1>1, <2>0, <4>1 DEF Put, Job
      <4>2. CASE PutFails(id) \/ InsertFails(id)
        BY <1>1, <2>0, <4>2 DEF PutFails, InsertFails, Goto, Job
      <4>3. CASE Disconnect(id)
        BY <1>1, <2>0, <4>3 DEF Disconnect, Job
      <4> QED
        BY <2>5, <4>1, <4>2, <4>3
    <3> QED
      BY <1>4, <3>1 DEF Running
  <2>6. ASSUME Answer(id) \/ Refused(id) PROVE FALSE
    BY <1>4, <2>6 DEF Answer, Refused, Running
  <2>7. ASSUME NEW n \in Saves, NEW f \in Fields, Upload(n, f, id) PROVE FALSE
    BY <1>4, <2>7 DEF Upload, Running
  <2> QED
    BY <1>4, <2>1, <2>2, <2>3, <2>4, <2>5, <2>6, <2>7, JobMoves DEF Serves
<1>5. objects' \subseteq Ids \X (1..Parts)
  BY TypesStay DEF TypeOK
<1>6. ASSUME NEW o \in objects' PROVE Kept(o[1])'
  <2>1. o[1] \in Ids /\ o[2] \in Stored(o[1])'
    BY <1>5, <1>6 DEF Stored
  <2> QED
    BY <1>3, <1>4, <2>1
<1> QED
  BY <1>6 DEF NothingIsOrphaned

-----------------------------------------------------------------------------
(* The theorems.                                                           *)

\* It holds at first.
LEMMA InitEstablishesIInv == Init => IInv
<1> SUFFICES ASSUME Init PROVE IInv
  OBVIOUS
<1>1. /\ 1..0 = {} /\ Parts \in Nat /\ MaxFiles \in Nat /\ MaxFaults \in Nat
      /\ MaxEdits \in Nat
  BY NumberAssumption
<1>2. \A id \in Ids : job[id] = NewJob /\ rows[id] = NoRow /\ Stored(id) = {}
  BY DEF Init, Stored
<1>3. \A n \in Saves : save[n] = NewSave
  BY DEF Init
<1>4. TypeOK
  <2>1. NewSave \in Save /\ NewJob \in Job /\ NoRow \in Row /\ NoEntry \in Entry
    BY NumberAssumption DEF NewSave, Save, SaveStates, Targets, NewJob, Job, Steps, NoRow, Row, Entry
  <2> QED
    BY <1>1, <2>1, NumberAssumption DEF TypeOK, Init, Targets
<1>5. UploadsAreWanted /\ KeysNameFiles
  BY <1>2 DEF UploadsAreWanted, KeysNameFiles, Started, NewJob, Init
<1>6. AnswersAreRight
  BY <1>2, <1>3 DEF AnswersAreRight, NewJob, NewSave, NoEntry, Init
<1>7. WorkersSuffice
  <2>1. ASSUME NEW n \in Saves PROVE Uploading(n) = {} /\ save[n].workers = 0
    <3>1. \A id \in Ids : job[id].waits = "no"
      <4>1. NewJob.waits = "no"
        BY DEF NewJob
      <4> QED
        BY <1>2, <4>1
    <3>2. save[n].workers = 0
      BY <1>3 DEF NewSave
    <3> QED
      BY <3>1, <3>2 DEF Uploading
  <2> QED
    <3>1. ASSUME NEW n \in Saves
          PROVE  IsFiniteSet(Uploading(n)) /\ Cardinality(Uploading(n)) <= save[n].workers
      <4>1. IsFiniteSet({}) /\ Cardinality({}) = 0
        BY FS_EmptySet
      <4>2. Uploading(n) = {} /\ save[n].workers = 0 /\ 0 <= 0
        BY <2>1
      <4> QED
        BY <4>1, <4>2
    <3> QED
      BY <3>1 DEF WorkersSuffice
<1>8. RowsAreAnswered
  BY <1>2 DEF RowsAreAnswered, Present, Shown, NoRow, NewJob, Init
<1>9. ObjectsAreStored /\ SweepIsSafe
  BY <1>2 DEF ObjectsAreStored, StoredSoFar, NewJob, SweepIsSafe, Init
<1>10. UsableMediaIsComplete /\ NothingIsOrphaned
  BY <1>2 DEF UsableMediaIsComplete, NothingIsOrphaned, Usable, Shown, NoRow, Init
<1>11. CommitsAreShown /\ TargetsAreOpened
  BY <1>3 DEF CommitsAreShown, TargetsAreOpened, MayTarget, Sweeping, NewSave, Init
<1> QED
  BY <1>4, <1>5, <1>6, <1>7, <1>8, <1>9, <1>10, <1>11 DEF IInv

\* Every step keeps it.
LEMMA StepKeepsIInv == IInv /\ [Next]_vars => IInv'
  BY TypesStay, WantedStay, KeysStay, AnswersStay, WorkersStay, RowsStay, ObjectsStay,
     SweepStays, CommitsStay, TargetsStay, CompleteStays, OrphansStay DEF IInv

\* In every reachable state the invariant holds.
THEOREM InvariantHolds == Spec => []IInv
  BY InitEstablishesIInv, StepKeepsIInv, PTL DEF Spec

\* Every variable of the form, the uploads and the rows has its type; a save has
\* never fewer workers than none.
THEOREM TypesHold == Spec => []TypeOK
<1>1. IInv => TypeOK
  BY DEF IInv
<1> QED
  BY <1>1, InvariantHolds, PTL

\* Media that a commit would accept, or a card shows, has all its objects, however
\* many uploads share a key, whatever the removal does meanwhile, and although rows
\* are marked after the card shows their media; when the mark is lost, until the
\* row expires.
THEOREM UsableIsComplete == Spec => []UsableMediaIsComplete
<1>1. IInv => UsableMediaIsComplete
  BY DEF IInv
<1> QED
  BY <1>1, InvariantHolds, PTL

\* A card shows the files that the form held when Save was pressed, and it is the
\* card that the form was of then, or one opened in it before all was staged.
THEOREM SavedIsShown == Spec => []CardsShowWhatWasSaved
<1>1. IInv => CardsShowWhatWasSaved
  <2> SUFFICES ASSUME IInv, NEW use \in shown
               PROVE  /\ job[use[1]].source = use[2]
                      /\ LET s == save[use[3]]
                         IN  s.target = s.card \/ <<use[3], s.target>> \in opened
    BY DEF CardsShowWhatWasSaved
  <2>1. job[use[1]].source = use[2]
    BY DEF IInv, AnswersAreRight, IsOf
  <2>2. use[3] \in Saves /\ save[use[3]].target # None
    BY DEF IInv, TargetsAreOpened
  <2>3. MayTarget(use[3], save[use[3]].target)
    BY <2>2 DEF IInv, TargetsAreOpened, MayTarget
  <2> QED
    BY <2>1, <2>2, <2>3 DEF MayTarget
<1> QED
  BY <1>1, InvariantHolds, PTL

\* No object is left that no request, row, card or known failure accounts for.
THEOREM NothingOrphaned == Spec => []NothingIsOrphaned
<1>1. IInv => NothingIsOrphaned
  BY DEF IInv
<1> QED
  BY <1>1, InvariantHolds, PTL
================================================================================
