--------------------------- MODULE CardCommitProofs ---------------------------
(***************************************************************************)
(* What holds of card commits for any number of editors, cards, uploads,   *)
(* tries and isolates, beside the older routes.                            *)
(*                                                                         *)
(* The inductive invariant rests on the lock: only its holder is inside a  *)
(* request, so what the request has validated still holds when it writes.  *)
(* Of every state that was ever stored it says how far each card has come  *)
(* since: further by each commit, and never back unless an older route     *)
(* took it there. What an editor has seen is one of those states, or one   *)
(* that was never stored.                                                  *)
(***************************************************************************)
EXTENDS CardCommit, WellFoundedInduction, TLAPS

Working(c) == pc[c] \notin {"closed", "waiting"}

\* Only the holder of the lock is inside a request, on its first try or a later.
HolderWorks ==
    \A c \in Commits :
        /\ Working(c) <=> holder = c
        /\ Working(c) => tries[c] >= 1 /\ answer[c] # "ok"
        /\ pc[c] = "closed" => tries[c] = 0
        /\ tries[c] = 0 => applied[c] = 0 /\ answer[c] = "none"

\* Where a request stands tells whether a state with its commit was stored.
WrittenByNow ==
    \A c \in Commits :
        /\ pc[c] \in {"list", "audit", "mark", "relist", "reaudit", "remark"} =>
             WasStored(c)
        /\ pc[c] \in {"relist", "reaudit", "remark"} => tries[c] >= 2
        /\ pc[c] \in {"mark", "remark"} => c \in audited

\* A request of the commit has come as far as the put.
Tried(c) == tries[c] >= 1 /\ (pc[c] \in {"admit", "unlist", "put"} => tries[c] >= 2)

\* A card that names a commit was put by it, though perhaps not stored.
HeldWereTried ==
    \A list \in Held : \A id \in Ids : \A c \in Commits :
        list[id] # NoCard /\ list[id].commit = c => Tried(c)

\* What is staged has its objects until it expires; what the holder has validated
\* stays staged. What a clean save marked is committed, or its row was removed.
StagedHasObjects ==
    /\ \A u \in Uploads : staging[u] = "staged" /\ u \notin expired => u \in objects
    /\ \A c \in Commits :
         /\ intent[c].staged => intent[c].media \in Uploads
         /\ pc[c] \in {"unlist", "put", "list", "audit", "mark"} =>
              \A m \in StagedMedia(c) : staging[m] = "staged" /\ m \in objects
         /\ answer[c] = "ok" /\ tries[c] = 1 =>
              \A m \in StagedMedia(c) :
                 /\ m \in objects
                 /\ staging[m] = "committed" \/ (staging[m] = "absent" /\ m \in expired)

\* The plan of a commit is the difference that its put makes.
PlanFollowsCards ==
    \A c \in Commits :
        /\ pc[c] = "put" => Target(c) \in Ids /\ plan = RegistryDelta(c)
        /\ pc[c] = "list" => plan.added \subseteq Referenced(cards)
        /\ pc[c] \in {"unlist", "put"} => ~Missing(c)
        /\ pc[c] = "relist" => ReplayTargets(c) # {}

\* An older route at work is one of those counted, and one that is in use.
RoutesAreCounted ==
    /\ holder = "route" => legacy >= 1
    /\ LegacyRoutes = {} => holder \notin {"route", "routed"} /\ fallen = {}

\* A form has a card in it, and sends the revision of that card.
FormsHaveCards ==
    \A c \in Commits : pc[c] # "closed" /\ ~IsCreate(c) =>
        intent[c].seen \in Record /\ intent[c].expected = intent[c].seen.revision

\* What the state shows of a card is as late as what any stored state showed, and
\* the same when it is as late and no older route wrote it, unless an older route
\* took it back. So is what an update has validated and what it has written.
AsLate(state, id) ==
    /\ Exists(id) /\ cards[id].revision >= state[id].revision
    /\ cards[id].revision = state[id].revision /\ cards[id].edits = 0
         => cards[id] = state[id]

Unchanged(c) == cards[intent[c].card].revision = intent[c].expected

CardsGetLater ==
    \A state \in stored : \A id \in Ids \ fallen :
        state[id] # NoCard => AsLate(state, id)

UpdatesRaiseRevisions ==
    \A c \in Commits : ~IsCreate(c) =>
        /\ pc[c] \in {"unlist", "put"} => Unchanged(c)
        /\ applied[c] >= 1 /\ intent[c].card \notin fallen =>
             /\ applied[c] = 1 /\ Exists(intent[c].card)
             /\ cards[intent[c].card].revision > intent[c].expected

IInv ==
    /\ TypeOK /\ HolderWorks /\ WrittenByNow /\ HeldWereTried
    /\ StagedHasObjects /\ PlanFollowsCards /\ RoutesAreCounted /\ FormsHaveCards
    /\ CardsGetLater /\ UpdatesRaiseRevisions /\ SavedMeansAudited

USE SentinelAssumption, BoundAssumption, NoCardAssumption

-----------------------------------------------------------------------------
(* The least and the greatest of a set of numbers.                         *)

\* A set of numbers that is not empty has a least one (ReplayRows works on it).
LEMMA LeastOfNaturals ==
    ASSUME NEW S \in SUBSET Nat, S # {}
    PROVE  /\ Min(S) \in S
           /\ \A n \in S : Min(S) <= n
<1> DEFINE less == {p \in Nat \X Nat : p[1] < p[2]}
<1>1. IsWellFoundedOn(less, Nat)
  BY NatLessThanWellFounded DEF OpToRel
<1> HIDE DEF less
<1>2. PICK m \in S : \A n \in S : <<n, m>> \notin less
  BY <1>1, WFMin
<1>3. ASSUME NEW n \in S PROVE m <= n
  <2>1. <<n, m>> \in Nat \X Nat /\ <<n, m>>[1] = n /\ <<n, m>>[2] = m
    OBVIOUS
  <2>2. ~(n < m)
    BY <1>2, <2>1 DEF less
  <2> QED
    BY <2>2
<1> QED
  BY <1>3 DEF Min

\* One that is bounded has a greatest one (NextId adds one to it).
LEMMA GreatestOfNaturals ==
    ASSUME NEW S \in SUBSET Nat, S # {}, NEW bound \in Nat,
           \A n \in S : n <= bound
    PROVE  /\ Max(S) \in S
           /\ \A n \in S : n <= Max(S)
<1> DEFINE T == {bound - n : n \in S}
<1>1. \A n \in S : n \in Nat /\ bound - n \in Nat /\ bound - n \in T
  OBVIOUS
<1>2. T \in SUBSET Nat /\ T # {}
  BY <1>1
<1>3. Min(T) \in T /\ \A n \in T : Min(T) <= n
  BY <1>2, LeastOfNaturals
<1>4. PICK m \in S : Min(T) = bound - m
  BY <1>3
<1>5. \A n \in S : bound - m <= bound - n
  BY <1>1, <1>3, <1>4
<1>6. \A n \in S : m >= n
  BY <1>1, <1>5
<1>7. Max(S) \in S /\ \A n \in S : Max(S) >= n
  BY <1>6 DEF Max
<1> QED
  BY <1>1, <1>7

\* The next id of a card is a new one.
LEMMA NextIdIsNew ==
    ASSUME TypeOK
    PROVE  /\ NextId \in Nat \ {0}
           /\ \A id \in Ids : Exists(id) => id < NextId
<1> DEFINE S == {0} \cup {id \in Ids : Exists(id)}
<1>1. S \in SUBSET Nat /\ S # {} /\ \A n \in S : n <= MaxCards
  BY DEF Ids
<1>2. Max(S) \in S /\ \A n \in S : n <= Max(S)
  BY <1>1, GreatestOfNaturals
<1> HIDE DEF S
<1>3. Max(S) \in Nat /\ NextId = Max(S) + 1
  BY <1>1, <1>2 DEF NextId, S
<1>4. \A id \in Ids : Exists(id) => id \in S /\ id \in Nat
  BY DEF S, Ids
<1> QED
  BY <1>2, <1>3, <1>4

\* Before any request, the invariant holds.
LEMMA InitEstablishesIInv == Init => IInv
<1> SUFFICES ASSUME Init PROVE IInv
  OBVIOUS
<1>1. \A id \in Ids : cards[id] # NoCard => cards[id].commit = NoCommit
  BY DEF Init, Baseline
<1>2. cards \in [Ids -> Record \cup {NoCard}]
  BY DEF Init, Baseline, Record, Ids
<1>3. TypeOK
  BY <1>2 DEF Init, TypeOK, Intent, NoIntent, NoPlan, Held
<1>4. HolderWorks /\ WrittenByNow /\ SavedMeansAudited
  BY DEF Init, HolderWorks, WrittenByNow, SavedMeansAudited, Working
<1>5. HeldWereTried
  BY <1>1 DEF Init, HeldWereTried, Held
<1>6. StagedHasObjects
  BY DEF Init, StagedHasObjects, NoIntent, StagedMedia
<1>7. PlanFollowsCards /\ RoutesAreCounted /\ FormsHaveCards
  BY DEF Init, PlanFollowsCards, RoutesAreCounted, FormsHaveCards
<1>8. CardsGetLater /\ UpdatesRaiseRevisions
  <2>1. \A state \in stored : \A id \in Ids : state[id] # NoCard => AsLate(state, id)
    BY <1>2 DEF Init, AsLate, Exists, Record
  <2> QED
    BY <2>1 DEF Init, CardsGetLater, UpdatesRaiseRevisions, NoIntent, IsCreate
<1> QED
  BY <1>3, <1>4, <1>5, <1>6, <1>7, <1>8 DEF IInv

-----------------------------------------------------------------------------
(* Cards.                                                                  *)

\* A state shows uploads.
LEMMA ReferencedAreUploads ==
    ASSUME NEW state \in [Ids -> Record \cup {NoCard}]
    PROVE  Referenced(state) \subseteq Uploads
  BY DEF Referenced, KeysOf, Record

\* An update's card is one of the state's.
LEMMA IntentTypes ==
    ASSUME TypeOK, NEW c \in Commits
    PROVE  /\ intent[c] \in Intent /\ intent[c].card \in 0..MaxCards
           /\ ~IsCreate(c) => intent[c].card \in Ids
           /\ ~IsCreate(c) /\ ~Missing(c) => cards[intent[c].card] \in Record
  BY DEF TypeOK, Intent, IsCreate, Missing, Exists, Ids

\* What a commit writes is a card.
LEMMA NewRecordTypes ==
    ASSUME TypeOK, NEW c \in Commits, ~Missing(c), Target(c) \in Ids
    PROVE  /\ NewRecord(c) \in Record /\ NewRecord(c) # NoCard
           /\ NextCards(c) \in [Ids -> Record \cup {NoCard}]
           /\ NextCards(c)[Target(c)] = NewRecord(c)
           /\ \A id \in Ids : id # Target(c) => NextCards(c)[id] = cards[id]
           /\ RegistryDelta(c) \in [removed : SUBSET Uploads, added : SUBSET Uploads]
<1>1. intent[c] \in Intent /\ (~IsCreate(c) => cards[intent[c].card] \in Record)
  BY IntentTypes
<1>2. NextRevision(c) \in Nat \ {0}
  BY <1>1 DEF NextRevision, Record
<1>3. CommittedMedia(c) \in Uploads \cup {NoMedia}
  BY <1>1 DEF CommittedMedia, Record, Intent
<1>4. NewRecord(c) \in Record
  BY <1>2, <1>3 DEF NewRecord, Record
<1>5. NextCards(c) \in [Ids -> Record \cup {NoCard}]
  BY <1>4 DEF NextCards, TypeOK
<1>6. /\ NextCards(c)[Target(c)] = NewRecord(c)
      /\ \A id \in Ids : id # Target(c) => NextCards(c)[id] = cards[id]
  BY DEF NextCards, TypeOK
<1>7. Referenced(cards) \subseteq Uploads /\ Referenced(NextCards(c)) \subseteq Uploads
  BY <1>5, ReferencedAreUploads DEF TypeOK
<1>8. RegistryDelta(c) \in [removed : SUBSET Uploads, added : SUBSET Uploads]
  BY <1>7 DEF RegistryDelta
<1> QED
  BY <1>4, <1>5, <1>6, <1>8

\* A replay lists the media of a card that shows the commit.
LEMMA ReplayedIsShown ==
    ASSUME NEW c \in Commits, ReplayTargets(c) # {}
    PROVE  /\ Min(ReplayTargets(c)) \in ReplayTargets(c)
           /\ KeysOf(cards[Min(ReplayTargets(c))]) \subseteq Referenced(cards)
<1>1. ReplayTargets(c) \in SUBSET Nat
  BY DEF ReplayTargets, Ids
<1>2. Min(ReplayTargets(c)) \in ReplayTargets(c)
  BY <1>1, LeastOfNaturals
<1>3. ASSUME NEW id \in Ids, Exists(id) PROVE KeysOf(cards[id]) \subseteq Referenced(cards)
  BY <1>3 DEF Exists, Referenced
<1> QED
  BY <1>2, <1>3 DEF ReplayTargets

\* What an older route puts differs from the state in cards that carry its number,
\* with a commit that an isolate held, or are away.
RouteForm(new) ==
    /\ new \in [Ids -> Record \cup {NoCard}]
    /\ \A id \in Ids :
         \/ new[id] = cards[id] \/ new[id] = NoCard
         \/ /\ new[id].edits = legacy
            /\ \/ new[id].commit = NoCommit
               \/ \E list \in Held : list[id] # NoCard /\ list[id].commit = new[id].commit

RouteChange == \/ RouteReset
               \/ \E id \in Ids : RouteDelete(id) \/ RouteUpdate(id) \/ RouteInsert(id)

LEMMA RouteForms ==
    ASSUME TypeOK, RouteChange
    PROVE  \E new : RoutePut(new) /\ RouteForm(new)
<1>1. /\ cards \in [Ids -> Record \cup {NoCard}] /\ legacy \in 0..MaxLegacy
      /\ Held \subseteq [Ids -> Record \cup {NoCard}] /\ library \subseteq Uploads
  BY DEF TypeOK
<1>2. CASE RouteReset
  <2>1. Baseline(legacy) \in [Ids -> Record \cup {NoCard}]
    BY <1>1 DEF Baseline, Record
  <2>2. \A id \in Ids : Baseline(legacy)[id] = NoCard
                         \/ /\ Baseline(legacy)[id].edits = legacy
                            /\ Baseline(legacy)[id].commit = NoCommit
    BY DEF Baseline
  <2> QED
    BY <1>2, <2>1, <2>2 DEF RouteReset, RouteForm
<1>3. ASSUME NEW id \in Ids, RouteDelete(id) PROVE \E new : RoutePut(new) /\ RouteForm(new)
  <2> DEFINE new == [cards EXCEPT ![id] = NoCard]
  <2>1. RoutePut(new) /\ RouteForm(new)
    BY <1>1, <1>3 DEF RouteDelete, RouteForm
  <2> QED
    BY <2>1
<1>4. ASSUME NEW id \in Ids, NEW record \in Record, RoutePut([cards EXCEPT ![id] = record]),
             record.edits = legacy,
             \/ record.commit = NoCommit
             \/ \E list \in Held : list[id] # NoCard /\ list[id].commit = record.commit
      PROVE  \E new : RoutePut(new) /\ RouteForm(new)
  <2> DEFINE new == [cards EXCEPT ![id] = record]
  <2>1. RoutePut(new) /\ RouteForm(new)
    BY <1>1, <1>4 DEF RouteForm
  <2> QED
    BY <2>1
<1>5. ASSUME NEW id \in Ids, RouteUpdate(id) PROVE \E new : RoutePut(new) /\ RouteForm(new)
  <2>1. PICK list \in Held, media \in library \cup {NoMedia} :
          /\ list[id] # NoCard
          /\ RoutePut([cards EXCEPT ![id] =
                          [list[id] EXCEPT !.media = media, !.edits = legacy]])
    BY <1>5 DEF RouteUpdate
  <2>2. list[id] \in Record /\ media \in Uploads \cup {NoMedia}
    BY <1>1, <2>1
  <2>3. /\ [list[id] EXCEPT !.media = media, !.edits = legacy] \in Record
        /\ [list[id] EXCEPT !.media = media, !.edits = legacy].edits = legacy
        /\ [list[id] EXCEPT !.media = media, !.edits = legacy].commit = list[id].commit
    BY <1>1, <2>2 DEF Record
  <2> QED
    BY <1>4, <2>1, <2>3
<1>6. ASSUME NEW id \in Ids, RouteInsert(id) PROVE \E new : RoutePut(new) /\ RouteForm(new)
  <2>1. PICK media \in library \cup {NoMedia} :
          RoutePut([cards EXCEPT ![id] = [revision |-> 1, media |-> media,
                                          commit |-> NoCommit, edits |-> legacy]])
    BY <1>6 DEF RouteInsert
  <2>2. [revision |-> 1, media |-> media, commit |-> NoCommit, edits |-> legacy] \in Record
    BY <1>1, <2>1 DEF Record
  <2> QED
    BY <1>4, <2>1, <2>2
<1> QED
  BY <1>2, <1>3, <1>5, <1>6 DEF RouteChange

-----------------------------------------------------------------------------
(* Types.                                                                  *)

\* Each step keeps the types of the variables.
LEMMA TypeCorrect == IInv /\ [Next]_vars => TypeOK'
<1> SUFFICES ASSUME IInv, [Next]_vars PROVE TypeOK'
  OBVIOUS
<1> USE DEF IInv, TypeOK, stores, client, past
<1>1. ASSUME NEW c \in Commits,
             \/ Begin(c) \/ Abort(c) \/ Admit(c) \/ RegistryBlocked(c)
             \/ MarkCommitted(c) \/ ReplayAudit(c) \/ ReplayMark(c) \/ WriteAudit(c)
      PROVE  TypeOK'
  BY <1>1 DEF Begin, Abort, Admit, RegistryBlocked, MarkCommitted, ReplayAudit,
     ReplayMark, WriteAudit, Answer, Continue, Proceed, MarkedStaging, NoPlan, Held
<1>2. ASSUME NEW c \in Commits, Save(c) PROVE TypeOK'
  <2>1. PICK list \in Held, card \in 0..MaxCards,
             media \in Uploads \cup {NoMedia, Keep}, staged \in BOOLEAN :
          LET seen == IF card = 0 THEN NoCard ELSE list[card] IN
          /\ card # 0 => seen # NoCard
          /\ intent' = [intent EXCEPT ![c] =
               [card |-> card,
                expected |-> IF card = 0 THEN 0 ELSE seen.revision,
                media |-> media, staged |-> staged, seen |-> seen]]
    BY <1>2 DEF Save
  <2>2. card # 0 => list[card] \in Record
    BY <2>1 DEF Ids
  <2>3. intent' \in [Commits -> Intent]
    BY <2>1, <2>2 DEF Intent, Record
  <2> QED
    BY <1>2, <2>3 DEF Save, Held
<1>3. ASSUME NEW c \in Commits, RemoveRows(c) PROVE TypeOK'
  <2>1. ~Missing(c) /\ Target(c) \in Ids
    BY <1>3 DEF RemoveRows, PlanFollowsCards
  <2>2. plan' \in [removed : SUBSET Uploads, added : SUBSET Uploads]
    BY <1>3, <2>1, NewRecordTypes DEF RemoveRows
  <2> QED
    BY <1>3, <2>2 DEF RemoveRows, Proceed, Held
<1>4. ASSUME NEW c \in Commits, AddRows(c) PROVE TypeOK'
  BY <1>4 DEF AddRows, Continue, Proceed, Held
<1>5. ASSUME NEW c \in Commits, PutState(c) \/ PutFails(c) PROVE TypeOK'
  <2>1. NextCards(c) \in [Ids -> Record \cup {NoCard}]
    BY <1>5, NewRecordTypes DEF PutState, PutFails, PlanFollowsCards
  <2>2. ASSUME StoreEdit(c)
        PROVE  /\ cards' \in [Ids -> Record \cup {NoCard}] /\ cards' \in stored'
               /\ library' \subseteq Uploads /\ applied' \in [Commits -> Nat]
               /\ Held' \subseteq [Ids -> Record \cup {NoCard}] /\ fallen' \subseteq Ids
    BY <2>1, <2>2 DEF StoreEdit, Held
  <2>3. CASE PutState(c)
    BY <2>2, <2>3 DEF PutState, Continue, Proceed
  <2>4. CASE PutFails(c)
    <3>1. /\ cards' \in [Ids -> Record \cup {NoCard}] /\ cards' \in stored'
          /\ library' \subseteq Uploads /\ applied' \in [Commits -> Nat]
          /\ Held' \subseteq [Ids -> Record \cup {NoCard}] /\ fallen' \subseteq Ids
      BY <2>1, <2>2, <2>4 DEF PutFails, Held
    <3>2. /\ rows' \subseteq Uploads /\ pc' \in [Commits -> {"closed", "waiting", "admit",
                "unlist", "put", "list", "audit", "mark", "relist", "reaudit", "remark"}]
          /\ answer' \in [Commits -> {"none", "ok", "rejected", "retry", "error"}]
          /\ holder' = NoOne /\ plan' = NoPlan
      BY <2>4 DEF PutFails, Answer
    <3> QED
      BY <2>4, <3>1, <3>2 DEF PutFails, NoPlan
  <2> QED
    BY <1>5, <2>3, <2>4
<1>6. ASSUME NEW c \in Commits, ReplayRows(c) PROVE TypeOK'
  <2>1. KeysOf(cards[Min(ReplayTargets(c))]) \subseteq Uploads
    BY <1>6, ReplayedIsShown, ReferencedAreUploads DEF ReplayRows, PlanFollowsCards
  <2> QED
    BY <1>6, <2>1 DEF ReplayRows, Continue, Proceed, Held
<1>7. ASSUME NEW u \in Uploads, StageUpload(u) \/ ExpireUpload(u) PROVE TypeOK'
  BY <1>7 DEF StageUpload, ExpireUpload, Held
<1>8. CASE CleanUp
  BY <1>8 DEF CleanUp, Held
<1>9. CASE RouteBegin
  <2>1. legacy' \in 0..MaxLegacy
    <3>1. legacy \in 0..MaxLegacy /\ legacy < MaxLegacy /\ legacy' = legacy + 1
      BY <1>9 DEF RouteBegin
    <3> HIDE DEF TypeOK, IInv
    <3> QED
      BY <3>1
  <2>2. rows' \subseteq Uploads /\ holder' = "route" /\ ready' = FALSE
    BY <1>9 DEF RouteBegin
  <2> QED
    BY <1>9, <2>1, <2>2 DEF RouteBegin, Held
<1>10. CASE RebuildRegistry
  BY <1>10, ReferencedAreUploads DEF RebuildRegistry, Held
<1>11. CASE RouteChange
  <2>1. PICK new : RoutePut(new) /\ RouteForm(new)
    BY <1>11, RouteForms
  <2>2. new \in [Ids -> Record \cup {NoCard}]
    BY <2>1 DEF RouteForm
  <2>3. /\ cards' \in [Ids -> Record \cup {NoCard}] /\ cards' \in stored'
        /\ Held' \subseteq [Ids -> Record \cup {NoCard}] /\ fallen' \subseteq Ids
    BY <2>1, <2>2 DEF RoutePut, Held, TakenBack
  <2> QED
    BY <2>1, <2>3 DEF RoutePut
<1>12. CASE RouteAbort
  BY <1>12 DEF RouteAbort, Held
<1>13. CASE Quiet \/ UNCHANGED vars
  BY <1>13 DEF Quiet, vars, Held
<1> HIDE DEF TypeOK
<1> QED
  BY <1>1, <1>2, <1>3, <1>4, <1>5, <1>6, <1>7, <1>8, <1>9, <1>10, <1>11, <1>12,
     <1>13 DEF Next, CommitStep, RouteStep, RouteChange

-----------------------------------------------------------------------------
(* Requests.                                                               *)

\* A step leaves the commit where it is.
Idle(c) ==
    /\ pc'[c] = pc[c] /\ intent'[c] = intent[c] /\ answer'[c] = answer[c]
    /\ tries'[c] = tries[c] /\ applied'[c] = applied[c]

\* A step is the commit's own, or leaves it where it is.
LEMMA OneCommitMoves ==
    ASSUME TypeOK, [Next]_vars, NEW c \in Commits
    PROVE  CommitStep(c) \/ Idle(c)
<1> USE DEF Idle, client
<1>1. ASSUME NEW d \in Commits, CommitStep(d), d # c PROVE Idle(c)
  BY <1>1 DEF CommitStep, Save, Begin, Abort, Admit, RegistryBlocked, RemoveRows,
     PutState, PutFails, AddRows, WriteAudit, MarkCommitted, ReplayRows,
     ReplayAudit, ReplayMark, Answer, Continue, Proceed, StoreEdit, TypeOK
<1>2. CASE CleanUp \/ Quiet \/ UNCHANGED vars
  BY <1>2 DEF CleanUp, Quiet, vars
<1>3. ASSUME NEW u \in Uploads, StageUpload(u) \/ ExpireUpload(u) PROVE Idle(c)
  BY <1>3 DEF StageUpload, ExpireUpload
<1>4. CASE RouteBegin \/ RebuildRegistry \/ RouteAbort
  BY <1>4 DEF RouteBegin, RebuildRegistry, RouteAbort
<1>5. ASSUME RouteChange PROVE Idle(c)
  BY <1>5 DEF RouteChange, RouteReset, RouteDelete, RouteUpdate, RouteInsert, RoutePut
<1> QED
  BY <1>1, <1>2, <1>3, <1>4, <1>5 DEF Next, RouteStep, RouteChange

\* What a step does to the lock.
LEMMA LockMoves ==
    ASSUME TypeOK, HolderWorks, [Next]_vars
    PROVE  \/ holder' = holder
           \/ holder = NoOne /\ holder' = "route"
           \/ holder \in {"route", "routed"} /\ holder' \in {"routed", NoOne}
           \/ \E d \in Commits : Begin(d) /\ holder = NoOne /\ holder' = d
           \/ \E d \in Commits : CommitStep(d) /\ holder = d /\ holder' = NoOne
<1>1. ASSUME NEW d \in Commits, CommitStep(d)
      PROVE  \/ holder' = holder
             \/ Begin(d) /\ holder = NoOne /\ holder' = d
             \/ holder = d /\ holder' = NoOne
  BY <1>1 DEF CommitStep, Save, Begin, Abort, Admit, RegistryBlocked, RemoveRows,
     PutState, PutFails, AddRows, WriteAudit, MarkCommitted, ReplayRows,
     ReplayAudit, ReplayMark, Answer, Continue, Proceed, HolderWorks, Working
<1>2. CASE CleanUp \/ Quiet \/ UNCHANGED vars
  BY <1>2 DEF CleanUp, Quiet, vars
<1>3. ASSUME NEW u \in Uploads, StageUpload(u) \/ ExpireUpload(u)
      PROVE  holder' = holder
  BY <1>3 DEF StageUpload, ExpireUpload
<1>4. CASE RouteStep
  BY <1>4 DEF RouteStep, RouteBegin, RebuildRegistry, RouteAbort, RouteReset,
     RouteDelete, RouteUpdate, RouteInsert, RoutePut
<1> QED
  BY <1>1, <1>2, <1>3, <1>4 DEF Next

\* Each step leaves the holder of the lock at work, and nobody else.
LEMMA HolderStays == IInv /\ [Next]_vars => HolderWorks'
<1> SUFFICES ASSUME TypeOK, HolderWorks, [Next]_vars, NEW c \in Commits
             PROVE  (/\ Working(c) <=> holder = c
                     /\ Working(c) => tries[c] >= 1 /\ answer[c] # "ok"
                     /\ pc[c] = "closed" => tries[c] = 0
                     /\ tries[c] = 0 => applied[c] = 0 /\ answer[c] = "none")'
  BY DEF IInv, HolderWorks
<1>1. CASE CommitStep(c)
  <2> USE DEF HolderWorks, Working, client
  <2>1. CASE Save(c)
    BY <2>1 DEF Save, TypeOK
  <2>2. CASE Begin(c)
    BY <2>2 DEF Begin, TypeOK
  <2>3. Working(c) /\ holder = c => tries[c] >= 1 /\ tries[c] \in Nat
    BY DEF TypeOK
  <2>4. ASSUME NEW a \in {"ok", "rejected", "retry", "error"}, Answer(c, a),
               Working(c), tries' = tries
        PROVE  (/\ Working(c) <=> holder = c
                /\ pc[c] = "waiting" /\ tries[c] >= 1)'
    BY <2>3, <2>4 DEF Answer, TypeOK
  <2>5. ASSUME NEW step \in {"unlist", "put", "list", "audit", "mark", "relist",
                             "reaudit", "remark"},
               Proceed(c, step), Working(c), tries' = tries
        PROVE  (/\ Working(c) /\ holder = c /\ tries[c] >= 1 /\ answer[c] # "ok")'
    BY <2>3, <2>5 DEF Proceed, TypeOK
  <2>6. \/ Save(c) \/ Begin(c)
        \/ /\ Working(c) /\ tries' = tries
           /\ \/ \E a \in {"ok", "rejected", "retry", "error"} : Answer(c, a)
              \/ \E step \in {"unlist", "put", "list", "audit", "mark", "relist",
                              "reaudit", "remark"} : Proceed(c, step)
    BY <1>1 DEF CommitStep, Abort, Admit, RegistryBlocked, RemoveRows,
       PutState, PutFails, AddRows, WriteAudit, MarkCommitted, ReplayRows,
       ReplayAudit, ReplayMark, Continue
  <2> QED
    BY <2>1, <2>2, <2>4, <2>5, <2>6
<1>2. CASE Idle(c) /\ ~CommitStep(c)
  <2>1. holder' = c <=> holder = c
    BY <1>2, LockMoves DEF CommitStep
  <2> QED
    BY <1>2, <2>1 DEF Idle, HolderWorks, Working
<1> QED
  BY <1>1, <1>2, OneCommitMoves

\* How often a commit was written never shrinks, and grows only in its own put;
\* the audit log keeps its rows.
LEMMA WritingIsKept ==
    ASSUME TypeOK, [Next]_vars
    PROVE  /\ audited \subseteq audited'
           /\ \A c \in Commits : applied'[c] >= applied[c]
           /\ \A c \in Commits : applied'[c] # applied[c] =>
                /\ PutState(c) \/ PutFails(c)
                /\ StoreEdit(c) /\ applied'[c] = applied[c] + 1
<1>1. audited \subseteq audited'
  BY DEF Next, vars, stores, client, CommitStep, RouteStep, Save, Begin, Abort, Admit,
     RegistryBlocked, RemoveRows, PutState, PutFails, AddRows, WriteAudit,
     MarkCommitted, ReplayRows, ReplayAudit, ReplayMark, StageUpload, ExpireUpload,
     CleanUp, Quiet, RouteBegin, RebuildRegistry, RouteAbort, RouteReset,
     RouteDelete, RouteUpdate, RouteInsert, RoutePut
<1>2. ASSUME NEW c \in Commits, applied'[c] # applied[c]
      PROVE  /\ PutState(c) \/ PutFails(c)
             /\ StoreEdit(c) /\ applied'[c] = applied[c] + 1
  <2>1. CommitStep(c)
    BY <1>2, OneCommitMoves DEF Idle
  <2>2. /\ PutState(c) \/ PutFails(c)
        /\ StoreEdit(c)
    BY <1>2, <2>1 DEF CommitStep, Save, Begin, Abort, Admit, RegistryBlocked,
       RemoveRows, PutState, PutFails, AddRows, WriteAudit, MarkCommitted, ReplayRows,
       ReplayAudit, ReplayMark
  <2> QED
    BY <2>2 DEF StoreEdit, TypeOK
<1>3. \A c \in Commits : applied'[c] >= applied[c]
  <2> SUFFICES ASSUME NEW c \in Commits PROVE applied'[c] >= applied[c]
    OBVIOUS
  <2>1. applied[c] \in Nat
    BY DEF TypeOK
  <2> QED
    BY <1>2, <2>1
<1> QED
  BY <1>1, <1>2, <1>3

\* What a step does to the states: nothing, or it is a put, of a commit or of an
\* older route, stored or not.
Stores(d) == (PutState(d) \/ PutFails(d)) /\ StoreEdit(d)
Loses(d) == /\ PutFails(d) /\ unstored' = unstored \cup {NextCards(d)}
            /\ UNCHANGED <<cards, applied, stored, fallen>>
RouteStores(new) ==
    /\ RouteForm(new) /\ holder = "route" /\ cards' = new /\ stored' = stored \cup {new}
    /\ fallen' = fallen \cup TakenBack(new)
    /\ UNCHANGED <<unstored, pc, applied, client, legacy>>
RouteLoses(new) ==
    /\ RouteForm(new) /\ holder = "route" /\ unstored' = unstored \cup {new}
    /\ UNCHANGED <<cards, stored, fallen, pc, applied, client, legacy>>

LEMMA StateSteps ==
    ASSUME TypeOK, [Next]_vars
    PROVE  \/ UNCHANGED <<cards, past, applied>>
           \/ \E d \in Commits : Stores(d) \/ Loses(d)
           \/ \E new : RouteStores(new) \/ RouteLoses(new)
<1>1. ASSUME NEW d \in Commits, CommitStep(d)
      PROVE  UNCHANGED <<cards, past, applied>> \/ Stores(d) \/ Loses(d)
  BY <1>1 DEF CommitStep, Save, Begin, Abort, Admit, RegistryBlocked, RemoveRows,
     PutState, PutFails, AddRows, WriteAudit, MarkCommitted, ReplayRows, ReplayAudit,
     ReplayMark, stores, Stores, Loses
<1>2. ASSUME RouteChange PROVE \E new : RouteStores(new) \/ RouteLoses(new)
  <2>1. PICK new : RoutePut(new) /\ RouteForm(new)
    BY <1>2, RouteForms
  <2>2. RouteStores(new) \/ RouteLoses(new)
    BY <2>1 DEF RoutePut, RouteStores, RouteLoses
  <2> QED
    BY <2>2
<1>3. CASE RouteBegin \/ RebuildRegistry \/ RouteAbort \/ CleanUp \/ Quiet \/ UNCHANGED vars
  BY <1>3 DEF RouteBegin, RebuildRegistry, RouteAbort, CleanUp, Quiet, vars, stores
<1>4. ASSUME NEW u \in Uploads, StageUpload(u) \/ ExpireUpload(u)
      PROVE  UNCHANGED <<cards, past, applied>>
  BY <1>4 DEF StageUpload, ExpireUpload
<1> QED
  BY <1>1, <1>2, <1>3, <1>4 DEF Next, RouteStep, RouteChange

\* No state and no card taken back is forgotten.
LEMMA PastGrows ==
    ASSUME TypeOK, [Next]_vars
    PROVE  /\ stored \subseteq stored' /\ unstored \subseteq unstored'
           /\ fallen \subseteq fallen'
           /\ \A c \in Commits : WasStored(c) => WasStored(c)'
<1>1. stored \subseteq stored' /\ unstored \subseteq unstored' /\ fallen \subseteq fallen'
  BY StateSteps DEF past, Stores, StoreEdit, Loses, RouteStores, RouteLoses
<1> QED
  BY <1>1 DEF WasStored

\* Once a request of a commit has come to the put, it stays so.
LEMMA TriedStays ==
    ASSUME IInv, [Next]_vars, NEW c \in Commits, Tried(c)
    PROVE  Tried(c)'
<1>1. tries[c] \in Nat
  BY DEF IInv, TypeOK
<1>2. CASE Idle(c)
  BY <1>2 DEF Idle, Tried
<1>3. CASE CommitStep(c)
  <2>1. \/ tries'[c] = tries[c] /\ pc'[c] \in {"waiting", "list", "audit", "mark", "relist",
                                              "reaudit", "remark"}
        \/ tries'[c] = tries[c] /\ pc[c] \in {"admit", "unlist"}
        \/ tries'[c] = tries[c] + 1
    BY <1>3 DEF CommitStep, Save, Begin, Abort, Admit, RegistryBlocked, RemoveRows,
       PutState, PutFails, AddRows, WriteAudit, MarkCommitted, ReplayRows, ReplayAudit,
       ReplayMark, Answer, Continue, Proceed, client, IInv, TypeOK
  <2> QED
    BY <1>1, <2>1 DEF Tried
<1> QED
  BY <1>2, <1>3, OneCommitMoves DEF IInv

\* Each step keeps every state that is held to commits that came to the put.
LEMMA HeldStay == IInv /\ [Next]_vars => HeldWereTried'
<1> SUFFICES ASSUME IInv, [Next]_vars, NEW list \in Held', NEW id \in Ids, NEW c \in Commits,
                    list[id] # NoCard, list[id].commit = c
             PROVE  Tried(c)'
  BY DEF HeldWereTried
<1>1. ASSUME NEW old \in Held, old[id] # NoCard, old[id].commit = c PROVE Tried(c)'
  BY <1>1, TriedStays DEF IInv, HeldWereTried
<1>2. cards \in Held
  BY DEF IInv, TypeOK, Held
<1>3. ASSUME NEW d \in Commits, Stores(d) \/ Loses(d), list \notin Held PROVE Tried(c)'
  <2>1. list = NextCards(d) /\ pc[d] = "put"
    BY <1>3 DEF Stores, StoreEdit, Loses, PutState, PutFails, Held
  <2>2. /\ list[Target(d)] = NewRecord(d) /\ Target(d) \in Ids
        /\ \A i \in Ids : i # Target(d) => list[i] = cards[i]
    BY <2>1, NewRecordTypes DEF IInv, PlanFollowsCards
  <2>3. CASE id = Target(d)
    <3>1. c = d
      BY <2>2, <2>3 DEF NewRecord
    <3>2. tries'[c] = tries[c] /\ tries[c] >= 1 /\ pc'[c] \in {"list", "waiting"}
      BY <1>3, <3>1 DEF Stores, Loses, PutState, PutFails, Answer, Continue, Proceed, client,
         IInv, TypeOK, HolderWorks, Working
    <3> QED
      BY <3>2 DEF Tried
  <2>4. CASE id # Target(d)
    BY <1>1, <1>2, <2>2, <2>4
  <2> QED
    BY <2>3, <2>4
<1>4. ASSUME NEW new, RouteStores(new) \/ RouteLoses(new), list \notin Held PROVE Tried(c)'
  <2>1. list = new /\ RouteForm(new)
    BY <1>4 DEF RouteStores, RouteLoses, Held
  <2>2. \/ list[id] = cards[id]
        \/ \E old \in Held : old[id] # NoCard /\ old[id].commit = list[id].commit
    BY <2>1 DEF RouteForm
  <2> QED
    BY <1>1, <1>2, <2>2
<1>5. CASE UNCHANGED <<cards, past, applied>>
  BY <1>1, <1>5 DEF past, Held
<1> QED
  BY <1>1, <1>3, <1>4, <1>5, StateSteps DEF IInv

\* A request that replays its commit finds a card that it wrote before.
LEMMA ReplayedWasWritten ==
    ASSUME IInv, NEW c \in Commits, pc[c] = "admit", ReplayTargets(c) # {}
    PROVE  WasStored(c) /\ tries[c] >= 2
<1>1. PICK id \in Ids : cards[id] # NoCard /\ cards[id].commit = c
  BY DEF ReplayTargets, Exists
<1>2. cards \in stored /\ cards \in Held
  BY DEF IInv, TypeOK, Held
<1>3. WasStored(c)
  BY <1>1, <1>2 DEF WasStored
<1>4. Tried(c)
  BY <1>1, <1>2 DEF IInv, HeldWereTried
<1> QED
  BY <1>3, <1>4 DEF Tried

\* A commit whose put was stored is on a card of a stored state.
LEMMA StoredIsShown ==
    ASSUME IInv, NEW c \in Commits, Stores(c)
    PROVE  WasStored(c)'
<1>1. pc[c] = "put" /\ cards' = NextCards(c) /\ cards' \in stored'
  BY DEF Stores, StoreEdit, PutState, PutFails
<1>2. Target(c) \in Ids /\ cards'[Target(c)] = NewRecord(c) /\ NewRecord(c) # NoCard
  BY <1>1, NewRecordTypes DEF IInv, PlanFollowsCards
<1> QED
  BY <1>1, <1>2 DEF WasStored, NewRecord

\* Each step keeps what the place of a request says of its commit.
LEMMA ByNowStays == IInv /\ [Next]_vars => WrittenByNow' /\ SavedMeansAudited'
<1> SUFFICES ASSUME IInv, [Next]_vars, NEW c \in Commits
             PROVE  (/\ pc[c] \in {"list", "audit", "mark", "relist", "reaudit",
                                   "remark"} => WasStored(c)
                     /\ pc[c] \in {"relist", "reaudit", "remark"} => tries[c] >= 2
                     /\ pc[c] \in {"mark", "remark"} => c \in audited
                     /\ answer[c] = "ok" => WasStored(c) /\ c \in audited)'
  BY DEF WrittenByNow, SavedMeansAudited
<1> DEFINE ByNow(p, n, w, log, ans) ==
      /\ p \in {"list", "audit", "mark", "relist", "reaudit", "remark"} => w
      /\ p \in {"relist", "reaudit", "remark"} => n >= 2
      /\ p \in {"mark", "remark"} => c \in log
      /\ ans = "ok" => w /\ c \in log
<1> SUFFICES ByNow(pc'[c], tries'[c], WasStored(c)', audited', answer'[c])
  OBVIOUS
<1>1. ByNow(pc[c], tries[c], WasStored(c), audited, answer[c])
  BY DEF IInv, WrittenByNow, SavedMeansAudited
<1>2. audited \subseteq audited' /\ (WasStored(c) => WasStored(c)')
  BY WritingIsKept, PastGrows DEF IInv
<1>3. CASE Idle(c)
  BY <1>1, <1>2, <1>3 DEF Idle
<1>4. CASE Save(c) \/ Begin(c)
  <2>1. tries[c] \in Nat /\ pc[c] \in {"closed", "waiting"} /\ UNCHANGED answer
    BY <1>4 DEF Save, Begin, IInv, TypeOK
  <2>2. \/ pc'[c] = "waiting" /\ UNCHANGED tries
        \/ pc'[c] = "admit" /\ tries'[c] = tries[c] + 1
    BY <1>4 DEF Save, Begin, client, IInv, TypeOK
  <2> QED
    BY <1>1, <1>2, <2>1, <2>2
<1>5. CASE Admit(c)
  <2>1. ReplayTargets(c) # {} => WasStored(c) /\ tries[c] >= 2
    BY <1>5, ReplayedWasWritten DEF Admit
  <2>2. /\ pc[c] = "admit" /\ UNCHANGED tries
        /\ \/ pc'[c] = "waiting" /\ answer'[c] = "rejected"
           \/ pc'[c] = "relist" /\ ReplayTargets(c) # {} /\ UNCHANGED answer
           \/ pc'[c] = "unlist" /\ UNCHANGED answer
    BY <1>5 DEF Admit, Answer, Continue, Proceed, client, IInv, TypeOK
  <2> QED
    BY <1>1, <1>2, <2>1, <2>2
<1>6. CASE PutState(c) \/ PutFails(c)
  <2>1. UNCHANGED tries
    BY <1>6 DEF PutState, PutFails, client
  <2>2. \/ pc'[c] = "list" /\ Stores(c) /\ UNCHANGED answer
        \/ pc'[c] = "waiting" /\ answer'[c] \in {"retry", "error"}
    BY <1>6 DEF PutState, PutFails, Stores, Answer, Continue, Proceed, IInv, TypeOK
  <2> QED
    BY <1>1, <1>2, <2>1, <2>2, StoredIsShown
<1>7. CASE Abort(c) \/ RegistryBlocked(c)
  <2>1. /\ pc'[c] = "waiting" /\ answer'[c] \in {"retry", "error"}
        /\ UNCHANGED tries
    BY <1>7 DEF Abort, RegistryBlocked, Answer, client, IInv, TypeOK
  <2> QED
    BY <1>1, <1>2, <2>1
<1>8. CASE \/ RemoveRows(c) \/ AddRows(c) \/ WriteAudit(c) \/ MarkCommitted(c)
           \/ ReplayRows(c) \/ ReplayAudit(c) \/ ReplayMark(c)
  <2>1. UNCHANGED tries
    BY <1>8 DEF RemoveRows, AddRows, WriteAudit, MarkCommitted, ReplayRows, ReplayAudit,
       ReplayMark, client
  <2>2. \/ pc[c] = "unlist" /\ pc'[c] = "put" /\ UNCHANGED answer
        \/ pc[c] = "list" /\ pc'[c] = "audit" /\ UNCHANGED answer
        \/ pc[c] = "relist" /\ pc'[c] = "reaudit" /\ UNCHANGED answer
        \/ pc[c] = "audit" /\ pc'[c] = "mark" /\ c \in audited' /\ UNCHANGED answer
        \/ pc[c] = "reaudit" /\ pc'[c] = "remark" /\ c \in audited' /\ UNCHANGED answer
        \/ pc[c] \in {"mark", "remark"} /\ pc'[c] = "waiting" /\ answer'[c] = "ok"
    BY <1>8 DEF RemoveRows, AddRows, WriteAudit, MarkCommitted, ReplayRows, ReplayAudit,
       ReplayMark, Answer, Continue, Proceed, IInv, TypeOK
  <2> QED
    BY <1>1, <1>2, <2>1, <2>2
<1> QED
  BY <1>3, <1>4, <1>5, <1>6, <1>7, <1>8, OneCommitMoves DEF CommitStep, IInv

-----------------------------------------------------------------------------
(* Staged uploads.                                                         *)

Marks(d) == (MarkCommitted(d) \/ ReplayMark(d)) /\ staging' = MarkedStaging(d)

\* What a step does to the uploads.
LEMMA UploadSteps ==
    ASSUME TypeOK, [Next]_vars
    PROVE  \/ UNCHANGED <<staging, objects>> /\ expired \subseteq expired'
           \/ \E u \in Uploads : StageUpload(u)
           \/ CleanUp
           \/ \E d \in Commits : Marks(d) /\ UNCHANGED <<objects, expired>>
<1>1. ASSUME NEW d \in Commits, CommitStep(d)
      PROVE  /\ UNCHANGED <<objects, expired>>
             /\ staging' = staging \/ Marks(d)
  BY <1>1 DEF CommitStep, Save, Begin, Abort, Admit, RegistryBlocked, RemoveRows,
     PutState, PutFails, AddRows, WriteAudit, MarkCommitted, ReplayRows, ReplayAudit,
     ReplayMark, Marks, stores
<1>2. CASE RouteStep \/ Quiet \/ UNCHANGED vars
  BY <1>2 DEF RouteStep, RouteBegin, RebuildRegistry, RouteAbort, RouteReset,
     RouteDelete, RouteUpdate, RouteInsert, RoutePut, Quiet, vars, stores
<1>3. ASSUME NEW u \in Uploads, ExpireUpload(u)
      PROVE  UNCHANGED <<staging, objects>> /\ expired \subseteq expired'
  BY <1>3 DEF ExpireUpload
<1> QED
  BY <1>1, <1>2, <1>3 DEF Next

\* What one upload may become: a staged one is committed, a new one staged, and a
\* cleanup, which no request runs beside, takes the objects of those that expired
\* uncommitted.
LEMMA UploadMoves ==
    ASSUME TypeOK, [Next]_vars, NEW m \in Uploads
    PROVE  /\ expired \subseteq expired'
           /\ \/ staging'[m] = staging[m] /\ (m \in objects => m \in objects')
              \/ staging[m] = "absent" /\ m \notin expired /\ m \in objects'
                 /\ staging'[m] = "staged"
              \/ /\ holder = NoOne /\ m \in expired /\ staging'[m] \in {staging[m], "absent"}
                 /\ m \in objects /\ staging[m] \in {"absent", "committed"}
                      => m \in objects'
              \/ /\ \E d \in Commits : Marks(d)
                 /\ staging[m] = "staged" /\ staging'[m] = "committed"
                 /\ objects' = objects
<1>1. CASE UNCHANGED <<staging, objects>> /\ expired \subseteq expired'
  BY <1>1
<1>2. ASSUME NEW u \in Uploads, StageUpload(u)
      PROVE  /\ expired' = expired
             /\ \/ staging'[m] = staging[m] /\ (m \in objects => m \in objects')
                \/ staging[m] = "absent" /\ m \notin expired /\ m \in objects'
                   /\ staging'[m] = "staged"
  BY <1>2 DEF StageUpload, TypeOK
<1>3. CASE CleanUp
  BY <1>3 DEF CleanUp, Discarded, Outdated, TypeOK
<1>4. ASSUME NEW d \in Commits, Marks(d), UNCHANGED <<objects, expired>>
      PROVE  \/ staging'[m] = staging[m]
             \/ staging[m] = "staged" /\ staging'[m] = "committed"
  BY <1>4 DEF Marks, MarkedStaging
<1> QED
  BY <1>1, <1>2, <1>3, <1>4, UploadSteps

\* The media a commit has staged.
LEMMA StagedMediaTypes ==
    ASSUME IInv, NEW c \in Commits
    PROVE  /\ StagedMedia(c) \subseteq Uploads
           /\ intent'[c] = intent[c] => StagedMedia(c)' = StagedMedia(c)
  BY DEF IInv, StagedHasObjects, StagedMedia

\* Each step keeps the staged media of a request that has validated it.
LEMMA ValidatedStays ==
    ASSUME IInv, [Next]_vars, NEW c \in Commits,
           pc'[c] \in {"unlist", "put", "list", "audit", "mark"}
    PROVE  \A m \in StagedMedia(c)' : staging'[m] = "staged" /\ m \in objects'
<1> DEFINE Holds == {"unlist", "put", "list", "audit", "mark"}
<1>1. pc[c] \in Holds => \A m \in StagedMedia(c) : staging[m] = "staged" /\ m \in objects
  BY DEF IInv, StagedHasObjects
<1>2. CASE CommitStep(c)
  <2>0. Admit(c) \/ RemoveRows(c) \/ PutState(c) \/ AddRows(c) \/ WriteAudit(c)
    BY <1>2 DEF CommitStep, Save, Begin, Abort, RegistryBlocked, PutFails,
       MarkCommitted, ReplayRows, ReplayAudit, ReplayMark, Answer, Continue, Proceed, IInv,
       TypeOK
  <2>1. UNCHANGED <<staging, objects>> /\ StagedMedia(c)' = StagedMedia(c)
        /\ pc[c] \in Holds \cup {"admit"}
    BY <2>0 DEF Admit, RemoveRows, PutState, AddRows, WriteAudit, StagedMedia, stores,
       client
  <2>2. CASE pc[c] \in Holds
    BY <1>1, <2>1, <2>2
  <2>3. CASE pc[c] = "admit"
    <3>1. MediaUsable(c)
      BY <1>2, <2>3 DEF CommitStep, Save, Begin, Abort, Admit, RegistryBlocked,
         RemoveRows, PutState, PutFails, AddRows, WriteAudit, MarkCommitted, ReplayRows,
         ReplayAudit, ReplayMark, Answer, Continue, Proceed, IInv, TypeOK
    <3>2. \A m \in StagedMedia(c) : staging[m] = "staged" /\ m \notin expired
      BY <3>1 DEF MediaUsable
    <3> QED
      BY <2>1, <3>2, StagedMediaTypes DEF IInv, StagedHasObjects
  <2> QED
    BY <2>1, <2>2, <2>3
<1>3. CASE Idle(c) /\ ~CommitStep(c)
  <2>1. pc[c] \in Holds /\ StagedMedia(c)' = StagedMedia(c)
    BY <1>3, StagedMediaTypes DEF Idle
  <2>2. holder = c
    BY <2>1 DEF IInv, HolderWorks, Working
  <2>3. \A d \in Commits : ~Marks(d)
    BY <1>3, <2>2 DEF Marks, MarkCommitted, ReplayMark, CommitStep, IInv, HolderWorks,
       Working
  <2>4. holder # NoOne
    BY <2>2
  <2>5. ASSUME NEW m \in StagedMedia(c) PROVE staging'[m] = "staged" /\ m \in objects'
    <3>1. m \in Uploads /\ staging[m] = "staged" /\ m \in objects
      BY <1>1, <2>1, StagedMediaTypes
    <3> QED
      BY <2>3, <2>4, <3>1, UploadMoves DEF IInv
  <2> QED
    BY <2>1, <2>5
<1> QED
  BY <1>2, <1>3, OneCommitMoves DEF IInv

\* Each step keeps the media of a clean save.
LEMMA CleanStays ==
    ASSUME IInv, [Next]_vars, NEW c \in Commits, answer'[c] = "ok", tries'[c] = 1
    PROVE  \A m \in StagedMedia(c)' :
              /\ m \in objects'
              /\ staging'[m] = "committed" \/ (staging'[m] = "absent" /\ m \in expired')
<1> DEFINE Safe(m) == /\ m \in objects
                      /\ staging[m] = "committed"
                         \/ (staging[m] = "absent" /\ m \in expired)
<1>1. CASE answer[c] = "ok" /\ tries[c] = 1 /\ intent'[c] = intent[c]
  <2>1. StagedMedia(c)' = StagedMedia(c) /\ StagedMedia(c) \subseteq Uploads
    BY <1>1, StagedMediaTypes
  <2>2. ASSUME NEW m \in StagedMedia(c)
        PROVE  /\ m \in objects'
               /\ staging'[m] = "committed" \/ (staging'[m] = "absent" /\ m \in expired')
    <3>1. Safe(m) /\ m \in Uploads
      BY <1>1, <2>1 DEF IInv, StagedHasObjects
    <3> QED
      BY <3>1, UploadMoves DEF IInv
  <2> QED
    BY <2>1, <2>2
<1>2. CASE CommitStep(c) /\ ~MarkCommitted(c)
  <2>1. ~ReplayMark(c)
    BY DEF ReplayMark, client, IInv, WrittenByNow
  <2>2. ~Save(c)
    BY DEF Save, IInv, HolderWorks
  <2>3. answer[c] = "ok" \/ ~CommitStep(c) \/ MarkCommitted(c)
    BY <2>1, <2>2 DEF CommitStep, Begin, Abort, Admit, RegistryBlocked, RemoveRows,
       PutState, PutFails, AddRows, WriteAudit, ReplayRows, ReplayAudit, Answer,
       Continue, Proceed, IInv, TypeOK
  <2>4. ~Working(c) /\ ~Begin(c)
    BY <1>2, <2>3 DEF Begin, IInv, HolderWorks
  <2> QED
    BY <1>2, <2>1, <2>2, <2>4 DEF CommitStep, Abort, Admit, RegistryBlocked, RemoveRows,
       PutState, PutFails, AddRows, WriteAudit, ReplayRows, ReplayAudit, Working, IInv,
       HolderWorks
<1>3. CASE MarkCommitted(c)
  <2>1. StagedMedia(c)' = StagedMedia(c) /\ pc[c] = "mark" /\ objects' = objects
    BY <1>3, StagedMediaTypes DEF MarkCommitted, client
  <2>2. \A m \in StagedMedia(c) : m \in Uploads /\ staging[m] = "staged" /\ m \in objects
    BY <2>1, StagedMediaTypes DEF IInv, StagedHasObjects
  <2>3. \A m \in StagedMedia(c) : staging'[m] = "committed"
    BY <1>3, <2>2 DEF MarkCommitted, MarkedStaging
  <2> QED
    BY <2>1, <2>2, <2>3
<1> QED
  BY <1>1, <1>2, <1>3, OneCommitMoves DEF IInv, Idle

\* Each step keeps what uploads and requests say of each other.
LEMMA StagedStays == IInv /\ [Next]_vars => StagedHasObjects'
<1> SUFFICES ASSUME IInv, [Next]_vars PROVE StagedHasObjects'
  OBVIOUS
<1>1. \A u \in Uploads : staging'[u] = "staged" /\ u \notin expired' => u \in objects'
  BY UploadMoves DEF IInv, StagedHasObjects
<1>2. ASSUME NEW c \in Commits, intent'[c].staged PROVE intent'[c].media \in Uploads
  <2>1. CASE intent'[c] = intent[c]
    BY <1>2, <2>1 DEF IInv, StagedHasObjects
  <2>2. CASE Save(c)
    BY <1>2, <2>2 DEF Save, IInv, TypeOK
  <2>3. intent'[c] = intent[c] \/ Save(c)
    BY OneCommitMoves DEF Idle, CommitStep, Begin, Abort, Admit, RegistryBlocked,
       RemoveRows, PutState, PutFails, AddRows, WriteAudit, MarkCommitted, ReplayRows,
       ReplayAudit, ReplayMark, client, IInv
  <2> QED
    BY <2>1, <2>2, <2>3
<1> QED
  BY <1>1, <1>2, ValidatedStays, CleanStays DEF StagedHasObjects

-----------------------------------------------------------------------------
(* Cards and rows.                                                         *)

\* Beside the request that holds the lock, nothing it has read or planned changes.
LEMMA HeldStays ==
    ASSUME IInv, [Next]_vars, NEW c \in Commits, Working(c), ~CommitStep(c)
    PROVE  /\ UNCHANGED <<cards, rows, plan>>
           /\ Idle(c)
<1>1. holder = c /\ holder # NoOne /\ holder # "route"
  BY DEF IInv, HolderWorks
<1>2. ASSUME NEW d \in Commits, CommitStep(d) PROVE Save(d)
  BY <1>1, <1>2 DEF CommitStep, Begin, Abort, Admit, RegistryBlocked, RemoveRows,
     PutState, PutFails, AddRows, WriteAudit, MarkCommitted, ReplayRows, ReplayAudit,
     ReplayMark, IInv, HolderWorks, Working
<1>3. ASSUME NEW d \in Commits, Save(d) PROVE UNCHANGED <<cards, rows, plan>>
  BY <1>3 DEF Save, stores
<1>4. ASSUME RouteStep PROVE UNCHANGED <<cards, rows, plan>>
  BY <1>1, <1>4 DEF RouteStep, RouteBegin, RebuildRegistry, RouteAbort, RouteReset,
     RouteDelete, RouteUpdate, RouteInsert, RoutePut, stores
<1>5. ASSUME CleanUp \/ Quiet \/ UNCHANGED vars PROVE UNCHANGED <<cards, rows, plan>>
  BY <1>1, <1>5 DEF CleanUp, Quiet, vars, stores
<1>6. ASSUME NEW u \in Uploads, StageUpload(u) \/ ExpireUpload(u)
      PROVE  UNCHANGED <<cards, rows, plan>>
  BY <1>6 DEF StageUpload, ExpireUpload
<1>7. Idle(c)
  BY OneCommitMoves DEF IInv
<1> QED
  BY <1>2, <1>3, <1>4, <1>5, <1>6, <1>7 DEF Next

\* What a commit would write is read off the cards and its intent alone.
LEMMA SameCards ==
    ASSUME UNCHANGED cards, NEW c \in Commits, intent'[c] = intent[c]
    PROVE  /\ (IsCreate(c)' <=> IsCreate(c)) /\ (Missing(c)' <=> Missing(c))
           /\ Target(c)' = Target(c) /\ ReplayTargets(c)' = ReplayTargets(c)
           /\ RegistryDelta(c)' = RegistryDelta(c)
<1>1. (IsCreate(c)' <=> IsCreate(c)) /\ (Missing(c)' <=> Missing(c))
  BY DEF IsCreate, Missing, Exists
<1>2. \A id : Exists(id)' <=> Exists(id)
  BY DEF Exists
<1>5. ReplayTargets(c)' = ReplayTargets(c)
  BY <1>1, <1>2 DEF ReplayTargets
<1>6. NextId' = NextId
  BY <1>2 DEF NextId
<1>7. Target(c)' = Target(c)
  BY <1>1, <1>6 DEF Target
<1>3. NewRecord(c)' = NewRecord(c)
  BY <1>1 DEF NewRecord, NextRevision, CommittedMedia
<1>4. NextCards(c)' = NextCards(c)
  BY <1>3, <1>7 DEF NextCards
<1> QED
  BY <1>1, <1>4, <1>5, <1>7 DEF RegistryDelta, Referenced

\* Each step keeps the plan of the holder true to the cards.
LEMMA PlanStays == IInv /\ [Next]_vars => PlanFollowsCards'
<1> SUFFICES ASSUME IInv, [Next]_vars, NEW c \in Commits
             PROVE  (/\ pc[c] = "put" => Target(c) \in Ids /\ plan = RegistryDelta(c)
                     /\ pc[c] = "list" => plan.added \subseteq Referenced(cards)
                     /\ pc[c] \in {"unlist", "put"} => ~Missing(c)
                     /\ pc[c] = "relist" => ReplayTargets(c) # {})'
  BY DEF PlanFollowsCards
<1>1. /\ pc[c] = "put" => Target(c) \in Ids /\ plan = RegistryDelta(c)
      /\ pc[c] = "list" => plan.added \subseteq Referenced(cards)
      /\ pc[c] \in {"unlist", "put"} => ~Missing(c)
      /\ pc[c] = "relist" => ReplayTargets(c) # {}
  BY DEF IInv, PlanFollowsCards
<1> DEFINE Planned == {"unlist", "put", "list", "relist"}
<1>2. CASE ~CommitStep(c) /\ Working(c)
  <2>1. UNCHANGED <<cards, plan>> /\ pc'[c] = pc[c] /\ intent'[c] = intent[c]
    BY <1>2, HeldStays DEF Idle
  <2> QED
    BY <1>1, <2>1, SameCards
<1>3. CASE ~CommitStep(c) /\ ~Working(c)
  BY <1>3, OneCommitMoves DEF Idle, Working, IInv
<1>4. CASE CommitStep(c) /\ pc'[c] \notin Planned
  BY <1>4
<1>5. CASE CommitStep(c) /\ pc'[c] \in Planned
  <2>1. Admit(c) \/ RemoveRows(c) \/ PutState(c)
    BY <1>5 DEF CommitStep, Save, Begin, Abort, RegistryBlocked, PutFails, AddRows,
       WriteAudit, MarkCommitted, ReplayRows, ReplayAudit, ReplayMark, Answer, Continue,
       Proceed, IInv, TypeOK
  <2>2. CASE Admit(c)
    <3>1. /\ UNCHANGED <<cards, intent>> /\ pc'[c] \in {"relist", "unlist"}
          /\ ~Missing(c) /\ (pc'[c] = "relist" => ReplayTargets(c) # {})
      BY <1>5, <2>2 DEF Admit, Answer, Continue, Proceed, stores, client, IInv, TypeOK
    <3> QED
      BY <3>1, SameCards
  <2>3. CASE RemoveRows(c)
    <3>1. /\ UNCHANGED <<cards, intent>> /\ pc[c] = "unlist" /\ pc'[c] = "put"
          /\ Target(c) \in Ids /\ plan' = RegistryDelta(c)
      BY <2>3 DEF RemoveRows, Proceed, client, IInv, TypeOK
    <3> QED
      BY <1>1, <3>1, SameCards
  <2>4. CASE PutState(c)
    <3>1. /\ pc[c] = "put" /\ pc'[c] = "list" /\ plan' = plan /\ cards' = NextCards(c)
      BY <2>4 DEF PutState, StoreEdit, Continue, Proceed, IInv, TypeOK
    <3>2. plan.added \subseteq Referenced(NextCards(c))
      BY <1>1, <3>1 DEF RegistryDelta
    <3>3. Referenced(cards)' = Referenced(NextCards(c))
      BY <3>1 DEF Referenced
    <3> QED
      BY <3>1, <3>2, <3>3
  <2> QED
    BY <2>1, <2>2, <2>3, <2>4
<1> QED
  BY <1>2, <1>3, <1>4, <1>5

-----------------------------------------------------------------------------
(* Revisions.                                                              *)

\* Without older routes a put leaves every other card alone, and gives the one it
\* updates its next revision; a new card takes an id that was free.
LEMMA PutsRaiseRevisions ==
    ASSUME IInv, NEW d \in Commits, pc[d] = "put", StoreEdit(d),
           NEW id \in Ids, Exists(id)
    PROVE  /\ Exists(id)'
           /\ \/ cards'[id] = cards[id] /\ (IsCreate(d) \/ intent[d].card # id)
              \/ /\ ~IsCreate(d) /\ intent[d].card = id
                 /\ cards'[id].revision = cards[id].revision + 1
<1>1. Target(d) \in Ids /\ ~Missing(d)
  BY DEF IInv, PlanFollowsCards
<1>2. /\ cards'[Target(d)] = NewRecord(d) /\ NewRecord(d) # NoCard
      /\ \A i \in Ids : i # Target(d) => cards'[i] = cards[i]
  BY <1>1, NewRecordTypes DEF StoreEdit, IInv
<1>3. CASE IsCreate(d)
  <2>1. Target(d) = NextId /\ id < NextId /\ NextId \in Nat /\ id \in Nat
    BY <1>3, NextIdIsNew DEF Target, IInv, Ids
  <2>2. id # Target(d)
    BY <2>1
  <2> QED
    BY <1>2, <1>3, <2>2 DEF Exists
<1>4. CASE ~IsCreate(d)
  <2>1. Target(d) = intent[d].card
    BY <1>4 DEF Target
  <2>2. NewRecord(d).revision = cards[intent[d].card].revision + 1
    BY <1>4 DEF NewRecord, NextRevision
  <2> QED
    BY <1>2, <1>4, <2>1, <2>2 DEF Exists
<1> QED
  BY <1>3, <1>4

\* Each step counts the older routes that hold the lock.
LEMMA RoutesStay == IInv /\ [Next]_vars => RoutesAreCounted'
<1> SUFFICES ASSUME IInv, [Next]_vars PROVE RoutesAreCounted'
  OBVIOUS
<1>0. /\ holder = "route" => legacy >= 1
      /\ LegacyRoutes = {} => holder \notin {"route", "routed"} /\ fallen = {}
  BY DEF IInv, RoutesAreCounted
<1>1. CASE RouteBegin
  <2>1. legacy \in Nat /\ legacy' = legacy + 1 /\ LegacyRoutes # {}
    BY <1>1 DEF RouteBegin, IInv, TypeOK
  <2>2. legacy' >= 1
    BY <2>1
  <2> QED
    BY <2>1, <2>2 DEF RoutesAreCounted
<1>2. CASE RouteChange \/ RebuildRegistry \/ RouteAbort
  <2>1. LegacyRoutes # {} \/ (holder' = NoOne /\ fallen' = fallen)
    BY <1>2 DEF RouteChange, RouteReset, RouteDelete, RouteUpdate, RouteInsert,
       RebuildRegistry, RouteAbort, past
  <2>2. holder' # "route"
    BY <1>2 DEF RouteChange, RouteReset, RouteDelete, RouteUpdate, RouteInsert, RoutePut,
       RebuildRegistry, RouteAbort
  <2> QED
    BY <1>0, <2>1, <2>2 DEF RoutesAreCounted
<1>3. ASSUME NEW c \in Commits, CommitStep(c)
      PROVE  UNCHANGED <<legacy, fallen>> /\ holder' \in {holder, c, NoOne}
  BY <1>3 DEF CommitStep, Save, Begin, Abort, Admit, RegistryBlocked, RemoveRows, PutState,
     PutFails, StoreEdit, AddRows, WriteAudit, MarkCommitted, ReplayRows, ReplayAudit,
     ReplayMark, Answer, Continue, Proceed, past
<1>4. ASSUME \/ CleanUp \/ Quiet \/ UNCHANGED vars
             \/ \E u \in Uploads : StageUpload(u) \/ ExpireUpload(u)
      PROVE  UNCHANGED <<legacy, fallen, holder>>
  BY <1>4 DEF CleanUp, Quiet, StageUpload, ExpireUpload, vars, past
<1> QED
  BY <1>0, <1>1, <1>2, <1>3, <1>4 DEF Next, RouteStep, RouteChange, RoutesAreCounted

\* Only a save fills a form.
LEMMA FormsAreKept ==
    ASSUME IInv, [Next]_vars, NEW c \in Commits, ~Save(c)
    PROVE  intent'[c] = intent[c] /\ (pc'[c] # "closed" => pc[c] # "closed")
<1>1. CommitStep(c) => intent'[c] = intent[c]
  BY DEF CommitStep, Begin, Abort, Admit, RegistryBlocked, RemoveRows, PutState,
     PutFails, AddRows, WriteAudit, MarkCommitted, ReplayRows, ReplayAudit, ReplayMark,
     client
<1>2. CommitStep(c) => pc[c] # "closed"
  BY DEF CommitStep, Begin, Abort, Admit, RegistryBlocked, RemoveRows, PutState,
     PutFails, AddRows, WriteAudit, MarkCommitted, ReplayRows, ReplayAudit, ReplayMark,
     IInv, HolderWorks, Working
<1> QED
  BY <1>1, <1>2, OneCommitMoves DEF Idle, IInv

\* Each step leaves a card in every form.
LEMMA FormsStay == IInv /\ [Next]_vars => FormsHaveCards'
<1> SUFFICES ASSUME IInv, [Next]_vars, NEW c \in Commits, pc'[c] # "closed", ~IsCreate(c)'
             PROVE  /\ intent'[c].seen \in Record
                    /\ intent'[c].expected = intent'[c].seen.revision
  BY DEF FormsHaveCards
<1>1. CASE Save(c)
  <2>1. PICK list \in Held, card \in 0..MaxCards,
             media \in Uploads \cup {NoMedia, Keep}, staged \in BOOLEAN :
          LET seen == IF card = 0 THEN NoCard ELSE list[card] IN
          /\ card # 0 => seen # NoCard
          /\ intent' = [intent EXCEPT ![c] =
               [card |-> card,
                expected |-> IF card = 0 THEN 0 ELSE seen.revision,
                media |-> media, staged |-> staged, seen |-> seen]]
    BY <1>1 DEF Save
  <2>2. card # 0
    BY <2>1 DEF IsCreate, IInv, TypeOK
  <2>3. list[card] \in Record
    BY <2>1, <2>2 DEF IInv, TypeOK, Ids
  <2> QED
    BY <2>1, <2>2, <2>3 DEF IInv, TypeOK
<1>2. CASE ~Save(c)
  BY <1>2, FormsAreKept DEF IInv, FormsHaveCards, IsCreate
<1> QED
  BY <1>1, <1>2

\* What a step does to one card that no older route takes back: it stays, or comes
\* further by a commit's put, or an older route's number is on it.
LEMMA CardMoves ==
    ASSUME IInv, [Next]_vars, NEW id \in Ids, Exists(id), id \notin fallen'
    PROVE  /\ cards'[id] # NoCard /\ cards'[id] \in Record /\ cards[id] \in Record
           /\ \/ cards'[id] = cards[id]
              \/ cards'[id].revision = cards[id].revision + 1
              \/ cards'[id].revision >= cards[id].revision /\ cards'[id].edits # 0
<1>1. cards \in [Ids -> Record \cup {NoCard}] /\ cards' \in [Ids -> Record \cup {NoCard}]
  BY TypeCorrect DEF IInv, TypeOK
<1>2. ASSUME NEW d \in Commits, Stores(d)
      PROVE  /\ cards'[id] # NoCard
             /\ \/ cards'[id] = cards[id]
                \/ cards'[id].revision = cards[id].revision + 1
  BY <1>2, PutsRaiseRevisions DEF Stores, PutState, PutFails, Exists
<1>3. ASSUME NEW new, RouteStores(new)
      PROVE  /\ cards'[id] # NoCard
             /\ \/ cards'[id] = cards[id]
                \/ cards'[id].revision >= cards[id].revision /\ cards'[id].edits # 0
  <2>1. id \notin TakenBack(new) /\ cards' = new /\ RouteForm(new)
    BY <1>3 DEF RouteStores
  <2>2. new[id] # NoCard /\ ~(new[id].revision < cards[id].revision)
    BY <2>1 DEF TakenBack
  <2>3. new[id].revision \in Nat /\ cards[id].revision \in Nat
    BY <1>1, <2>1, <2>2 DEF Record, Exists
  <2>4. legacy >= 1 /\ legacy \in Nat
    BY <1>3 DEF RouteStores, IInv, RoutesAreCounted, TypeOK
  <2>5. new[id] = cards[id] \/ new[id].edits = legacy
    BY <2>1, <2>2 DEF RouteForm
  <2> QED
    BY <2>1, <2>2, <2>3, <2>4, <2>5
<1>4. CASE UNCHANGED cards
  BY <1>1, <1>4 DEF Exists
<1>5. UNCHANGED cards \/ (\E d \in Commits : Stores(d)) \/ (\E new : RouteStores(new))
  BY StateSteps DEF IInv, Loses, RouteLoses
<1>6. cards'[id] # NoCard
  BY <1>2, <1>3, <1>4, <1>5 DEF Exists
<1>7. cards'[id] \in Record /\ cards[id] \in Record
  BY <1>1, <1>6 DEF Exists
<1> QED
  BY <1>2, <1>3, <1>4, <1>5, <1>6, <1>7

\* Each step leaves every card as late as any stored state showed it.
LEMMA CardsStayLate == IInv /\ [Next]_vars => CardsGetLater'
<1> SUFFICES ASSUME IInv, [Next]_vars, NEW state \in stored', NEW id \in Ids \ fallen',
                    state[id] # NoCard
             PROVE  /\ cards'[id] # NoCard /\ cards'[id].revision >= state[id].revision
                    /\ cards'[id].revision = state[id].revision /\ cards'[id].edits = 0
                         => cards'[id] = state[id]
  BY DEF CardsGetLater, AsLate, Exists
<1>1. stored' \subseteq stored \cup {cards'}
  BY StateSteps DEF IInv, past, Stores, StoreEdit, Loses, RouteStores, RouteLoses
<1>2. state \in [Ids -> Record \cup {NoCard}]
  BY TypeCorrect DEF TypeOK, Held
<1>3. state[id].revision \in Nat
  BY <1>2 DEF Record
<1>4. CASE state = cards'
  BY <1>3, <1>4
<1>5. CASE state \in stored
  <2>1. id \notin fallen
    BY PastGrows DEF IInv
  <2>2. AsLate(state, id)
    BY <1>5, <2>1 DEF IInv, CardsGetLater
  <2>3. /\ cards'[id] # NoCard /\ cards'[id] \in Record /\ cards[id] \in Record
        /\ \/ cards'[id] = cards[id]
           \/ cards'[id].revision = cards[id].revision + 1
           \/ cards'[id].revision >= cards[id].revision /\ cards'[id].edits # 0
    BY <2>2, CardMoves DEF AsLate
  <2>4. cards'[id].revision \in Nat /\ cards[id].revision \in Nat
    BY <2>3 DEF Record
  <2> QED
    BY <1>3, <2>2, <2>3, <2>4 DEF AsLate
<1> QED
  BY <1>1, <1>4, <1>5

\* Each step keeps an update's card as it was validated until the put, and later
\* than its form once it is written.
LEMMA RevisionsStay == IInv /\ [Next]_vars => UpdatesRaiseRevisions'
<1> SUFFICES ASSUME IInv, [Next]_vars, NEW c \in Commits, ~IsCreate(c)'
             PROVE  (/\ pc[c] \in {"unlist", "put"} => Unchanged(c)
                     /\ applied[c] >= 1 /\ intent[c].card \notin fallen =>
                          /\ applied[c] = 1 /\ Exists(intent[c].card)
                          /\ cards[intent[c].card].revision > intent[c].expected)'
  BY DEF UpdatesRaiseRevisions
<1>1. CASE Save(c)
  <2>1. pc'[c] = "waiting" /\ applied'[c] = 0
    BY <1>1 DEF Save, IInv, TypeOK, HolderWorks
  <2> QED
    BY <2>1
<1>2. CASE ~Save(c)
  <2>1. intent'[c] = intent[c] /\ ~IsCreate(c)
    BY <1>2, FormsAreKept DEF IsCreate
  <2>2. intent[c].card \in Ids /\ intent[c].expected \in Nat /\ applied[c] \in Nat
    BY <2>1, IntentTypes DEF IInv, TypeOK, Intent
  <2>3. pc'[c] \in {"unlist", "put"} => Unchanged(c)'
    <3>1. pc'[c] \in {"unlist", "put"} =>
             pc[c] \in {"unlist", "put"} \/ (Admit(c) /\ pc'[c] = "unlist")
      BY OneCommitMoves DEF Idle, CommitStep, Save, Begin, Abort, Admit,
         RegistryBlocked, RemoveRows, PutState, PutFails, AddRows, WriteAudit,
         MarkCommitted, ReplayRows, ReplayAudit, ReplayMark, Answer, Continue, Proceed,
         IInv, TypeOK
    <3>2. Admit(c) /\ pc'[c] = "unlist" => RevisionMatches(c)
      BY DEF Admit, Answer, Continue, Proceed, IInv, TypeOK
    <3>3. pc'[c] \in {"unlist", "put"} => Unchanged(c)
      BY <2>1, <3>1, <3>2 DEF RevisionMatches, Unchanged, IInv, UpdatesRaiseRevisions
    <3>4. pc'[c] \in {"unlist", "put"} => cards' = cards
      <4>1. CASE CommitStep(c)
        BY <4>1 DEF CommitStep, Save, Begin, Abort, Admit, RegistryBlocked, RemoveRows,
           PutState, PutFails, AddRows, WriteAudit, MarkCommitted, ReplayRows, ReplayAudit,
           ReplayMark, Answer, Continue, Proceed, stores, IInv, TypeOK
      <4>2. CASE ~CommitStep(c) /\ pc'[c] \in {"unlist", "put"}
        <5>1. Working(c)
          BY <4>2, OneCommitMoves DEF Idle, IInv, Working
        <5> QED
          BY <4>2, <5>1, HeldStays
      <4> QED
        BY <4>1, <4>2
    <3> QED
      BY <2>1, <3>3, <3>4 DEF Unchanged
  <2>4. ASSUME applied'[c] >= 1, intent[c].card \notin fallen'
        PROVE  /\ applied'[c] = 1 /\ cards'[intent[c].card] # NoCard
               /\ cards'[intent[c].card].revision > intent[c].expected
    <3> DEFINE k == intent[c].card
    <3>1. k \notin fallen
      BY <2>4, PastGrows DEF IInv
    <3>2. CASE applied'[c] = applied[c]
      <4>1. applied[c] = 1 /\ Exists(k) /\ cards[k].revision > intent[c].expected
        BY <2>1, <2>4, <3>1, <3>2 DEF IInv, UpdatesRaiseRevisions
      <4>2. /\ cards'[k] # NoCard /\ cards'[k] \in Record /\ cards[k] \in Record
            /\ \/ cards'[k] = cards[k]
               \/ cards'[k].revision = cards[k].revision + 1
               \/ cards'[k].revision >= cards[k].revision
        BY <2>2, <2>4, <4>1, CardMoves
      <4>3. cards'[k].revision \in Nat /\ cards[k].revision \in Nat
        BY <4>2 DEF Record
      <4> QED
        BY <2>2, <3>2, <4>1, <4>2, <4>3
    <3>3. CASE applied'[c] # applied[c]
      <4>1. StoreEdit(c) /\ applied'[c] = applied[c] + 1 /\ pc[c] = "put"
        BY <3>3, WritingIsKept DEF IInv, PutState, PutFails
      <4>2. cards[k].revision = intent[c].expected /\ ~Missing(c) /\ Target(c) \in Ids
        BY <2>1, <4>1 DEF IInv, UpdatesRaiseRevisions, Unchanged, PlanFollowsCards
      <4>3. applied[c] = 0
        BY <2>1, <2>2, <3>1, <4>2 DEF IInv, UpdatesRaiseRevisions
      <4>4. cards'[k] = NewRecord(c) /\ NewRecord(c) # NoCard
        BY <2>1, <4>1, <4>2, NewRecordTypes DEF IInv, StoreEdit, Target
      <4>5. NewRecord(c).revision = intent[c].expected + 1
        BY <2>1, <4>2 DEF NewRecord, NextRevision
      <4> QED
        BY <2>2, <4>1, <4>3, <4>4, <4>5
    <3> QED
      BY <3>2, <3>3
  <2> QED
    BY <2>1, <2>3, <2>4 DEF Exists
<1> QED
  BY <1>1, <1>2

-----------------------------------------------------------------------------
(* Theorems.                                                               *)

\* Each step keeps the invariant.
LEMMA StepKeepsIInv == IInv /\ [Next]_vars => IInv'
  BY TypeCorrect, HolderStays, ByNowStays, HeldStay, StagedStays, PlanStays, RoutesStay,
     FormsStay, CardsStayLate, RevisionsStay DEF IInv

\* The inductive invariant holds of every execution.
THEOREM InvariantHolds == Spec => []IInv
<1>1. Init => IInv
  BY InitEstablishesIInv
<1>2. IInv /\ [Next]_vars => IInv'
  BY StepKeepsIInv
<1> QED
  BY <1>1, <1>2, PTL DEF Spec

\* The variables keep their types.
THEOREM TypesHold == Spec => []TypeOK
<1>1. IInv => TypeOK
  BY DEF IInv
<1> QED
  BY <1>1, InvariantHolds, PTL

\* An editor who was told "saved" has his edit in a state that was stored and a row in
\* the audit log, whichever of the commit's requests got how far.
THEOREM SavesAreAudited == Spec => []SavedMeansAudited
<1>1. IInv => SavedMeansAudited
  BY DEF IInv
<1> QED
  BY <1>1, InvariantHolds, PTL

\* A save that went through in one request keeps the objects of its media, however
\* often staged uploads are cleaned up afterwards.
THEOREM CleanSavesKeepMedia == Spec => []CleanSaveKeepsMedia
<1>1. IInv => CleanSaveKeepsMedia
  BY DEF IInv, StagedHasObjects, CleanSaveKeepsMedia, StagedMedia
<1> QED
  BY <1>1, InvariantHolds, PTL

\* Where no older route changes cards, an update is written at most once, however
\* often it is sent again and also when its put answered an error after storing it.
THEOREM UpdatesAreAppliedOnce ==
    ASSUME LegacyRoutes = {}
    PROVE  Spec => []UpdateAppliedOnce
<1>1. ASSUME IInv, NEW c \in Commits, ~IsCreate(c) PROVE applied[c] <= 1
  <2>1. fallen = {} /\ applied[c] \in Nat
    BY <1>1 DEF IInv, RoutesAreCounted, TypeOK
  <2> QED
    BY <1>1, <2>1 DEF IInv, UpdatesRaiseRevisions
<1>2. IInv => UpdateAppliedOnce
  BY <1>1 DEF UpdateAppliedOnce
<1> QED
  BY <1>2, InvariantHolds, PTL

\* With the older routes at work, whatever they put and whether it was stored, an
\* update is written a second time only where one of them took its card back.
THEOREM RewritesFollowSetbacks == Spec => []WrittenAgainOnlyIfTakenBack
<1>1. ASSUME IInv, NEW c \in Commits, ~IsCreate(c), applied[c] > 1
      PROVE  intent[c].card \in fallen
  <2>1. applied[c] \in Nat
    BY <1>1 DEF IInv, TypeOK
  <2> QED
    BY <1>1, <2>1 DEF IInv, UpdatesRaiseRevisions
<1>2. IInv => WrittenAgainOnlyIfTakenBack
  BY <1>1 DEF WrittenAgainOnlyIfTakenBack
<1> QED
  BY <1>2, InvariantHolds, PTL

\* What an update replaces is what its editor started from, if that was ever stored
\* and no older route has written the card since, or taken it back.
THEOREM EditsAreNotOverwritten == Spec => NoEditOverwritten
<1> DEFINE Step == \A c \in Commits :
             applied'[c] > applied[c] /\ ~IsCreate(c)
                => LET id == intent[c].card IN
                   \/ cards[id] = intent[c].seen
                   \/ \A state \in stored : state[id] # intent[c].seen
                   \/ cards[id].edits # 0 \/ id \in fallen
<1>1. ASSUME IInv, [Next]_vars PROVE [Step]_vars
  <2>1. ASSUME NEW c \in Commits, applied'[c] > applied[c], ~IsCreate(c),
               NEW state \in stored, state[intent[c].card] = intent[c].seen,
               cards[intent[c].card].edits = 0, intent[c].card \notin fallen
        PROVE  cards[intent[c].card] = intent[c].seen
    <3>1. applied[c] \in Nat
      BY <1>1 DEF IInv, TypeOK
    <3>2. pc[c] = "put"
      BY <1>1, <2>1, <3>1, WritingIsKept DEF IInv, PutState, PutFails
    <3>3. /\ intent[c].seen \in Record /\ intent[c].expected = intent[c].seen.revision
          /\ cards[intent[c].card].revision = intent[c].expected
      BY <1>1, <2>1, <3>2 DEF IInv, FormsHaveCards, UpdatesRaiseRevisions, Unchanged
    <3>4. intent[c].card \in Ids
      BY <1>1, <2>1, IntentTypes DEF IInv
    <3>5. AsLate(state, intent[c].card)
      BY <1>1, <2>1, <3>3, <3>4 DEF IInv, CardsGetLater
    <3> QED
      BY <2>1, <3>3, <3>5 DEF AsLate
  <2> QED
    BY <2>1
<1> QED
  BY <1>1, InvariantHolds, PTL DEF Spec, NoEditOverwritten
=============================================================================
