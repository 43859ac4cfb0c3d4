------------------------------- MODULE Favorites -------------------------------
(***************************************************************************)
(* The favorite cards of one user, who has the site open in several tabs:  *)
(* the rows of user_favorites, the requests that add, remove and list      *)
(* them, the scheduled removal of rows without a card, and what each tab   *)
(* shows (user-favorites.js, which patches app.js).                        *)
(*                                                                         *)
(* A listing reads the rows and then the site state, and deletes the rows  *)
(* whose card it does not find there. Meanwhile cards come and go, other   *)
(* requests run, and a tab shows a toggle before it is answered. Of what   *)
(* is listed a tab shows the cards it knows: those of the answer that last *)
(* loaded them, which comes from the cache of some isolate, of any age.    *)
(*                                                                         *)
(* The rate limit of toggles only refuses; Counters has its windows.       *)
(***************************************************************************)
EXTENDS Integers, FiniteSets

CONSTANTS
    Cards, Tabs, NoCard,
    Initial,         \* the cards there are at first
    Jobs,            \* bound: requests under way at a time
    MaxActs,         \* bound on what the user does: toggles, loads, edits
    MaxChanges,      \* bound on cards coming and going
    MaxFaults        \* bound on refused or failed requests

ASSUME CardAssumption == NoCard \notin Cards /\ Initial \subseteq Cards
ASSUME ActsAssumption == {MaxActs, MaxChanges, MaxFaults} \subseteq Nat

VARIABLES
    cards,           \* the cards of the site state
    favorites,       \* the table user_favorites
    known,           \* state.swords of each tab
    session,         \* state.auth.favorites, as they came with the cards
    view,            \* state.favoriteCardIds of each tab
    job,             \* requests under way
    prune,           \* the scheduled removal
    deleted,         \* history: cards that were deleted at some time
    acts, changes, faults

tab == <<known, session, view>>
counters == <<acts, changes, faults>>
favoritesVars == <<cards, favorites, tab, job, prune, deleted, counters>>

(* A request: its tab, the card it toggles, the tab's favorites before, the *)
(* cards it loads, the rows it read and those of them that have no card.   *)
Kinds == {"add", "remove", "list", "load"}
Steps == {"check", "change", "rows", "state", "drop", "answer", "error"}
Request == [step : Steps, kind : Kinds, tab : Tabs, card : Cards \cup {NoCard},
            before : SUBSET Cards, swords : SUBSET Cards,
            list : SUBSET Cards, dead : SUBSET Cards]
Free == [step |-> "free"]
Removal == [step : {"idle", "rows", "drop"}, saw : SUBSET Cards]
Idle == [step |-> "idle", saw |-> {}]

FavoritesTypeOK ==
    /\ cards \subseteq Cards /\ deleted \subseteq Cards
    /\ favorites \subseteq Cards
    /\ known \in [Tabs -> SUBSET Cards]
    /\ session \in [Tabs -> SUBSET Cards]
    /\ view \in [Tabs -> SUBSET Cards]
    /\ job \in [Jobs -> Request \cup {Free}]
    /\ \A j \in Jobs : job[j].step # "free" =>
                         job[j].list \cap job[j].dead = {}
    /\ prune \in Removal
    /\ acts \in 0..MaxActs /\ changes \in 0..MaxChanges
    /\ faults \in 0..MaxFaults

FavoritesInit ==
    /\ cards = Initial
    /\ favorites = {}
    /\ known = [t \in Tabs |-> Initial]
    /\ session = [t \in Tabs |-> {}]
    /\ view = [t \in Tabs |-> {}]
    /\ job = [j \in Jobs |-> Free]
    /\ prune = Idle
    /\ deleted = {}
    /\ acts = 0 /\ changes = 0 /\ faults = 0

Step(j, step) == job' = [job EXCEPT ![j].step = step]
Finish(j) == job' = [job EXCEPT ![j] = Free]

-----------------------------------------------------------------------------
(* The tabs.                                                               *)

NewJob(step, kind, t, k, swords) ==
    [step |-> step, kind |-> kind, tab |-> t, card |-> k,
     before |-> IF kind \in {"add", "remove"} THEN view[t] ELSE {},
     swords |-> swords, list |-> {}, dead |-> {}]

\* setFavoriteCardState, for a card on the screen: shown at once.
Toggle(j, t, k) ==
    /\ job[j].step = "free" /\ acts < MaxActs
    /\ k \in known[t]
    /\ IF k \in view[t]
       THEN /\ view' = [view EXCEPT ![t] = @ \ {k}]
            /\ job' = [job EXCEPT ![j] = NewJob("change", "remove", t, k, {})]
       ELSE /\ view' = [view EXCEPT ![t] = @ \cup {k}]
            /\ job' = [job EXCEPT ![j] = NewJob("check", "add", t, k, {})]
    /\ acts' = acts + 1
    /\ UNCHANGED <<cards, favorites, known, session, prune, deleted, changes,
                   faults>>

\* refreshFavoriteCardIds, every 30 seconds in a tab that is shown.
\* Mutant: no polling, what stripFavoriteIntervalPolling would serve.
Polls_Never(t) == FALSE
Polls(t) == ~ \E j \in Jobs : /\ job[j].step # "free"
                              /\ job[j].kind = "list" /\ job[j].tab = t

Refresh(j, t) ==
    /\ job[j].step = "free" /\ Polls(t)
    /\ job' = [job EXCEPT ![j] = NewJob("rows", "list", t, NoCard, {})]
    /\ UNCHANGED <<cards, favorites, tab, prune, deleted, counters>>

\* refreshSwords: the cards of an isolate's cache, which may be of long ago or
\* of a change that was never stored, and then the favorites of the session.
Load(j, t) ==
    /\ job[j].step = "free" /\ acts < MaxActs
    /\ \E swords \in SUBSET Cards :
          job' = [job EXCEPT ![j] = NewJob("rows", "load", t, NoCard, swords)]
    /\ acts' = acts + 1
    /\ UNCHANGED <<cards, favorites, tab, prune, deleted, changes, faults>>

\* applySwordState, with loadFavoriteCardIds: of the favorites of the session
\* the tab shows those whose cards it now knows.
ApplySwords(t, swords, list) ==
    /\ known' = [known EXCEPT ![t] = swords]
    /\ session' = [session EXCEPT ![t] = list]
    /\ view' = [view EXCEPT ![t] = list \cap swords]

\* upsertSwordRecord, removeSwordRecord: the answer to an edit made in the tab
\* changes the cards it knows, and it goes back to the favorites of its session.
ApplyEdit(t, k) ==
    /\ acts < MaxActs
    /\ acts' = acts + 1
    /\ ApplySwords(t, IF k \in cards THEN known[t] \cup {k} ELSE known[t] \ {k},
                   session[t])
    /\ UNCHANGED <<cards, favorites, job, prune, deleted, changes, faults>>

\* The list answered, as far as its cards are known (normalizeFavoriteIdSet),
\* replaces what the tab shows.
Answer(j) ==
    LET t == job[j].tab
    IN /\ job[j].step = "answer"
       /\ IF job[j].kind = "load"
          THEN ApplySwords(t, job[j].swords, job[j].list)
          ELSE /\ view' = [view EXCEPT ![t] = job[j].list \cap known[t]]
               /\ UNCHANGED <<known, session>>
       /\ Finish(j)
       /\ UNCHANGED <<cards, favorites, prune, deleted, counters>>

\* A failed toggle puts back what the tab showed before it; a failed refresh
\* leaves it. Cards whose favorites could not be added come without them.
Undo(j) ==
    LET t == job[j].tab
    IN /\ job[j].step = "error"
       /\ \/ /\ job[j].kind \in {"add", "remove"}
             /\ view' = [view EXCEPT ![t] = job[j].before]
             /\ UNCHANGED <<known, session>>
          \/ /\ job[j].kind \in {"list", "load"}
             /\ UNCHANGED tab
          \/ /\ job[j].kind = "load"
             /\ ApplySwords(t, job[j].swords, {})
       /\ Finish(j)
       /\ UNCHANGED <<cards, favorites, prune, deleted, counters>>

-----------------------------------------------------------------------------
(* The requests.                                                           *)

\* assertFavoriteCardExists. Mutant: any card ID will do.
Exists_Unchecked(k) == TRUE
Exists(k) == k \in cards

Check(j) ==
    /\ job[j].step = "check"
    /\ Step(j, IF Exists(job[j].card) THEN "change" ELSE "error")
    /\ UNCHANGED <<cards, favorites, tab, prune, deleted, counters>>

Change(j) ==
    /\ job[j].step = "change"
    /\ favorites' = IF job[j].kind = "add" THEN favorites \cup {job[j].card}
                    ELSE favorites \ {job[j].card}
    /\ job' = [job EXCEPT ![j].step = "rows", ![j].card = NoCard]
    /\ UNCHANGED <<cards, tab, prune, deleted, counters>>

\* listFavoriteCardIds: the rows.
ListRows(j) ==
    /\ job[j].step = "rows"
    /\ job' = [job EXCEPT ![j].step = "state", ![j].list = favorites]
    /\ UNCHANGED <<cards, favorites, tab, prune, deleted, counters>>

Alive(list) == list \cap cards

\* reconcileFavoriteRows
Reconcile(j) ==
    LET dead == job[j].list \ cards
    IN /\ job[j].step = "state"
       /\ job' = [job EXCEPT ![j].list = Alive(@), ![j].dead = dead,
                    ![j].step = IF dead = {} THEN "answer" ELSE "drop"]
       /\ UNCHANGED <<cards, favorites, tab, prune, deleted, counters>>

\* deleteFavoriteRows
Drop(j) ==
    /\ job[j].step = "drop"
    /\ favorites' = favorites \ job[j].dead
    /\ job' = [job EXCEPT ![j].step = "answer", ![j].dead = {}]
    /\ UNCHANGED <<cards, tab, prune, deleted, counters>>

\* Refused by the rate limit, or failed anywhere; what was written stays.
Fail(j) ==
    /\ job[j].step \notin {"free", "error"} /\ faults < MaxFaults
    /\ job' = [job EXCEPT ![j].step = "error", ![j].card = NoCard,
                          ![j].list = {}, ![j].dead = {}]
    /\ faults' = faults + 1
    /\ UNCHANGED <<cards, favorites, tab, prune, deleted, acts, changes>>

-----------------------------------------------------------------------------
(* The scheduled removal, pruneDeletedFavoriteRows: the cards first, then  *)
(* the rows.                                                               *)

PruneState ==
    /\ prune.step = "idle"
    /\ prune' = [step |-> "rows", saw |-> cards]
    /\ UNCHANGED <<cards, favorites, tab, job, deleted, counters>>

PruneRows ==
    /\ prune.step = "rows"
    /\ prune' = IF favorites \subseteq prune.saw THEN Idle
                ELSE [step |-> "drop", saw |-> favorites \ prune.saw]
    /\ UNCHANGED <<cards, favorites, tab, job, deleted, counters>>

PruneDrop ==
    /\ prune.step = "drop"
    /\ favorites' = favorites \ prune.saw
    /\ prune' = Idle
    /\ UNCHANGED <<cards, tab, job, deleted, counters>>

-----------------------------------------------------------------------------

\* A card is added, or comes back when its deletion is reverted.
AddCard(k) ==
    /\ k \notin cards /\ changes < MaxChanges
    /\ cards' = cards \cup {k}
    /\ changes' = changes + 1
    /\ UNCHANGED <<favorites, tab, job, prune, deleted, acts, faults>>

DeleteCard(k) ==
    /\ k \in cards /\ changes < MaxChanges
    /\ cards' = cards \ {k}
    /\ deleted' = deleted \cup {k}
    /\ changes' = changes + 1
    /\ UNCHANGED <<favorites, tab, job, prune, acts, faults>>

Progress(j) ==
    Check(j) \/ Change(j) \/ ListRows(j) \/ Reconcile(j) \/ Drop(j)
    \/ Answer(j) \/ Undo(j)

FavoritesNext ==
    \/ \E j \in Jobs :
        \/ \E t \in Tabs : \/ Refresh(j, t) \/ Load(j, t)
                         \/ \E k \in Cards : Toggle(j, t, k)
        \/ Progress(j) \/ Fail(j)
    \/ \E t \in Tabs, k \in Cards : ApplyEdit(t, k)
    \/ PruneState \/ PruneRows \/ PruneDrop
    \/ \E k \in Cards : AddCard(k) \/ DeleteCard(k)

\* A worker goes on with a request; a tab that is shown polls for ever, and
\* is not kept from it by its other requests.
Fairness ==
    /\ \A j \in Jobs : WF_favoritesVars(Progress(j))
    /\ \A t \in Tabs : SF_favoritesVars(\E j \in Jobs : Refresh(j, t))

FavoritesSpec == FavoritesInit /\ [][FavoritesNext]_favoritesVars /\ Fairness

-----------------------------------------------------------------------------
(* Properties.                                                             *)

\* Requests take away only favorites whose user removes them or whose card has
\* been deleted: a listing never takes a card that is newer than its look at the
\* site state for a deleted one (user-favorites.js:207). The scheduled removal,
\* which reads in the other order, may.
ListingsDropDeletedOnly ==
    [][\A k \in favorites \ favorites' :
         \/ k \in deleted
         \/ PruneDrop
         \/ \E j \in Jobs : Change(j) /\ job[j].card = k]_favoritesVars

\* Once the user has stopped, every tab comes to show the stored favorites of
\* the cards it knows, and goes on showing them, although toggles and listings
\* crossed, failed or put back older sets, and cards were loaded that are old or
\* came without favorites (user-favorites.js:386, 495, worker-entry.js:200).
TabsSettle == <>[](\A t \in Tabs : view[t] = favorites \cap known[t])
=============================================================================
