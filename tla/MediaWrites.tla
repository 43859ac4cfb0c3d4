------------------------------- MODULE MediaWrites -------------------------------
(***************************************************************************)
(* How a request of the older routes stores the media of its card          *)
(* (worker.js, persistMedia): its upserts run side by side, and each of    *)
(* them changes the site state twice, first to reserve storage and then to *)
(* record the object. All of them, and the card's own changes, go through  *)
(* one adapter of the bucket (state-coordinator.js), which gives every     *)
(* reader a copy of his own, writes one at a time and merges what a writer *)
(* changed into what is there by then.                                     *)
(*                                                                         *)
(* The first upsert to fail ends the request, which gives back the lock;   *)
(* the others go on. A write that has passed its check of the lock is then *)
(* on its way while a later request works.                                 *)
(*                                                                         *)
(* The lock is modelled in SiteStateLock, here only who holds it. Keys     *)
(* hold a random part, so that no two requests write one; every object     *)
(* counts as one byte.                                                     *)
(***************************************************************************)
EXTENDS Integers, FiniteSets

CONSTANTS
    Writers,
    Keys,            \* of the objects
    MediaOf,         \* of each request, the keys it writes
    StorageLimit,
    PlanLimit,       \* lone objects that a request describes at most
    Nobody

ASSUME MediaWritesAssumption ==
    /\ MediaOf \in [Writers -> SUBSET Keys]
    /\ \A r, s \in Writers : r # s => MediaOf[r] \cap MediaOf[s] = {}
    /\ UNION {MediaOf[r] : r \in Writers} = Keys
    /\ IsFiniteSet(Keys) /\ StorageLimit \in Nat /\ PlanLimit \in Nat
    /\ Nobody \notin Writers /\ Writers \cap Keys = {}

VARIABLES
    site,            \* the site state in the bucket
    stored,          \* the objects in it
    holder,          \* who has the lock
    stage,           \* of each request
    job,             \* of each upsert, and of each request itself
    late,            \* history: requests that ended with a write on its way
    backlog          \* history: the lone records when the lock was last taken

mediaVars == <<site, stored, holder, stage, job, late, backlog>>

-----------------------------------------------------------------------------
Agents == Writers \cup Keys
OwnerOf(a) == IF a \in Writers THEN a ELSE CHOOSE r \in Writers : a \in MediaOf[r]
AgentsOf(r) == {r} \cup MediaOf[r]

\* mediaObjects, mediaVariants (a set is named after its request, one that was
\* made up for a lone object after the object), swords and usage.
SiteState == [objects : SUBSET Keys, sets : SUBSET Agents,
              cards : SUBSET Writers, total : Int]
NoState == [objects |-> {}, sets |-> {}, cards |-> {}, total |-> 0]

Tasks == {"reserve", "record", "describe", "card", "normalize"}
Job == [task : Tasks,
        at : {"rest", "read", "queued", "latest", "put", "object", "done", "failed"},
        base : SiteState,   \* what it read
        new : SiteState,    \* what it wants to write, and then what it writes
        latest : SiteState]

\* At rest, at an await or at its end, a job holds no states.
At(task, at) ==
    [task |-> task, at |-> at, base |-> NoState, new |-> NoState, latest |-> NoState]

MediaTypeOK ==
    /\ site \in SiteState /\ stored \subseteq Keys
    /\ holder \in Writers \cup {Nobody}
    /\ stage \in [Writers -> {"new", "writing", "saved", "failed"}]
    /\ job \in [Agents -> Job]
    /\ late \subseteq Writers /\ backlog \subseteq Keys

MediaInit ==
    /\ site = NoState /\ stored = {} /\ holder = Nobody
    /\ late = {} /\ backlog = {}
    /\ stage = [r \in Writers |-> "new"]
    /\ job = [a \in Agents |->
                 At(IF a \in Writers THEN "describe" ELSE "reserve", "rest")]

-----------------------------------------------------------------------------
(* What the changes are.                                                   *)

\* buildDirectMediaNormalization: objects of no variant set. Mutant: only those
\* whose card is there.
Uncovered_Shown(s) == {k \in s.objects : k \notin s.sets /\ OwnerOf(k) \in s.cards}
Uncovered(s) ==
    {k \in s.objects : k \notin s.sets /\ \A r \in Writers \cap s.sets : k \notin MediaOf[r]}

Reserved(s) == [s EXCEPT !.total = @ + 1]
Recorded(k, s) == [s EXCEPT !.objects = @ \cup {k}]
Described(r, s) == [s EXCEPT !.sets = @ \cup {r}]
Shown(r, s) == [s EXCEPT !.cards = @ \cup {r}]

\* All of them, or as many as the limit allows. Which come first in the order of
\* their keys is left open.
Plans(s) == {p \in SUBSET Uncovered(s) : \/ p = Uncovered(s) /\ Cardinality(p) <= PlanLimit
                                        \/ Cardinality(p) = PlanLimit}
Normalized(s) == {[s EXCEPT !.sets = @ \cup p] : p \in Plans(s)}

Asked(task, a, s) ==
    CASE task = "reserve" -> {Reserved(s)}
      [] task = "record" -> {Recorded(a, s)}
      [] task = "describe" -> {Described(a, s)}
      [] task = "card" -> {Shown(a, s)}
      [] task = "normalize" -> Normalized(s)

\* mergeRecordMap, mergeRecordArray: what the writer added or changed, and what
\* he deleted.
MergeRecords(latest, base, new) == (latest \cup (new \ base)) \ (base \ new)

\* mergeUsage. Mutant: the writer's own count is written.
MergeTotal_Own(latest, base, new) == new
MergeTotal(latest, base, new) == latest + (new - base)

MergeState(latest, base, new) ==
    [objects |-> MergeRecords(latest.objects, base.objects, new.objects),
     sets |-> MergeRecords(latest.sets, base.sets, new.sets),
     cards |-> MergeRecords(latest.cards, base.cards, new.cards),
     total |-> MergeTotal(latest.total, base.total, new.total)]

\* Records of no variant set, neither their request's nor one of their own.
Lone(s) == {k \in s.objects : {k, OwnerOf(k)} \cap s.sets = {}}

WithinLimit(s) == s.total <= StorageLimit

-----------------------------------------------------------------------------
(* A change of the site state: updateSiteState through the adapter.        *)

Job_(a, to) == job' = [job EXCEPT ![a] = to]

\* The mutator runs on the copy that was read; it refuses to reserve too much
\* (reserveR2Usage), and has nothing to do when every object is described.
ReadState(a) ==
    /\ job[a].at = "read"
    /\ \E new \in Asked(job[a].task, a, site) :
          \/ /\ job[a].task = "reserve" /\ ~WithinLimit(new)
             /\ Job_(a, At("reserve", "failed"))
          \/ /\ job[a].task = "normalize" /\ new = site
             /\ Job_(a, At("normalize", "done"))
          \/ /\ job[a].task = "reserve" => WithinLimit(new)
             /\ job[a].task = "normalize" => new # site
             /\ Job_(a, [job[a] EXCEPT !.at = "queued", !.base = site, !.new = new])
    /\ UNCHANGED <<site, stored, holder, stage, late, backlog>>

\* stateWriteQueue. Mutant: writes do not wait for each other.
Free_Always(r) == TRUE
Free(r) == \A a \in AgentsOf(r) : job[a].at \notin {"latest", "put"}

TakeTurn(a) ==
    /\ job[a].at = "queued" /\ Free(OwnerOf(a))
    /\ Job_(a, [job[a] EXCEPT !.at = "latest", !.latest = site])
    /\ UNCHANGED <<site, stored, holder, stage, late, backlog>>

\* assertUsageWithinLimits and assertActive, then the put is on its way.
CheckWrite(a) ==
    LET merged == MergeState(job[a].latest, job[a].base, job[a].new)
    IN /\ job[a].at = "latest"
       /\ IF WithinLimit(merged) /\ holder = OwnerOf(a)
          THEN Job_(a, [At(job[a].task, "put") EXCEPT !.new = merged])
          ELSE Job_(a, At(job[a].task, "failed"))
       /\ UNCHANGED <<site, stored, holder, stage, late, backlog>>

\* What a job does after its change.
Following(task) ==
    CASE task = "reserve" -> At("reserve", "object")
      [] task = "record" -> At("record", "done")
      [] task = "describe" -> At("card", "read")
      [] task = "card" -> At("normalize", "read")
      [] task = "normalize" -> At("normalize", "done")

LandPut(a) ==
    /\ job[a].at = "put"
    /\ site' = job[a].new
    /\ Job_(a, Following(job[a].task))
    /\ UNCHANGED <<stored, holder, stage, late, backlog>>

PutFails(a) ==
    /\ job[a].at \in {"put", "object"}
    /\ Job_(a, At(job[a].task, "failed"))
    /\ UNCHANGED <<site, stored, holder, stage, late, backlog>>

-----------------------------------------------------------------------------
(* A request.                                                              *)

\* The lock is taken and the upserts start.
BeginWrites(r) ==
    /\ stage[r] = "new" /\ holder = Nobody
    /\ stage' = [stage EXCEPT ![r] = "writing"]
    /\ holder' = r
    /\ job' = [a \in Agents |->
                  IF a \in MediaOf[r] THEN At("reserve", "read") ELSE job[a]]
    /\ backlog' = Lone(site)
    /\ UNCHANGED <<site, stored, late>>

PutObject(k) ==
    /\ job[k].at = "object"
    /\ stored' = stored \cup {k}
    /\ Job_(k, At("record", "read"))
    /\ UNCHANGED <<site, holder, stage, late, backlog>>

\* All upserts have been answered: the variant set, the card and, when the
\* handler has returned, the sets of lone objects.
DescribeMedia(r) ==
    /\ stage[r] = "writing" /\ job[r].at = "rest"
    /\ \A k \in MediaOf[r] : job[k].at = "done"
    /\ Job_(r, At("describe", "read"))
    /\ UNCHANGED <<site, stored, holder, stage, late, backlog>>

Acknowledge(r) ==
    /\ stage[r] = "writing" /\ job[r].at = "done"
    /\ stage' = [stage EXCEPT ![r] = "saved"]
    /\ holder' = Nobody
    /\ UNCHANGED <<site, stored, job, late, backlog>>

\* Promise.all rejects with the first failure, and the lock is given back.
GiveUp(r) ==
    /\ stage[r] = "writing"
    /\ \E a \in AgentsOf(r) : job[a].at = "failed"
    /\ stage' = [stage EXCEPT ![r] = "failed"]
    /\ holder' = Nobody
    /\ late' = IF \E a \in AgentsOf(r) : job[a].at = "put" THEN late \cup {r} ELSE late
    /\ UNCHANGED <<site, stored, job, backlog>>

MediaNext ==
    \/ \E a \in Agents : \/ ReadState(a) \/ TakeTurn(a) \/ CheckWrite(a)
                         \/ LandPut(a) \/ PutFails(a)
    \/ \E k \in Keys : PutObject(k)
    \/ \E r \in Writers : \/ BeginWrites(r) \/ DescribeMedia(r)
                          \/ Acknowledge(r) \/ GiveUp(r)

MediaSpec == MediaInit /\ [][MediaNext]_mediaVars

-----------------------------------------------------------------------------
(* Properties. The first and the last hold as long as no write of a        *)
(* request that has ended is on its way.                                   *)

\* What a request has saved stays: no upsert beside it, no leftover of another
\* request and no later request takes away its card, its set, its records or
\* its objects.
SavedMediaStays ==
    late = {} =>
        \A r \in Writers : stage[r] = "saved" =>
            /\ r \in site.cards \cap site.sets
            /\ MediaOf[r] \subseteq site.objects \cap stored

\* Every object in the bucket is counted, and the count is within the limit.
StorageIsCounted ==
    /\ site.total <= StorageLimit
    /\ late = {} => Cardinality(stored) <= site.total

\* When a request is answered, every record is of a variant set, those too that a
\* failed one left, for reconciliation finds detached media by its set. If there
\* were more of them than one plan takes, it has described a whole plan of those
\* it found and added none (worker.js:524), so that a backlog shrinks by every
\* request that is answered.
LeftoversAreDescribed ==
    [][\A r \in Writers :
          late = {} /\ stage[r] # "saved" /\ stage'[r] = "saved"
              => \/ Lone(site) = {}
                 \/ /\ Lone(site) \subseteq backlog
                    /\ Cardinality(Lone(site)) + PlanLimit <= Cardinality(backlog)]_mediaVars
=================================================================================
