----------------------------- MODULE VisitorsProofs -----------------------------
(***************************************************************************)
(* What holds of the requests of visitors: which of them the limits let    *)
(* through, which media they are served, and what they do to favorites.    *)
(*                                                                         *)
(* Of Counters: the windows of the limits and the counts of the bucket     *)
(* operations hold for every number of callers, limits and requests, every *)
(* lag of the clocks and every length of the windows.                      *)
(*                                                                         *)
(* Of PublicMedia: the list of public media for any keys, any number of    *)
(* public requests and of changes to the site. The inductive invariant     *)
(* says where the mutator can be for each marker: while a claim stands     *)
(* nobody changes the state, so what the claimant read is still shown. The *)
(* rows, and whatever a request has read, were shown at some time.         *)
(*                                                                         *)
(* Of Favorites: what listings drop, for any cards, tabs and requests. A   *)
(* card that was found is there or was deleted from then on, so a row that *)
(* a listing reads, and whose card it then does not find, lost its card.   *)
(***************************************************************************)
EXTENDS Counters, PublicMedia, Favorites, TLAPS

-----------------------------------------------------------------------------
(* The limits.                                                             *)

RowType == [start : Nat, count : Nat, expires : Nat]
WindowType == [opened : Int, before : Int, allowed : Nat]

\* A row does not expire, and is not deleted, before its window has lasted
\* long enough; and it counts at least what it has allowed.
SlotInv(s) ==
    /\ row[s] # None =>
           /\ window[s].opened + Window[s] - Lag <= row[s].expires
           /\ window[s].allowed <= row[s].count
    /\ row[s] = None => window[s].opened + Window[s] - Lag <= now
    /\ window[s].allowed <= Limit[s]
    /\ window[s].opened - window[s].before >= Window[s] - Lag

WindowInv ==
    /\ now \in Nat
    /\ row \in [Slots -> RowType \cup {None}]
    /\ window \in [Slots -> WindowType]
    /\ \A s \in Slots : SlotInv(s)

LEMMA ConstantTypes ==
    ASSUME NEW s \in Slots
    PROVE  /\ Window[s] \in Nat \ {0} /\ Limit[s] \in Nat \ {0} /\ Lag \in Nat
           /\ None \notin RowType
  BY CountersAssumption DEF CountersAssumption, RowType

\* A statement of consumeAtomicRateLimit keeps the invariant of its slot.
LEMMA CountedSlot ==
    ASSUME WindowInv, NEW s \in Slots, NEW at \in Clock
    PROVE  /\ Counted(s, at) \in RowType
           /\ Observed(s, at) \in WindowType
           /\ Observed(s, at).opened + Window[s] - Lag <= Counted(s, at).expires
           /\ Observed(s, at).allowed <= Counted(s, at).count
           /\ Observed(s, at).allowed <= Limit[s]
           /\ Observed(s, at).opened - Observed(s, at).before >= Window[s] - Lag
  <1>1. /\ now \in Nat /\ Lag \in Nat /\ Window[s] \in Nat \ {0} /\ Limit[s] \in Nat \ {0}
        /\ SlotInv(s) /\ window[s] \in WindowType
    BY ConstantTypes DEF WindowInv
  <1>2. at \in Nat /\ now - Lag <= at /\ at <= now
    BY <1>1 DEF Clock
  <1>3. window[s].opened \in Int /\ window[s].before \in Int /\ window[s].allowed \in Nat
    BY <1>1 DEF WindowType
  <1>4. One(s, at) \in {0, 1} /\ (One(s, at) = 1 => Counted(s, at).count <= Limit[s])
    BY DEF One, Allowed
  <1>5. CASE Opens(s, at)
    <2>1. Counted(s, at) = [start |-> at, count |-> 1, expires |-> at + Window[s]]
      BY <1>5 DEF Counted, Fresh
    <2>2. Observed(s, at) =
              [opened |-> now, before |-> window[s].opened, allowed |-> One(s, at)]
      BY <1>5 DEF Observed
    <2>3. window[s].opened + Window[s] - Lag <= now
      <3>1. CASE row[s] = None
        BY <3>1, <1>1 DEF SlotInv
      <3>2. CASE row[s] # None
        <4>1. row[s].expires <= at /\ row[s].expires \in Nat
          BY <1>5, <3>2 DEF Opens, WindowInv, RowType
        <4>2. window[s].opened + Window[s] - Lag <= row[s].expires
          BY <1>1, <3>2 DEF SlotInv
        <4> QED BY <4>1, <4>2, <1>1, <1>2, <1>3
      <3> QED BY <3>1, <3>2
    <2>4. Counted(s, at) \in RowType
      BY <2>1, <1>1, <1>2 DEF RowType
    <2>5. Observed(s, at) \in WindowType
      BY <2>2, <1>1, <1>3, <1>4 DEF WindowType
    <2>6. /\ Counted(s, at).expires = at + Window[s] /\ Counted(s, at).count = 1
          /\ Observed(s, at).opened = now /\ Observed(s, at).before = window[s].opened
          /\ Observed(s, at).allowed = One(s, at)
      BY <2>1, <2>2
    <2> QED BY <2>3, <2>4, <2>5, <2>6, <1>1, <1>2, <1>3, <1>4
  <1>6. CASE ~Opens(s, at)
    <2>1. row[s] # None /\ row[s] \in RowType
      BY <1>6 DEF Opens, WindowInv
    <2>2. row[s].start \in Nat /\ row[s].count \in Nat /\ row[s].expires \in Nat
      BY <2>1 DEF RowType
    <2>3. Counted(s, at) = [start |-> row[s].start, count |-> row[s].count + 1,
                            expires |-> row[s].expires]
      BY <1>6 DEF Counted
    <2>4. Observed(s, at) =
              [opened |-> window[s].opened, before |-> window[s].before,
               allowed |-> window[s].allowed + One(s, at)]
      BY <1>6 DEF Observed
    <2>5. Counted(s, at) \in RowType
      BY <2>2, <2>3 DEF RowType
    <2>6. Observed(s, at) \in WindowType
      BY <2>4, <1>3, <1>4 DEF WindowType
    <2>7. /\ Counted(s, at).expires = row[s].expires
          /\ Counted(s, at).count = row[s].count + 1
          /\ Observed(s, at).opened = window[s].opened
          /\ Observed(s, at).before = window[s].before
          /\ Observed(s, at).allowed = window[s].allowed + One(s, at)
      BY <2>3, <2>4
    <2>8. /\ window[s].opened + Window[s] - Lag <= row[s].expires
          /\ window[s].allowed <= row[s].count /\ window[s].allowed <= Limit[s]
          /\ window[s].opened - window[s].before >= Window[s] - Lag
      BY <1>1, <2>1 DEF SlotInv
    <2> QED BY <2>2, <2>5, <2>6, <2>7, <2>8, <1>1, <1>3, <1>4
  <1> QED BY <1>5, <1>6

LEMMA ConsumeKeeps ==
    ASSUME WindowInv, NEW s \in Slots, NEW at \in Clock, Consume(s, at), UNCHANGED now
    PROVE  WindowInv'
  <1>1. /\ row \in [Slots -> RowType \cup {None}] /\ window \in [Slots -> WindowType]
        /\ now' \in Nat
    BY DEF WindowInv
  <1>2. Counted(s, at) \in RowType /\ Observed(s, at) \in WindowType
    BY CountedSlot
  <1>3. row' \in [Slots -> RowType \cup {None}] /\ window' \in [Slots -> WindowType]
    BY <1>1, <1>2 DEF Consume
  <1>4. ASSUME NEW t \in Slots PROVE SlotInv(t)'
    <2>1. CASE t = s
      <3>1. row'[t] = Counted(s, at) /\ window'[t] = Observed(s, at)
        BY <2>1, <1>1 DEF Consume
      <3>2. row'[t] # None
        BY <3>1, <1>2, ConstantTypes
      <3> QED BY <2>1, <3>1, <3>2, CountedSlot DEF SlotInv
    <2>2. CASE t # s
      <3>1. row'[t] = row[t] /\ window'[t] = window[t]
        BY <2>2, <1>1 DEF Consume
      <3> QED BY <3>1 DEF SlotInv, WindowInv
    <2> QED BY <2>1, <2>2
  <1> QED BY <1>1, <1>3, <1>4 DEF WindowInv

LEMMA WindowInit == CountersInit => WindowInv
  <1> SUFFICES ASSUME CountersInit PROVE WindowInv
    OBVIOUS
  <1>1. now = 0 /\ row = [s \in Slots |-> None] /\ window = [s \in Slots |-> NoWindow(s)]
    BY DEF CountersInit
  <1>2. ASSUME NEW s \in Slots
        PROVE  NoWindow(s) \in WindowType /\ SlotInv(s)
    <2>1. Window[s] \in Nat \ {0} /\ Limit[s] \in Nat \ {0} /\ Lag \in Nat
      BY ConstantTypes
    <2>2. row[s] = None /\ window[s] = NoWindow(s)
      BY <1>1
    <2>3. NoWindow(s) \in WindowType
      BY <2>1 DEF NoWindow, WindowType
    <2>4. /\ window[s].opened = 0 - Window[s] /\ window[s].before = 0 - 2 * Window[s]
          /\ window[s].allowed = 0
      BY <2>2 DEF NoWindow
    <2> QED BY <1>1, <2>1, <2>2, <2>3, <2>4 DEF SlotInv
  <1> QED BY <1>1, <1>2 DEF WindowInv

LEMMA WindowNext == WindowInv /\ [CountersNext]_countersVars => WindowInv'
  <1> SUFFICES ASSUME WindowInv, [CountersNext]_countersVars PROVE WindowInv'
    OBVIOUS
  <1>1. ASSUME UNCHANGED <<now, row, window>> PROVE WindowInv'
    BY <1>1 DEF WindowInv, SlotInv
  <1>2. ASSUME NEW at \in Clock, CleanUp(at) PROVE WindowInv'
    <2>1. /\ now \in Nat /\ Lag \in Nat /\ at \in Nat /\ at <= now
      BY CountersAssumption DEF WindowInv, Clock, CountersAssumption
    <2>2. /\ row' = [s \in Slots |-> IF Stale(s, at) THEN None ELSE row[s]]
          /\ now' = now /\ window' = window
      BY <1>2 DEF CleanUp
    <2>3. row' \in [Slots -> RowType \cup {None}]
      BY <2>2 DEF WindowInv
    <2>4. ASSUME NEW s \in Slots PROVE SlotInv(s)'
      <3>1. /\ Window[s] \in Nat /\ window[s].opened \in Int /\ SlotInv(s)
            /\ row[s] \in RowType \cup {None}
        BY ConstantTypes DEF WindowInv, WindowType
      <3>2. CASE Stale(s, at)
        <4>1. row'[s] = None /\ row[s] # None /\ row[s].expires <= at
          BY <3>2, <2>2 DEF Stale
        <4>2. row[s].expires \in Nat
          BY <4>1, <3>1 DEF RowType
        <4>3. window[s].opened + Window[s] - Lag <= now
          BY <4>1, <4>2, <3>1, <2>1 DEF SlotInv
        <4> QED BY <4>1, <4>3, <3>1, <2>2 DEF SlotInv
      <3>3. CASE ~Stale(s, at)
        <4>1. row'[s] = row[s]
          BY <3>3, <2>2
        <4> QED BY <4>1, <3>1, <2>2 DEF SlotInv
      <3> QED BY <3>2, <3>3
    <2> QED BY <2>2, <2>3, <2>4 DEF WindowInv
  <1>3. ASSUME Tick PROVE WindowInv'
    <2>1. now \in Nat /\ now' = now + 1 /\ row' = row /\ window' = window
      BY <1>3 DEF Tick, limits, WindowInv
    <2>2. ASSUME NEW s \in Slots PROVE SlotInv(s)'
      <3>1. Window[s] \in Nat /\ Lag \in Nat /\ window[s].opened \in Int /\ SlotInv(s)
        BY ConstantTypes DEF WindowInv, WindowType
      <3> QED BY <3>1, <2>1 DEF SlotInv
    <2> QED BY <2>1, <2>2 DEF WindowInv
  <1>4. ASSUME NEW at \in Clock, NEW c \in Callers, AskFirst(c, at) PROVE WindowInv'
    <2>1. Chain[c] \in Seq(Slots) /\ Chain[c] # <<>>
      BY CountersAssumption DEF CountersAssumption
    <2>2. Chain[c][1] \in Slots
      BY <2>1
    <2>3. Consume(Chain[c][1], at) /\ UNCHANGED now
      BY <1>4 DEF AskFirst
    <2> QED BY <2>2, <2>3, ConsumeKeeps
  <1>5. ASSUME NEW at \in Clock, NEW w \in Waits, AskNext(w[1], w[2], at) PROVE WindowInv'
    <2>1. PICK c \in Callers : w \in {c} \X (1..(Len(Chain[c]) - 1))
      BY DEF Waits
    <2>2. w[1] = c /\ w[2] \in 1..(Len(Chain[c]) - 1)
      BY <2>1
    <2>3. Chain[c] \in Seq(Slots)
      BY CountersAssumption DEF CountersAssumption
    <2>4. w[2] + 1 \in 1..Len(Chain[c])
      BY <2>2, <2>3
    <2>5. Chain[w[1]][w[2] + 1] \in Slots
      BY <2>2, <2>3, <2>4
    <2>6. Consume(Chain[w[1]][w[2] + 1], at) /\ UNCHANGED now
      BY <1>5 DEF AskNext
    <2> QED BY <2>5, <2>6, ConsumeKeeps
  <1>6. ASSUME NEW c \in Classes, \/ Reserve(c) \/ RefuseCall(c)
                                  \/ \E p \in Periods : Call(p, c) \/ Die(p, c)
        PROVE  WindowInv'
    BY <1>1, <1>6 DEF Reserve, RefuseCall, Call, Die, limits
  <1>7. ASSUME NextMonth PROVE WindowInv'
    BY <1>1, <1>7 DEF NextMonth, limits
  <1>8. ASSUME UNCHANGED countersVars PROVE WindowInv'
    BY <1>1, <1>8 DEF countersVars, limits
  <1> QED BY <1>2, <1>3, <1>4, <1>5, <1>6, <1>7, <1>8 DEF CountersNext

\* However late the clocks of the isolates are, however requests interleave and
\* whenever rows are deleted (rate-limit.js:17), each window of each limit keeps
\* to its limit and its length.
THEOREM LimitsHold == CountersSpec => []WindowsHold
  <1>1. WindowInv => WindowsHold
    BY DEF WindowInv, SlotInv, WindowsHold
  <1> QED BY <1>1, WindowInit, WindowNext, PTL DEF CountersSpec

-----------------------------------------------------------------------------
(* Bucket operations.                                                      *)

CallInv ==
    /\ period \in Periods
    /\ count \in [Periods -> [Classes -> Nat]]
    /\ reserved \in [Periods -> [Classes -> Nat]]
    /\ calls \in [Periods -> [Classes -> Nat]]
    /\ CallsAreCounted

LEMMA Added ==
    ASSUME NEW table \in [Periods -> [Classes -> Nat]], NEW p \in Periods,
           NEW c \in Classes, NEW n, table[p][c] + n \in Nat
    PROVE  /\ Add(table, p, c, n) \in [Periods -> [Classes -> Nat]]
           /\ Add(table, p, c, n)[p][c] = table[p][c] + n
           /\ \A q \in Periods, d \in Classes :
                 <<q, d>> # <<p, c>> => Add(table, p, c, n)[q][d] = table[q][d]
  <1> DEFINE line == [table[p] EXCEPT ![c] = table[p][c] + n]
  <1>1. Add(table, p, c, n) = [table EXCEPT ![p] = line]
    BY DEF Add
  <1>2. table[p] \in [Classes -> Nat]
    OBVIOUS
  <1>3. line \in [Classes -> Nat] /\ line[c] = table[p][c] + n
    BY <1>2
  <1>4. \A d \in Classes : d # c => line[d] = table[p][d]
    BY <1>2
  <1> HIDE DEF line
  <1>5. Add(table, p, c, n) \in [Periods -> [Classes -> Nat]]
    BY <1>1, <1>3
  <1>6. Add(table, p, c, n)[p] = line
    BY <1>1
  <1>7. \A q \in Periods : q # p => Add(table, p, c, n)[q] = table[q]
    BY <1>1
  <1> QED BY <1>3, <1>4, <1>5, <1>6, <1>7

LEMMA CallInit == CountersInit => CallInv
  <1> SUFFICES ASSUME CountersInit PROVE CallInv
    OBVIOUS
  <1>1. /\ period = 0 /\ count = [p \in Periods |-> [c \in Classes |-> 0]]
        /\ reserved = count /\ calls = count
    BY DEF CountersInit
  <1>2. MaxPeriod \in Nat /\ \A c \in Classes : CallLimit[c] \in Nat
    BY CountersAssumption DEF CountersAssumption
  <1>3. period \in Periods
    BY <1>1, <1>2 DEF Periods
  <1>4. count \in [Periods -> [Classes -> Nat]]
    BY <1>1
  <1>5. CallsAreCounted
    BY <1>1, <1>2 DEF CallsAreCounted
  <1> QED BY <1>1, <1>3, <1>4, <1>5 DEF CallInv

LEMMA CallNext == CallInv /\ [CountersNext]_countersVars => CallInv'
  <1> SUFFICES ASSUME CallInv, [CountersNext]_countersVars PROVE CallInv'
    OBVIOUS
  <1>0. /\ MaxPeriod \in Nat /\ period \in Periods
        /\ count \in [Periods -> [Classes -> Nat]]
        /\ reserved \in [Periods -> [Classes -> Nat]]
        /\ calls \in [Periods -> [Classes -> Nat]]
        /\ \A q \in Periods, d \in Classes :
              /\ count[q][d] \in Nat /\ reserved[q][d] \in Nat /\ calls[q][d] \in Nat
              /\ CallLimit[d] \in Nat
              /\ calls[q][d] + reserved[q][d] <= count[q][d]
              /\ count[q][d] <= CallLimit[d]
    BY CountersAssumption DEF CallInv, CallsAreCounted, CountersAssumption
  <1>1. ASSUME UNCHANGED <<period, operations>> PROVE CallInv'
    BY <1>1 DEF CallInv, CallsAreCounted, operations
  <1>2. ASSUME NEW c \in Classes, Reserve(c) PROVE CallInv'
    <2>1. /\ count' = Add(count, period, c, 1) /\ reserved' = Add(reserved, period, c, 1)
          /\ calls' = calls /\ period' = period /\ count[period][c] + 1 <= CallLimit[c]
      BY <1>2 DEF Reserve, Fits
    <2>2. /\ count' \in [Periods -> [Classes -> Nat]]
          /\ count'[period][c] = count[period][c] + 1
          /\ \A q \in Periods, d \in Classes :
                <<q, d>> # <<period, c>> => count'[q][d] = count[q][d]
      <3>0. count \in [Periods -> [Classes -> Nat]] /\ period \in Periods
        BY <1>0
      <3>1. count[period][c] + 1 \in Nat
        BY <1>0
      <3>2. /\ Add(count, period, c, 1) \in [Periods -> [Classes -> Nat]]
            /\ Add(count, period, c, 1)[period][c] = count[period][c] + 1
            /\ \A q \in Periods, d \in Classes : <<q, d>> # <<period, c>> =>
                  Add(count, period, c, 1)[q][d] = count[q][d]
        BY <3>0, <3>1, Added
      <3> QED BY <2>1, <3>2
    <2>3. /\ reserved' \in [Periods -> [Classes -> Nat]]
          /\ reserved'[period][c] = reserved[period][c] + 1
          /\ \A q \in Periods, d \in Classes :
                <<q, d>> # <<period, c>> => reserved'[q][d] = reserved[q][d]
      <3>0. reserved \in [Periods -> [Classes -> Nat]] /\ period \in Periods
        BY <1>0
      <3>1. reserved[period][c] + 1 \in Nat
        BY <1>0
      <3>2. /\ Add(reserved, period, c, 1) \in [Periods -> [Classes -> Nat]]
            /\ Add(reserved, period, c, 1)[period][c] = reserved[period][c] + 1
            /\ \A q \in Periods, d \in Classes : <<q, d>> # <<period, c>> =>
                  Add(reserved, period, c, 1)[q][d] = reserved[q][d]
        BY <3>0, <3>1, Added
      <3> QED BY <2>1, <3>2
    <2>4. ASSUME NEW q \in Periods, NEW d \in Classes
          PROVE  calls'[q][d] + reserved'[q][d] <= count'[q][d] /\ count'[q][d] <= CallLimit[d]
      <3>1. CASE <<q, d>> = <<period, c>>
        BY <3>1, <1>0, <2>1, <2>2, <2>3
      <3>2. CASE <<q, d>> # <<period, c>>
        BY <3>2, <1>0, <2>1, <2>2, <2>3
      <3> QED BY <3>1, <3>2
    <2> QED BY <1>0, <2>1, <2>2, <2>3, <2>4 DEF CallInv, CallsAreCounted
  <1>3. ASSUME NEW c \in Classes, NEW p \in Periods, Call(p, c) \/ Die(p, c)
        PROVE  CallInv'
    <2>1. /\ reserved[p][c] > 0 /\ reserved' = Add(reserved, p, c, -1)
          /\ count' = count /\ period' = period
          /\ calls' = calls \/ calls' = Add(calls, p, c, 1)
      BY <1>3 DEF Call, Die
    <2>2. /\ reserved' \in [Periods -> [Classes -> Nat]]
          /\ reserved'[p][c] = reserved[p][c] - 1
          /\ \A q \in Periods, d \in Classes :
                <<q, d>> # <<p, c>> => reserved'[q][d] = reserved[q][d]
      <3>0. reserved \in [Periods -> [Classes -> Nat]]
        BY <1>0
      <3>1. reserved[p][c] + (-1) \in Nat /\ reserved[p][c] + (-1) = reserved[p][c] - 1
        BY <1>0, <2>1
      <3>2. /\ Add(reserved, p, c, (-1)) \in [Periods -> [Classes -> Nat]]
            /\ Add(reserved, p, c, (-1))[p][c] = reserved[p][c] + (-1)
            /\ \A q \in Periods, d \in Classes : <<q, d>> # <<p, c>> =>
                  Add(reserved, p, c, (-1))[q][d] = reserved[q][d]
        BY <3>0, <3>1, Added
      <3> QED BY <2>1, <3>1, <3>2
    <2>3. /\ calls' \in [Periods -> [Classes -> Nat]]
          /\ calls'[p][c] \in {calls[p][c], calls[p][c] + 1}
          /\ \A q \in Periods, d \in Classes :
                <<q, d>> # <<p, c>> => calls'[q][d] = calls[q][d]
      <3>0. calls \in [Periods -> [Classes -> Nat]]
        BY <1>0
      <3>1. calls[p][c] + 1 \in Nat
        BY <1>0
      <3>2. /\ Add(calls, p, c, 1) \in [Periods -> [Classes -> Nat]]
            /\ Add(calls, p, c, 1)[p][c] = calls[p][c] + 1
            /\ \A q \in Periods, d \in Classes : <<q, d>> # <<p, c>> =>
                  Add(calls, p, c, 1)[q][d] = calls[q][d]
        BY <3>0, <3>1, Added
      <3>3. CASE calls' = Add(calls, p, c, 1)
        BY <3>2, <3>3
      <3>4. CASE calls' = calls
        BY <1>0, <3>4
      <3> QED BY <2>1, <3>3, <3>4
    <2>4. ASSUME NEW q \in Periods, NEW d \in Classes
          PROVE  calls'[q][d] + reserved'[q][d] <= count'[q][d] /\ count'[q][d] <= CallLimit[d]
      <3>1. CASE <<q, d>> = <<p, c>>
        BY <3>1, <1>0, <2>1, <2>2, <2>3
      <3>2. CASE <<q, d>> # <<p, c>>
        BY <3>2, <1>0, <2>1, <2>2, <2>3
      <3> QED BY <3>1, <3>2
    <2> QED BY <1>0, <2>1, <2>2, <2>3, <2>4 DEF CallInv, CallsAreCounted
  <1>4. ASSUME NEW c \in Classes, RefuseCall(c) PROVE CallInv'
    BY <1>1, <1>4 DEF RefuseCall
  <1>5. ASSUME NextMonth PROVE CallInv'
    <2>1. period < MaxPeriod /\ period' = period + 1 /\ UNCHANGED operations
      BY <1>5 DEF NextMonth
    <2>2. period' \in Periods
      BY <1>0, <2>1 DEF Periods
    <2> QED BY <1>0, <2>1, <2>2 DEF CallInv, CallsAreCounted, operations
  <1>6. ASSUME Tick PROVE CallInv'
    BY <1>1, <1>6 DEF Tick
  <1>7. ASSUME NEW at \in Clock, CleanUp(at) PROVE CallInv'
    BY <1>1, <1>7 DEF CleanUp
  <1>8. ASSUME NEW at \in Clock, NEW c \in Callers, AskFirst(c, at) PROVE CallInv'
    BY <1>1, <1>8 DEF AskFirst
  <1>9. ASSUME NEW at \in Clock, NEW w \in Waits, AskNext(w[1], w[2], at) PROVE CallInv'
    BY <1>1, <1>9 DEF AskNext
  <1>10. ASSUME UNCHANGED countersVars PROVE CallInv'
    BY <1>1, <1>10 DEF countersVars
  <1> QED BY <1>2, <1>3, <1>4, <1>5, <1>6, <1>7, <1>8, <1>9, <1>10 DEF CountersNext

\* Whatever number of requests reserves from one month's counter
\* (r2-usage-boundary.js:60), the calls that are made are within the limit.
THEOREM CallsWithinLimit == CountersSpec => []CallsAreCounted
  <1>1. CallInv => CallsAreCounted
    BY DEF CallInv
  <1> QED BY <1>1, CallInit, CallNext, PTL DEF CountersSpec

-----------------------------------------------------------------------------
(* The list of public media.                                               *)

\* A list that may be claimed, or is, has no request that changes the site; a
\* commit finds and keeps a trusted list.
MarkerFollowsMutator ==
    /\ marker \in {"absent", "claimed"} => mutator = "none"
    /\ mutator \in {"unlisted", "written"} => marker = "ready"

\* What a commit takes from the list, or will add to it, is what it takes from
\* the state and adds to it.
CommitFollowsState ==
    /\ mutator = "unlisted" => removed \subseteq shown
    /\ mutator = "written" => added \subseteq shown

\* What the holder of a claim has read is what is shown.
ClaimIsFresh ==
    \A r \in Readers : claimant = r /\ pc[r] = "install" => seen[r] = shown

\* A key whose row is to be repaired was shown when the state was read.
RepairsWereShown ==
    \A r \in Readers : pc[r] \in {"check", "insert"} => key[r] \in seen[r]

\* Everything that is listed, or was read, was shown at some time; what was shown
\* at all times is shown now.
ListedWasShown ==
    /\ shown \subseteq everShown /\ rows \subseteq everShown
    /\ removed \subseteq everShown
    /\ \A r \in Readers : seen[r] \subseteq everShown
    /\ alwaysShown \subseteq shown

IInv ==
    /\ TypeOK /\ MarkerFollowsMutator /\ CommitFollowsState
    /\ ClaimIsFresh /\ RepairsWereShown /\ ListedWasShown
    /\ OnlyPublishedMediaIsServed /\ ShownMediaIsNeverRefused

USE SentinelAssumption, BoundAssumption

\* Before any request, the invariant holds.
LEMMA InitEstablishesIInv == Init => IInv
<1> SUFFICES ASSUME Init PROVE IInv
  OBVIOUS
<1>1. marker \in {"absent", "ready"} /\ rows \subseteq shown /\ rows \in SUBSET Keys
  BY DEF Init
<1>2. TypeOK
  BY <1>1 DEF Init, TypeOK, Answered
<1>3. MarkerFollowsMutator /\ CommitFollowsState
  BY DEF Init, MarkerFollowsMutator, CommitFollowsState
<1>4. \A r \in Readers : pc[r] = "new" /\ seen[r] = {}
  BY DEF Init
<1>5. ClaimIsFresh /\ RepairsWereShown /\ OnlyPublishedMediaIsServed
      /\ ShownMediaIsNeverRefused
  BY <1>4 DEF ClaimIsFresh, RepairsWereShown, OnlyPublishedMediaIsServed,
     ShownMediaIsNeverRefused
<1>6. ListedWasShown
  BY <1>1, <1>4 DEF Init, ListedWasShown
<1> QED
  BY <1>2, <1>3, <1>5, <1>6 DEF IInv

\* Each step keeps the types of the variables.
LEMMA TypeCorrect == TypeOK /\ RepairsWereShown /\ [Next]_vars => TypeOK'
<1> SUFFICES ASSUME TypeOK, RepairsWereShown, [Next]_vars PROVE TypeOK'
  OBVIOUS
<1> USE DEF TypeOK, registry, writer, reader, history, Answered
<1>1. CASE MutatorStep
  <2>1. CASE Clear
    BY <2>1 DEF Clear, BeginMutation
  <2>2. CASE ChangeState \/ CommitPut
    BY <2>2 DEF ChangeState, CommitPut, Show
  <2>3. CASE Synchronize
    BY <2>3 DEF Synchronize, ReplaceRows
  <2>4. CASE CommitUnlist
    BY <2>4 DEF CommitUnlist, BeginMutation
  <2>5. CASE CommitRollBack \/ CommitList
    BY <2>5 DEF CommitRollBack, CommitList, EndCommit
  <2>6. CASE AbortMutation
    BY <2>6 DEF AbortMutation, EndCommit
  <2> QED
    BY <1>1, <2>1, <2>2, <2>3, <2>4, <2>5, <2>6 DEF MutatorStep
<1>2. CASE Maintain
  BY <1>2 DEF Maintain, ReplaceRows
<1>3. ASSUME NEW r \in Readers, ReaderStep(r) PROVE TypeOK'
  <2>1. CASE Ask(r) \/ ClaimRead(r) \/ LookUpMarker(r) \/ LookUpRow(r)
    BY <2>1 DEF Ask, ClaimRead, LookUpMarker, LookUpRow, Goto, ReadState
  <2>2. CASE ClaimOrPass(r)
    BY <2>2 DEF ClaimOrPass, Goto
  <2>3. CASE ClaimInstall(r)
    BY <2>3 DEF ClaimInstall, Goto
  <2>4. CASE ClaimFails(r)
    BY <2>4 DEF ClaimFails, Goto
  <2>5. CASE RepairRead(r) \/ RepairCheck(r)
    BY <2>5 DEF RepairRead, RepairCheck, Goto, ReadState, Serve
  <2>6. CASE RepairInsert(r)
    <3>1. key[r] \in Keys
      BY <2>6 DEF RepairInsert, RepairsWereShown
    <3> QED
      BY <2>6, <3>1 DEF RepairInsert, Goto, Serve
  <2> QED
    BY <1>3, <2>1, <2>2, <2>3, <2>4, <2>5, <2>6 DEF ReaderStep
<1>4. CASE UNCHANGED vars
  BY <1>4 DEF vars
<1> QED
  BY <1>1, <1>2, <1>3, <1>4 DEF Next

\* Each step keeps the list and the request that changes the site in step.
LEMMA MarkerStays == IInv /\ [Next]_vars => MarkerFollowsMutator'
<1> SUFFICES ASSUME TypeOK, MarkerFollowsMutator, [Next]_vars
             PROVE  MarkerFollowsMutator'
  BY DEF IInv
<1> USE DEF MarkerFollowsMutator, registry, writer
<1>1. CASE MutatorStep
  BY <1>1 DEF MutatorStep, Clear, ChangeState, Synchronize, CommitUnlist, CommitPut,
     CommitRollBack, CommitList, AbortMutation, BeginMutation, EndCommit,
     ReplaceRows, TypeOK
<1>2. CASE Maintain
  BY <1>2 DEF Maintain, ReplaceRows
<1>3. ASSUME NEW r \in Readers, ClaimOrPass(r) \/ ClaimInstall(r) \/ ClaimFails(r)
      PROVE  MarkerFollowsMutator'
  BY <1>3 DEF ClaimOrPass, ClaimInstall, ClaimFails, TypeOK
<1>4. CASE UNCHANGED <<marker, mutator>>
  BY <1>4
<1> QED
  BY <1>1, <1>2, <1>3, <1>4 DEF Next, vars, ReaderStep, Ask, ClaimRead, LookUpMarker,
     LookUpRow, RepairRead, RepairCheck, RepairInsert

\* Each step keeps a commit in step with the state.
LEMMA CommitStays == IInv /\ [Next]_vars => CommitFollowsState'
<1> SUFFICES ASSUME CommitFollowsState, [Next]_vars PROVE CommitFollowsState'
  BY DEF IInv
<1> USE DEF CommitFollowsState, registry, writer
<1>1. CASE MutatorStep
  BY <1>1 DEF MutatorStep, Clear, ChangeState, Synchronize, CommitUnlist, CommitPut,
     CommitRollBack, CommitList, AbortMutation, BeginMutation, EndCommit, Show
<1>2. CASE UNCHANGED <<writer, shown>>
  BY <1>2
<1> QED
  BY <1>1, <1>2 DEF Next, vars, Maintain, ReaderStep, Ask, ClaimOrPass, ClaimRead,
     ClaimInstall, ClaimFails, LookUpMarker, LookUpRow, RepairRead, RepairCheck,
     RepairInsert

\* Each step leaves the holder of a claim with what is shown: the state changes
\* only when there is no claim.
LEMMA ClaimStaysFresh == IInv /\ [Next]_vars => ClaimIsFresh'
<1> SUFFICES ASSUME TypeOK, MarkerFollowsMutator, ClaimIsFresh, [Next]_vars,
                    NEW r \in Readers, claimant' = r, pc'[r] = "install"
             PROVE  seen'[r] = shown'
  BY DEF IInv, ClaimIsFresh
<1> USE DEF registry, writer, reader
<1>1. CASE MutatorStep
  <2>1. claimant = r /\ UNCHANGED reader
    BY <1>1 DEF MutatorStep, Clear, ChangeState, Synchronize, CommitUnlist, CommitPut,
       CommitRollBack, CommitList, AbortMutation, ReplaceRows, SentinelAssumption
  <2>2. mutator = "none"
    BY <2>1 DEF TypeOK, MarkerFollowsMutator
  <2>3. UNCHANGED shown
    BY <1>1, <2>2 DEF MutatorStep, Clear, ChangeState, Synchronize, CommitUnlist,
       CommitPut, CommitRollBack, CommitList, AbortMutation
  <2> QED
    BY <2>1, <2>3 DEF ClaimIsFresh
<1>2. CASE Maintain
  BY <1>2 DEF Maintain, ReplaceRows
<1>3. ASSUME NEW q \in Readers, ReaderStep(q) PROVE seen'[r] = shown'
  <2>1. CASE q = r
    <3>1. ClaimRead(r)
      BY <1>3, <2>1 DEF ReaderStep, Ask, ClaimOrPass, ClaimInstall, ClaimFails,
         LookUpMarker, LookUpRow, RepairRead, RepairCheck, RepairInsert, Serve,
         Goto, TypeOK
    <3> QED
      BY <3>1 DEF ClaimRead, ReadState, TypeOK
  <2>2. CASE q # r
    <3>1. pc'[r] = pc[r] /\ seen'[r] = seen[r] /\ UNCHANGED shown
      BY <1>3, <2>2 DEF ReaderStep, Ask, ClaimOrPass, ClaimRead, ClaimInstall,
         ClaimFails, LookUpMarker, LookUpRow, RepairRead, RepairCheck,
         RepairInsert, Serve, ReadState, Goto, TypeOK
    <3>2. claimant = r
      BY <1>3, <2>2 DEF ReaderStep, Ask, ClaimOrPass, ClaimRead, ClaimInstall,
         ClaimFails, LookUpMarker, LookUpRow, RepairRead, RepairCheck,
         RepairInsert
    <3> QED
      BY <3>1, <3>2 DEF ClaimIsFresh
  <2> QED
    BY <2>1, <2>2
<1>4. CASE UNCHANGED vars
  BY <1>4 DEF vars, ClaimIsFresh
<1> QED
  BY <1>1, <1>2, <1>3, <1>4 DEF Next

\* A step moves one public request at most.
LEMMA OneReaderMoves ==
    ASSUME TypeOK, [Next]_vars, NEW r \in Readers
    PROVE  \/ ReaderStep(r)
           \/ pc'[r] = pc[r] /\ key'[r] = key[r] /\ seen'[r] = seen[r]
<1>1. CASE MutatorStep \/ Maintain \/ UNCHANGED vars
  BY <1>1 DEF MutatorStep, Clear, ChangeState, Synchronize, CommitUnlist, CommitPut,
     CommitRollBack, CommitList, AbortMutation, Maintain, vars, reader
<1>2. ASSUME NEW q \in Readers, ReaderStep(q), q # r
      PROVE  pc'[r] = pc[r] /\ key'[r] = key[r] /\ seen'[r] = seen[r]
  BY <1>2 DEF ReaderStep, Ask, ClaimOrPass, ClaimRead, ClaimInstall, ClaimFails,
     LookUpMarker, LookUpRow, RepairRead, RepairCheck, RepairInsert, Serve,
     ReadState, Goto, TypeOK, reader
<1> QED
  BY <1>1, <1>2 DEF Next

\* Each step keeps the keys under repair among those that were read.
LEMMA RepairsStayShown == IInv /\ [Next]_vars => RepairsWereShown'
<1> SUFFICES ASSUME TypeOK, RepairsWereShown, [Next]_vars,
                    NEW r \in Readers, pc'[r] \in {"check", "insert"}
             PROVE  key'[r] \in seen'[r]
  BY DEF IInv, RepairsWereShown
<1>1. CASE ReaderStep(r)
  BY <1>1 DEF ReaderStep, Ask, ClaimOrPass, ClaimRead, ClaimInstall, ClaimFails,
     LookUpMarker, LookUpRow, RepairRead, RepairCheck, RepairInsert, Serve,
     ReadState, Goto, TypeOK, RepairsWereShown
<1> QED
  BY <1>1, OneReaderMoves DEF RepairsWereShown

\* The state changes for the request that has the lock; what was shown at some time
\* grows, and what was shown at all times shrinks.
LEMMA HistoryFollowsState ==
    [Next]_vars => \/ UNCHANGED <<shown, everShown, alwaysShown>>
                   \/ /\ everShown' = everShown \cup shown'
                      /\ alwaysShown' = alwaysShown \cap shown'
                      /\ UNCHANGED <<rows, pc, key, seen>>
  BY DEF Next, vars, history, registry, reader, Show, MutatorStep, Clear, ChangeState,
     Synchronize, CommitUnlist, CommitPut, CommitRollBack, CommitList, AbortMutation,
     Maintain, ReaderStep, Ask, ClaimOrPass, ClaimRead, ClaimInstall, ClaimFails,
     LookUpMarker, LookUpRow, RepairRead, RepairCheck, RepairInsert

\* What a step adds to the list is shown, or was read, or is put back by a commit
\* whose put has stored its removal.
LEMMA RowsGained ==
    ASSUME IInv, [Next]_vars, NEW k \in rows', k \notin rows
    PROVE  \/ k \in shown'
           \/ \E r \in Readers : k \in seen[r]
           \/ mutator = "written" /\ k \in removed
<1> USE DEF IInv, registry
<1>1. CASE Clear
  BY <1>1 DEF Clear
<1>2. CASE Synchronize \/ Maintain
  BY <1>2 DEF Synchronize, Maintain, ReplaceRows
<1>3. CASE CommitUnlist
  BY <1>3 DEF CommitUnlist
<1>4. CASE CommitRollBack \/ CommitList
  BY <1>4 DEF CommitRollBack, CommitList, CommitFollowsState
<1>5. ASSUME NEW r \in Readers, ClaimInstall(r) \/ RepairInsert(r)
      PROVE  k \in seen[r]
  BY <1>5 DEF ClaimInstall, RepairInsert, RepairsWereShown
<1>6. ASSUME UNCHANGED rows PROVE FALSE
  BY <1>6
<1> QED
  BY <1>1, <1>2, <1>3, <1>4, <1>5, <1>6 DEF Next, vars, MutatorStep, ChangeState,
     CommitPut, AbortMutation, ReaderStep, Ask, ClaimOrPass, ClaimRead, ClaimFails,
     LookUpMarker, LookUpRow, RepairRead, RepairCheck

\* Each step keeps what is listed and read among what was shown.
LEMMA ListedStays == IInv /\ [Next]_vars => ListedWasShown'
<1> SUFFICES ASSUME IInv, [Next]_vars PROVE ListedWasShown'
  OBVIOUS
<1>1. shown' \subseteq everShown' /\ alwaysShown' \subseteq shown'
      /\ everShown \subseteq everShown'
  BY HistoryFollowsState DEF IInv, ListedWasShown
<1>2. rows' \subseteq everShown'
  BY <1>1, RowsGained DEF IInv, ListedWasShown
<1>3. removed' \subseteq everShown'
  <2>1. CASE CommitUnlist
    BY <1>1, <2>1 DEF CommitUnlist, IInv, ListedWasShown
  <2>2. CASE ~ CommitUnlist
    <3>1. removed' \subseteq removed
      BY <2>2 DEF Next, vars, writer, MutatorStep, Clear, ChangeState, Synchronize,
         CommitPut, CommitRollBack, CommitList, AbortMutation, EndCommit, Maintain,
         BeginMutation, ReaderStep, Ask, ClaimOrPass, ClaimRead, ClaimInstall,
         ClaimFails, LookUpMarker, LookUpRow, RepairRead, RepairCheck, RepairInsert
    <3> QED
      BY <1>1, <3>1 DEF IInv, ListedWasShown
  <2> QED
    BY <2>1, <2>2
<1>4. ASSUME NEW r \in Readers PROVE seen'[r] \subseteq everShown'
  <2>1. seen'[r] \in {seen[r], shown, {}}
    <3>1. CASE ReaderStep(r)
      BY <3>1 DEF ReaderStep, Ask, ClaimOrPass, ClaimRead, ClaimInstall, ClaimFails,
         LookUpMarker, LookUpRow, RepairRead, RepairCheck, RepairInsert, Serve,
         ReadState, TypeOK, IInv
    <3> QED
      BY <3>1, OneReaderMoves DEF IInv
  <2> QED
    BY <1>1, <2>1 DEF IInv, ListedWasShown
<1> QED
  BY <1>1, <1>2, <1>3, <1>4 DEF ListedWasShown

\* Each step that serves media has found it in the list or in the state.
LEMMA ServedStays == IInv /\ [Next]_vars => OnlyPublishedMediaIsServed'
<1> SUFFICES ASSUME IInv, [Next]_vars, NEW r \in Readers, pc'[r] = "served"
             PROVE  key'[r] \in everShown'
  BY DEF OnlyPublishedMediaIsServed
<1>1. everShown \subseteq everShown'
  BY HistoryFollowsState
<1>2. CASE ReaderStep(r)
  <2>1. LookUpRow(r) \/ RepairCheck(r) \/ RepairInsert(r)
    BY <1>2 DEF ReaderStep, Ask, ClaimOrPass, ClaimRead, ClaimInstall, ClaimFails,
       LookUpMarker, RepairRead, Goto, TypeOK, IInv
  <2>2. key'[r] = key[r] /\ (key[r] \in rows \/ key[r] \in seen[r])
    BY <1>2, <2>1 DEF LookUpRow, RepairCheck, RepairInsert, Goto, TypeOK, IInv,
       RepairsWereShown, reader
  <2> QED
    BY <1>1, <2>2 DEF IInv, ListedWasShown
<1>3. CASE pc'[r] = pc[r] /\ key'[r] = key[r]
  BY <1>1, <1>3 DEF IInv, OnlyPublishedMediaIsServed
<1> QED
  BY <1>2, <1>3, OneReaderMoves DEF IInv

\* Each step that refuses media has not found it in the state.
LEMMA RefusedStays == IInv /\ [Next]_vars => ShownMediaIsNeverRefused'
<1> SUFFICES ASSUME IInv, [Next]_vars, NEW r \in Readers, pc'[r] = "refused"
             PROVE  key'[r] \notin alwaysShown'
  BY DEF ShownMediaIsNeverRefused
<1>1. alwaysShown' \subseteq alwaysShown
  BY HistoryFollowsState
<1>2. CASE ReaderStep(r)
  <2>1. RepairRead(r)
    BY <1>2 DEF ReaderStep, Ask, ClaimOrPass, ClaimRead, ClaimInstall, ClaimFails,
       LookUpMarker, LookUpRow, RepairCheck, RepairInsert, Serve, Goto, TypeOK, IInv
  <2>2. key'[r] = key[r] /\ key[r] \notin shown
    BY <1>2, <2>1 DEF RepairRead, Goto, TypeOK, IInv
  <2> QED
    BY <1>1, <2>2 DEF IInv, ListedWasShown
<1>3. CASE pc'[r] = pc[r] /\ key'[r] = key[r]
  BY <1>1, <1>3 DEF IInv, ShownMediaIsNeverRefused
<1> QED
  BY <1>2, <1>3, OneReaderMoves DEF IInv

\* The step that makes the list trusted makes it exact.
LEMMA TrustedIsExact ==
    ASSUME IInv, [Next]_vars, marker # "ready", marker' = "ready"
    PROVE  rows' = shown'
<1> USE DEF IInv, registry
<1>1. CASE Synchronize \/ Maintain
  BY <1>1 DEF Synchronize, Maintain, ReplaceRows
<1>2. ASSUME NEW r \in Readers, ClaimInstall(r) PROVE rows' = shown'
  <2>1. claimant = r /\ pc[r] = "install" /\ rows' = seen[r] /\ shown' = shown
    BY <1>2 DEF ClaimInstall
  <2> QED
    BY <2>1 DEF ClaimIsFresh
<1>3. ASSUME NEW r \in Readers, ClaimOrPass(r) \/ ClaimFails(r) PROVE FALSE
  BY <1>3 DEF ClaimOrPass, ClaimFails
<1>4. CASE Clear
  BY <1>4 DEF Clear
<1>5. ASSUME UNCHANGED marker PROVE FALSE
  BY <1>5
<1> QED
  BY <1>1, <1>2, <1>3, <1>4, <1>5 DEF Next, vars, MutatorStep, ChangeState,
     CommitUnlist, CommitPut, CommitRollBack, CommitList, AbortMutation, ReaderStep,
     Ask, ClaimRead, LookUpMarker, LookUpRow, RepairRead, RepairCheck, RepairInsert

-----------------------------------------------------------------------------

\* Each step keeps the invariant.
LEMMA StepKeepsIInv == IInv /\ [Next]_vars => IInv'
  BY TypeCorrect, MarkerStays, CommitStays, ClaimStaysFresh, RepairsStayShown,
     ListedStays, ServedStays, RefusedStays DEF IInv

\* In whatever order public requests, changes and maintenance run, the invariant
\* holds.
THEOREM InvariantHolds == Spec => []IInv
<1>1. IInv /\ UNCHANGED vars => IInv'
  BY StepKeepsIInv
<1> QED
  BY InitEstablishesIInv, StepKeepsIInv, PTL DEF Spec

\* The variables keep their types.
THEOREM TypesHold == Spec => []TypeOK
<1>1. IInv => TypeOK
  BY DEF IInv
<1> QED
  BY <1>1, InvariantHolds, PTL

\* Nothing is served that no stored state has shown (public-delivery.js,
\* isPublicMediaKey).
THEOREM ServedWasPublished == Spec => []OnlyPublishedMediaIsServed
<1>1. IInv => OnlyPublishedMediaIsServed
  BY DEF IInv
<1> QED
  BY <1>1, InvariantHolds, PTL

\* Nothing that every stored state has shown is refused, whatever becomes of the
\* list (public-delivery.js, repairAndAuthorizeLiveMediaKey).
THEOREM ShownIsServed == Spec => []ShownMediaIsNeverRefused
<1>1. IInv => ShownMediaIsNeverRefused
  BY DEF IInv
<1> QED
  BY <1>1, InvariantHolds, PTL

\* Only a public read that saw an older state, or the rollback of a removal that
\* was stored, adds a row for a key that is not shown (public-delivery.js,
\* repairAndAuthorizeLiveMediaKey; worker.js, handleEditorCardCommit).
THEOREM RowsAreReadOrShown == Spec => StaleRowsHaveTwoSources
<1>1. IInv /\ [Next]_vars =>
        [\A k \in rows' \ rows :
            \/ k \in shown'
            \/ \E r \in Readers : k \in seen[r]
            \/ mutator = "written" /\ k \in removed]_vars
  BY RowsGained
<1> QED
  BY <1>1, InvariantHolds, PTL DEF Spec, StaleRowsHaveTwoSources

\* The list is exact whenever it becomes trusted (public-media-registry.js,
\* replaceClaimedPublicMediaRegistry).
THEOREM TrustIsGivenToExactLists == Spec => RebuiltListIsExact
<1>1. IInv /\ [Next]_vars =>
        [marker # "ready" /\ marker' = "ready" => rows' = shown']_vars
  BY TrustedIsExact
<1> QED
  BY <1>1, InvariantHolds, PTL DEF Spec, RebuiltListIsExact

-----------------------------------------------------------------------------
(* The favorites.                                                          *)

\* A card that is marked, or that a request has read or is about to mark, is
\* there or was deleted; what a listing takes for deleted,
\* until it drops it, was.
Known == cards \cup deleted

KnownIn(r) ==
    /\ r.list \subseteq Known /\ r.dead \subseteq deleted
    /\ r.dead # {} => r.step = "drop"
    /\ r.step \in {"check", "change"} => r.card \in Cards
    /\ r.step = "change" /\ r.kind = "add" => r.card \in Known

FavoritesInv ==
    /\ FavoritesTypeOK
    /\ favorites \subseteq Known
    /\ \A j \in Jobs : job[j].step # "free" => KnownIn(job[j])

\* A request under way is one of the requests.
LEMMA Underway ==
    ASSUME FavoritesTypeOK, NEW j \in Jobs, job[j].step # "free"
    PROVE  job[j] \in Request
BY DEF FavoritesTypeOK, Free

\* Before any toggle, the invariant holds.
LEMMA FavoritesStart == FavoritesInit => FavoritesInv
BY CardAssumption, ActsAssumption
DEF FavoritesInit, FavoritesInv, FavoritesTypeOK, Known, Free, Idle, Removal

\* A step that replaces one request by another that is typed, and whose cards
\* are known, leaves the others as they were.
LEMMA OneJobMoves ==
    ASSUME FavoritesInv, NEW j \in Jobs, NEW r \in Request,
           job' = [job EXCEPT ![j] = r], UNCHANGED <<cards, deleted>>,
           r.list \cap r.dead = {}, KnownIn(r)
    PROVE  /\ job' \in [Jobs -> Request \cup {Free}]
           /\ \A i \in Jobs : job'[i].step # "free" =>
                                job'[i].list \cap job'[i].dead = {}
           /\ \A i \in Jobs : job'[i].step # "free" => KnownIn(job[i])'
<1>1. \A i \in Jobs : job'[i] = IF i = j THEN r ELSE job[i]
  BY DEF FavoritesInv, FavoritesTypeOK
<1>2. job' \in [Jobs -> Request \cup {Free}]
  BY DEF FavoritesInv, FavoritesTypeOK
<1>3. ASSUME NEW i \in Jobs, job'[i].step # "free"
      PROVE  job'[i].list \cap job'[i].dead = {} /\ KnownIn(job[i])'
  <2>1. CASE i = j
    BY <1>1, <2>1 DEF KnownIn, Known
  <2>2. CASE i # j
    BY <1>1, <1>3, <2>2 DEF FavoritesInv, FavoritesTypeOK, KnownIn, Known
  <2> QED BY <2>1, <2>2
<1> QED BY <1>2, <1>3

\* So does one that ends a request.
LEMMA OneJobEnds ==
    ASSUME FavoritesInv, NEW j \in Jobs, Finish(j), UNCHANGED <<cards, deleted>>
    PROVE  /\ job' \in [Jobs -> Request \cup {Free}]
           /\ \A i \in Jobs : job'[i].step # "free" =>
                                job'[i].list \cap job'[i].dead = {}
           /\ \A i \in Jobs : job'[i].step # "free" => KnownIn(job[i])'
<1>1. \A i \in Jobs : job'[i] = IF i = j THEN Free ELSE job[i]
  BY DEF FavoritesInv, FavoritesTypeOK, Finish
<1> QED
  BY <1>1 DEF FavoritesInv, FavoritesTypeOK, Finish, Free, KnownIn, Known

\* A request starts from what its tab shows, and knows no favorite yet.
LEMMA NewJobIsTyped ==
    ASSUME FavoritesTypeOK, NEW step \in Steps, NEW kind \in Kinds,
           NEW t \in Tabs, NEW k \in Cards \cup {NoCard},
           NEW swords \in SUBSET Cards
    PROVE  LET r == NewJob(step, kind, t, k, swords)
           IN  /\ r \in Request /\ r.list = {} /\ r.dead = {}
               /\ r.step = step /\ r.kind = kind /\ r.card = k
BY DEF FavoritesTypeOK, NewJob, Request

\* The steps of a tab keep the invariant.
LEMMA TabKeeps ==
    ASSUME FavoritesInv, NEW j \in Jobs, NEW t \in Tabs,
           Refresh(j, t) \/ Load(j, t) \/ \E k \in Cards : Toggle(j, t, k)
    PROVE  FavoritesInv'
<1> USE DEF FavoritesInv
<1>1. PICK r \in Request :
        /\ job' = [job EXCEPT ![j] = r]
        /\ r.list = {} /\ r.dead = {} /\ KnownIn(r)
  <2>1. CASE Refresh(j, t)
    <3> DEFINE r == NewJob("rows", "list", t, NoCard, {})
    <3>1. r \in Request /\ r.list = {} /\ r.dead = {} /\ r.step = "rows"
      BY DEF NewJob, Request, Steps, Kinds
    <3>2. job' = [job EXCEPT ![j] = r]
      BY <2>1 DEF Refresh
    <3> HIDE DEF r
    <3> QED BY <3>1, <3>2 DEF KnownIn
  <2>2. CASE Load(j, t)
    <3> PICK swords \in SUBSET Cards :
          job' = [job EXCEPT ![j] = NewJob("rows", "load", t, NoCard, swords)]
      BY <2>2 DEF Load
    <3> DEFINE r == NewJob("rows", "load", t, NoCard, swords)
    <3>1. r \in Request /\ r.list = {} /\ r.dead = {} /\ r.step = "rows"
      BY NewJobIsTyped DEF Steps, Kinds
    <3>2. job' = [job EXCEPT ![j] = r]
      OBVIOUS
    <3> HIDE DEF r
    <3> QED BY <3>1, <3>2 DEF KnownIn
  <2>3. CASE \E k \in Cards : Toggle(j, t, k)
    <3> PICK k \in Cards : Toggle(j, t, k)
      BY <2>3
    <3> DEFINE r == IF k \in view[t] THEN NewJob("change", "remove", t, k, {})
                    ELSE NewJob("check", "add", t, k, {})
    <3>1. r \in Request /\ r.list = {} /\ r.dead = {} /\ r.card = k
          /\ r.step \in {"check", "change"}
          /\ ~ (r.step = "change" /\ r.kind = "add")
      BY NewJobIsTyped DEF Steps, Kinds
    <3>2. job' = [job EXCEPT ![j] = r]
      BY DEF Toggle
    <3> HIDE DEF r
    <3> QED BY <3>1, <3>2 DEF KnownIn
  <2> QED BY <2>1, <2>2, <2>3
<1>2. UNCHANGED <<cards, deleted, favorites, known, session, prune, changes, faults>>
  BY DEF Refresh, Load, Toggle, tab, counters
<1>3. view' \in [Tabs -> SUBSET Cards] /\ acts' \in 0..MaxActs
  BY ActsAssumption DEF Refresh, Load, Toggle, FavoritesTypeOK, tab, counters
<1>4. /\ job' \in [Jobs -> Request \cup {Free}]
      /\ \A i \in Jobs : job'[i].step # "free" =>
                           job'[i].list \cap job'[i].dead = {}
      /\ \A i \in Jobs : job'[i].step # "free" => KnownIn(job[i])'
  BY <1>1, <1>2, OneJobMoves
<1> QED BY <1>2, <1>3, <1>4 DEF FavoritesTypeOK, Known

\* An answer, and a failure that puts back what the tab showed, keep it.
LEMMA AnswerKeeps ==
    ASSUME FavoritesInv, NEW j \in Jobs, Answer(j) \/ Undo(j)
    PROVE  FavoritesInv'
<1> USE DEF FavoritesInv
<1>1. job[j] \in Request
  BY Underway DEF Answer, Undo
<1>2. Finish(j) /\ UNCHANGED <<cards, deleted, favorites, prune, counters>>
  BY DEF Answer, Undo
<1>3. /\ known' \in [Tabs -> SUBSET Cards] /\ session' \in [Tabs -> SUBSET Cards]
      /\ view' \in [Tabs -> SUBSET Cards]
  BY <1>1 DEF Answer, Undo, ApplySwords, FavoritesTypeOK, Request, tab
<1>4. /\ job' \in [Jobs -> Request \cup {Free}]
      /\ \A i \in Jobs : job'[i].step # "free" =>
                           job'[i].list \cap job'[i].dead = {}
      /\ \A i \in Jobs : job'[i].step # "free" => KnownIn(job[i])'
  BY <1>2, OneJobEnds
<1> QED BY <1>2, <1>3, <1>4 DEF FavoritesTypeOK, Known, counters

\* The steps of a request keep the invariant: a card is marked only when it
\* was found, and a listing takes for deleted only what it read and then did
\* not find.
LEMMA RequestKeeps ==
    ASSUME FavoritesInv, NEW j \in Jobs,
           \/ Check(j) \/ Change(j) \/ ListRows(j) \/ Reconcile(j) \/ Drop(j)
           \/ Fail(j)
    PROVE  FavoritesInv'
<1> USE DEF FavoritesInv
<1> DEFINE o == job[j]
<1>1. o \in Request /\ o.list \cap o.dead = {} /\ KnownIn(o)
  <2>1. o.step # "free"
    BY DEF Check, Change, ListRows, Reconcile, Drop, Fail
  <2> QED BY <2>1, Underway DEF FavoritesTypeOK
<1>2. PICK r \in Request :
        /\ job' = [job EXCEPT ![j] = r]
        /\ r.list \cap r.dead = {} /\ KnownIn(r)
  <2>1. CASE Check(j)
    <3> DEFINE r == [o EXCEPT !.step = IF Exists(o.card) THEN "change"
                                       ELSE "error"]
    <3>1. job' = [job EXCEPT ![j] = r]
      BY <2>1 DEF Check, Step
    <3>2. r \in Request /\ r.list \cap r.dead = {} /\ KnownIn(r)
      BY <1>1, <2>1 DEF Check, Request, Steps, KnownIn, Known, Exists
    <3> QED BY <3>1, <3>2
  <2>2. CASE Change(j)
    <3> DEFINE r == [o EXCEPT !.step = "rows", !.card = NoCard]
    <3>1. job' = [job EXCEPT ![j] = r]
      BY <2>2 DEF Change
    <3>2. r \in Request /\ r.list \cap r.dead = {} /\ KnownIn(r)
      BY <1>1, <2>2 DEF Change, Request, Steps, KnownIn
    <3> QED BY <3>1, <3>2
  <2>3. CASE ListRows(j)
    <3> DEFINE r == [o EXCEPT !.step = "state", !.list = favorites]
    <3>1. job' = [job EXCEPT ![j] = r]
      BY <2>3 DEF ListRows
    <3>2. r \in Request /\ r.list \cap r.dead = {} /\ KnownIn(r)
      BY <1>1, <2>3 DEF ListRows, Request, Steps, KnownIn, FavoritesTypeOK
    <3> QED BY <3>1, <3>2
  <2>4. CASE Reconcile(j)
    <3> DEFINE gone == o.list \ cards
               r == [o EXCEPT !.list = Alive(o.list), !.dead = gone,
                              !.step = IF gone = {} THEN "answer" ELSE "drop"]
    <3>1. job' = [job EXCEPT ![j] = r]
      BY <2>4 DEF Reconcile
    <3>2. r \in Request /\ r.list \cap r.dead = {} /\ KnownIn(r)
      BY <1>1 DEF Request, Steps, KnownIn, Known, Alive
    <3> QED BY <3>1, <3>2
  <2>5. CASE Drop(j)
    <3> DEFINE r == [o EXCEPT !.step = "answer", !.dead = {}]
    <3>1. job' = [job EXCEPT ![j] = r]
      BY <2>5 DEF Drop
    <3>2. r \in Request /\ r.list \cap r.dead = {} /\ KnownIn(r)
      BY <1>1 DEF Request, Steps, KnownIn
    <3> QED BY <3>1, <3>2
  <2>6. CASE Fail(j)
    <3> DEFINE r == [o EXCEPT !.step = "error", !.card = NoCard, !.list = {},
                              !.dead = {}]
    <3>1. job' = [job EXCEPT ![j] = r]
      BY <2>6 DEF Fail
    <3>2. r \in Request /\ r.list \cap r.dead = {} /\ KnownIn(r)
      BY <1>1 DEF Request, Steps, KnownIn
    <3> QED BY <3>1, <3>2
  <2> QED BY <2>1, <2>2, <2>3, <2>4, <2>5, <2>6
<1>3. UNCHANGED <<cards, deleted, tab, prune>>
  BY DEF Check, Change, ListRows, Reconcile, Drop, Fail
<1>4. /\ job' \in [Jobs -> Request \cup {Free}]
      /\ \A i \in Jobs : job'[i].step # "free" =>
                           job'[i].list \cap job'[i].dead = {}
      /\ \A i \in Jobs : job'[i].step # "free" => KnownIn(job[i])'
  BY <1>2, <1>3, OneJobMoves
<1>5. favorites' \subseteq Cards /\ favorites' \subseteq Known
  BY <1>1 DEF Check, Change, ListRows, Reconcile, Drop, Fail, FavoritesTypeOK,
              KnownIn, Request
<1>6. /\ acts' \in 0..MaxActs /\ changes' \in 0..MaxChanges
      /\ faults' \in 0..MaxFaults
  BY ActsAssumption
  DEF Check, Change, ListRows, Reconcile, Drop, Fail, FavoritesTypeOK, counters
<1> QED BY <1>3, <1>4, <1>5, <1>6 DEF FavoritesTypeOK, Known, tab

\* So do the scheduled removal and the cards that come and go.
LEMMA OthersKeep ==
    ASSUME FavoritesInv,
           \/ PruneState \/ PruneRows \/ PruneDrop
           \/ \E k \in Cards : AddCard(k) \/ DeleteCard(k)
           \/ \E t \in Tabs, k \in Cards : ApplyEdit(t, k)
           \/ UNCHANGED favoritesVars
    PROVE  FavoritesInv'
<1> USE DEF FavoritesInv
<1>1. CASE PruneState \/ PruneRows \/ PruneDrop
  <2>1. UNCHANGED <<cards, tab, job, deleted, counters>>
        /\ favorites' \subseteq favorites
    BY <1>1 DEF PruneState, PruneRows, PruneDrop
  <2>2. prune' \in Removal
    BY <1>1 DEF PruneState, PruneRows, PruneDrop, FavoritesTypeOK, Removal, Idle
  <2> QED BY <2>1, <2>2 DEF FavoritesTypeOK, KnownIn, Known, tab, counters
<1>2. CASE \E k \in Cards : AddCard(k) \/ DeleteCard(k)
  <2>1. /\ UNCHANGED <<favorites, tab, job, prune, acts, faults>>
        /\ cards' \subseteq Cards /\ deleted' \subseteq Cards
        /\ deleted \subseteq deleted' /\ Known \subseteq Known'
    BY <1>2 DEF AddCard, DeleteCard, FavoritesTypeOK, Known
  <2>2. changes' \in 0..MaxChanges
    BY <1>2, ActsAssumption DEF AddCard, DeleteCard, FavoritesTypeOK
  <2> QED BY <2>1, <2>2 DEF FavoritesTypeOK, KnownIn, tab
<1>3. CASE \E t \in Tabs, k \in Cards : ApplyEdit(t, k)
  <2>1. UNCHANGED <<cards, favorites, job, prune, deleted, changes, faults>>
        /\ acts' \in 0..MaxActs
    BY <1>3, ActsAssumption DEF ApplyEdit, FavoritesTypeOK
  <2>2. /\ known' \in [Tabs -> SUBSET Cards] /\ session' \in [Tabs -> SUBSET Cards]
        /\ view' \in [Tabs -> SUBSET Cards]
    BY <1>3 DEF ApplyEdit, ApplySwords, FavoritesTypeOK
  <2> QED BY <2>1, <2>2 DEF FavoritesTypeOK, KnownIn, Known
<1>4. CASE UNCHANGED favoritesVars
  BY <1>4 DEF favoritesVars, FavoritesTypeOK, KnownIn, Known, tab, counters
<1> QED BY <1>1, <1>2, <1>3, <1>4

LEMMA FavoritesStep ==
    FavoritesInv /\ [FavoritesNext]_favoritesVars => FavoritesInv'
<1> SUFFICES ASSUME FavoritesInv, [FavoritesNext]_favoritesVars
             PROVE  FavoritesInv'
  OBVIOUS
<1>1. ASSUME NEW j \in Jobs, NEW t \in Tabs,
             Refresh(j, t) \/ Load(j, t) \/ \E k \in Cards : Toggle(j, t, k)
      PROVE  FavoritesInv'
  BY <1>1, TabKeeps
<1>2. ASSUME NEW j \in Jobs, Progress(j) \/ Fail(j)
      PROVE  FavoritesInv'
  BY <1>2, AnswerKeeps, RequestKeeps DEF Progress
<1>3. CASE \/ PruneState \/ PruneRows \/ PruneDrop
           \/ \E k \in Cards : AddCard(k) \/ DeleteCard(k)
           \/ \E t \in Tabs, k \in Cards : ApplyEdit(t, k)
           \/ UNCHANGED favoritesVars
  BY <1>3, OthersKeep
<1> QED BY <1>1, <1>2, <1>3 DEF FavoritesNext

\* Every favorite stored is of a card there is or was, and what a listing is
\* about to drop was deleted, for any cards, tabs and requests at a time.
THEOREM FavoritesAreKnown == FavoritesSpec => []FavoritesInv
<1>1. FavoritesInit => FavoritesInv
  BY FavoritesStart
<1>2. FavoritesInv /\ [FavoritesNext]_favoritesVars => FavoritesInv'
  BY FavoritesStep
<1> QED BY <1>1, <1>2, PTL DEF FavoritesSpec

\* Requests take away only favorites whose user removes them or whose card
\* has been deleted: a listing reads the rows before the site state, so that a
\* row without a card had one that went.
THEOREM ListingsSpareTheLiving == FavoritesSpec => ListingsDropDeletedOnly
<1> DEFINE A == \A k \in favorites \ favorites' :
                  \/ k \in deleted
                  \/ PruneDrop
                  \/ \E j \in Jobs : Change(j) /\ job[j].card = k
<1>1. FavoritesInv /\ [FavoritesNext]_favoritesVars => [A]_favoritesVars
  <2> SUFFICES ASSUME FavoritesInv, FavoritesNext,
                      NEW k \in favorites \ favorites', ~ PruneDrop
               PROVE  \/ k \in deleted
                      \/ \E j \in Jobs : Change(j) /\ job[j].card = k
    BY DEF favoritesVars
  <2>1. PICK j \in Jobs : Drop(j) \/ Change(j)
    BY DEF FavoritesNext, Progress, Refresh, Load, Toggle, ApplyEdit, Check,
           ListRows, Reconcile, Answer, Undo, Fail, PruneState, PruneRows, AddCard, DeleteCard
  <2>2. CASE Drop(j)
    BY <2>2 DEF Drop, FavoritesInv, KnownIn
  <2>3. CASE Change(j)
    BY <2>3 DEF Change
  <2> QED BY <2>1, <2>2, <2>3
<1>2. FavoritesSpec => []FavoritesInv
  BY FavoritesAreKnown
<1> QED BY <1>1, <1>2, PTL DEF FavoritesSpec, ListingsDropDeletedOnly
=================================================================================
