------------------------- MODULE ClientCache_proofs -------------------------
(* Theorems about ClientCache for every set of pages, queries, operations  *)
(* and accounts.                                                           *)
EXTENDS ClientCache, TLAPS

-----------------------------------------------------------------------------
(* What a step may make of an entry that is on the screen, or is not:      *)
(* without the screen changing, and when it changes.                       *)
ReadBy(e) == [e EXCEPT !.fetch = "read", !.read = ownWrites, !.reader = session]
Answered(e) ==
  [Stopped(e) EXCEPT !.data = e.read, !.owner = e.reader, !.fresh = TRUE, !.passed = e.late]
Aged(e) == [e EXCEPT !.fresh = FALSE]

Moves(e, f, shown) ==
  \/ f = e
  \/ (~HasData(e) \/ shown) /\ f = Asked(e)
  \/ e.fetch = "asked" /\ session # NoOne /\ f = ReadBy(e)
  \/ e.fetch = "read" /\ f = Answered(e)
  \/ f = Aged(Stopped(e))
  \/ f = Aged(e)
  \/ ~shown /\ f = NoEntry
  \/ f = Invalidated(e, shown)

Remade(e, f) == f = e \/ f = Stopped(e) \/ f = Remounted(e) \/ f = Remounted(Stopped(e))

LEMMA Bounds == MaxWrites \in Nat \ {0} /\ CallSlots \in Nat \ {0}
BY ClientCacheAssumption

LEMMA EntryTypes ==
  ASSUME NEW e \in Entries
  PROVE  /\ Asked(e) \in Entries /\ Stopped(e) \in Entries /\ Remounted(e) \in Entries
         /\ Aged(e) \in Entries
         /\ \A shown \in BOOLEAN : Invalidated(e, shown) \in Entries
<1>0. 0 \in 0 .. MaxWrites
  BY Bounds
<1>1. /\ Asked(e) \in Entries /\ Stopped(e) \in Entries /\ Remounted(e) \in Entries
      /\ Aged(e) \in Entries
  <2>1. Asked(e) \in Entries
    BY <1>0 DEF Entries, Asked
  <2>2. Stopped(e) \in Entries
    BY <1>0 DEF Entries, Stopped
  <2>3. Remounted(e) \in Entries
    BY <2>1 DEF Remounted
  <2>4. Aged(e) \in Entries
    BY DEF Entries, Aged
  <2>5. QED
    BY <2>1, <2>2, <2>3, <2>4
<1>2. Asked(Aged(e)) \in Entries
  BY <1>0, <1>1 DEF Entries, Asked, Aged
<1>3. [e EXCEPT !.late = TRUE] \in Entries
  BY DEF Entries
<1>4. ASSUME NEW shown \in BOOLEAN PROVE Invalidated(e, shown) \in Entries
  <2>1. \/ Invalidated(e, shown) = [e EXCEPT !.late = TRUE] \/ Invalidated(e, shown) = Asked(e)
        \/ Invalidated(e, shown) = e \/ Invalidated(e, shown) = Asked(Aged(e))
        \/ Invalidated(e, shown) = Aged(e)
    BY DEF Entries, Invalidated, Aged
  <2>2. QED
    BY <1>1, <1>2, <1>3, <2>1
<1>5. QED
  BY <1>1, <1>4

LEMMA NoEntryType == NoEntry \in Entries
BY Bounds DEF NoEntry, Entries, NoData

LEMMA MovesTypes ==
  ASSUME ClientTypeOK, NEW e \in Entries, NEW f, NEW shown \in BOOLEAN,
         Moves(e, f, shown) \/ Remade(e, f)
  PROVE  f \in Entries
<1>1. ownWrites \in 0 .. MaxWrites /\ session \in Accounts \cup {NoOne}
  BY DEF ClientTypeOK
<1>2. ReadBy(e) \in Entries
  BY <1>1 DEF Entries, ReadBy
<1>3. Answered(e) \in Entries
  BY EntryTypes DEF Entries, Answered, Stopped
<1>4. Stopped(e) \in Entries /\ Asked(e) \in Entries /\ Remounted(e) \in Entries /\ Aged(e) \in Entries
  BY EntryTypes
<1>5. Remounted(Stopped(e)) \in Entries /\ Aged(Stopped(e)) \in Entries
  BY <1>4, EntryTypes
<1>6. QED
  BY <1>2, <1>3, <1>4, <1>5, EntryTypes, NoEntryType DEF Moves, Remade

LEMMA ScreenMoves ==
  ASSUME ClientTypeOK, NEW layers, Screen(layers)
  PROVE  cache' = [q \in followed |-> cache'[q]] /\ \A q \in followed : Remade(cache[q], cache'[q])
BY DEF Screen, Remade

LEMMA ProceedMoves ==
  ASSUME ClientTypeOK, NEW c, NEW call, Proceed(c, call)
  PROVE  cache' = [q \in followed |-> cache'[q]] /\ \A q \in followed : Moves(cache[q], cache'[q], q \in Active)
<1>1. \/ UNCHANGED cache
      \/ \E Q : cache' = [r \in followed |->
                  IF r \in Q THEN Invalidated(cache[r], r \in Active) ELSE cache[r]]
  BY Zenon DEF Proceed
<1>2. \A q : (q \in Active) \in BOOLEAN
  OBVIOUS
<1>3. QED
  BY <1>1, <1>2 DEF Moves, ClientTypeOK

(* The cache follows its rules, and the screen stays.                      *)
Moved ==
  /\ followed' = followed /\ cache' = [q \in followed |-> cache'[q]]
  /\ (session' = session \/ session' = NoOne)
  /\ Active' = Active
  /\ \A q \in followed : Moves(cache[q], cache'[q], q \in Active)

LEMMA ActiveStays ==
  ASSUME followed' = followed, at' = at
  PROVE  Active' = Active
BY DEF Active, ShownBy, OnScreen

LEMMA ReadMoves ==
  ASSUME ClientTypeOK, NEW q \in followed, ReadStep(q)
  PROVE  Moved
<1> USE DEF ClientTypeOK, Moved
<1>0. followed' = followed /\ at' = at => Active' = Active
  BY ActiveStays
<1>1. CASE Load(q)
  BY <1>0, <1>1 DEF Load, Moves
<1>2. CASE Refocus(q)
  BY <1>0, <1>2 DEF Refocus, Moves
<1>3. CASE ServerReads(q)
  <2>1. cache' = [cache EXCEPT ![q] = ReadBy(cache[q])]
    BY <1>0, <1>3 DEF ServerReads, ReadBy, Entries
  <2>2. QED
    BY <1>0, <1>3, <2>1 DEF ServerReads, Moves
<1>4. CASE Answer(q)
  BY <1>0, <1>4 DEF Answer, Moves, Answered
<1>5. CASE FetchFails(q)
  BY <1>0, <1>5 DEF FetchFails, Moves, Aged
<1>6. CASE GrowOld(q)
  <2>1. cache' = [cache EXCEPT ![q] = Aged(cache[q])]
    BY <1>0, <1>6 DEF GrowOld, Aged
  <2>2. QED
    BY <1>0, <1>6, <2>1 DEF GrowOld, Moves
<1>7. CASE Collect(q)
  BY <1>0, <1>7 DEF Collect, Moves
<1>8. QED
  BY <1>1, <1>2, <1>3, <1>4, <1>5, <1>6, <1>7 DEF ReadStep

(* A step clears the cache, moves each entry, or changes the screen.       *)
LEMMA StepMoves ==
  ASSUME ClientTypeOK, ClientNext
  PROVE  /\ followed' = followed
         /\ cache' = [q \in followed |-> cache'[q]]
         /\ \/ Clear
            \/ /\ session' = session \/ session' = NoOne
               /\ Active' = Active
               /\ \A q \in followed : Moves(cache[q], cache'[q], q \in Active)
            \/ /\ session' = session
               /\ Screen(OnScreen(at'))
               /\ \A q \in followed : Remade(cache[q], cache'[q])
<1> USE DEF ClientTypeOK
<1> USE DEF Moved
<1> DEFINE Mounted == /\ followed' = followed /\ cache' = [q \in followed |-> cache'[q]]
                      /\ session' = session /\ Screen(OnScreen(at'))
                      /\ \A q \in followed : Remade(cache[q], cache'[q])
<1>0. followed' = followed /\ at' = at => Active' = Active
  BY ActiveStays
<1>1. ASSUME NEW q \in followed, ReadStep(q) PROVE Moved
  BY <1>1, ReadMoves
<1>2. ASSUME NEW page \in AppPages, Arrive(page) PROVE Mounted
  BY <1>2, ScreenMoves DEF Arrive, OnScreen
<1>3. ASSUME NEW layer, NEW control, Begin(layer, control) PROVE Moved
  BY <1>0, <1>3 DEF Begin, Moves
<1>4. ASSUME NEW c \in Slots, CallStep(c) PROVE Moved
  <2>1. CASE Apply(c)
    BY <1>0, <2>1 DEF Apply, Moves
  <2>2. CASE Acked(c)
    BY <1>0, <2>2, ProceedMoves DEF Acked
  <2>3. CASE RequestFails(c)
    <3>1. CASE UNCHANGED cache
      BY <1>0, <2>3, <3>1 DEF RequestFails, Moves
    <3>2. CASE Proceed(c, [calls[c] EXCEPT !.step = @ + 1])
      BY <1>0, <2>3, <3>2, ProceedMoves DEF RequestFails
    <3>3. QED
      BY <1>0, <2>3, <3>1, <3>2 DEF RequestFails
  <2>4. CASE Refreshed(c)
    BY <1>0, <2>4, ProceedMoves DEF Refreshed
  <2>5. QED
    BY <1>4, <2>1, <2>2, <2>3, <2>4 DEF CallStep
<1>5. ASSUME SessionStep PROVE Moved \/ Mounted \/ (Clear /\ followed' = followed /\ cache' = [q \in followed |-> cache'[q]])
  <2>1. CASE Expire
    BY <1>0, <2>1 DEF Expire, Moves
  <2>2. CASE SentToLogin
    <3>1. OnScreen("login") = {}
      BY ClientCacheAssumption DEF OnScreen
    <3>2. QED
      BY <2>2, <3>1, ScreenMoves DEF SentToLogin
  <2>3. CASE SignOut
    BY <2>3 DEF SignOut, Clear
  <2>4. CASE NeedsWorkspace
    <3>1. OnScreen("login") = {} /\ OnScreen("onboarding") = {}
      BY ClientCacheAssumption DEF OnScreen
    <3>2. Active' = Active
      BY <2>4, <3>1 DEF NeedsWorkspace, Active, ShownBy
    <3>3. QED
      BY <2>4, <3>2 DEF NeedsWorkspace, Moves
  <2>5. CASE SetUpWorkspace
    BY <2>5 DEF SetUpWorkspace, Clear
  <2>6. CASE \E account \in Accounts : SignIn(account)
    BY <2>6 DEF SignIn, FinishAuthentication, Clear
  <2>7. QED
    BY <1>5, <2>1, <2>2, <2>3, <2>4, <2>5, <2>6 DEF SessionStep
<1>6. Moved \/ Mounted \/ (Clear /\ followed' = followed /\ cache' = [q \in followed |-> cache'[q]])
  BY <1>1, <1>2, <1>3, <1>4, <1>5 DEF ClientNext
<1>7. QED
  BY <1>6

-----------------------------------------------------------------------------
(* A slot's operation keeps its type.                                      *)
MaybeCalls == ClientCalls \cup {NoCall}

LEMMA NotWaitingType ==
  ASSUME NEW c \in MaybeCalls, NEW Q
  PROVE  NotWaiting(c, Q) \in MaybeCalls
BY DEF MaybeCalls, NotWaiting, ClientCalls

LEMMA OperationFacts ==
  ASSUME NEW op \in Operations
  PROVE  /\ Program[op] \in Seq(Steps) /\ Len(Program[op]) \in Nat
         /\ 1 \in DOMAIN Program[op] /\ Program[op][1].do # "refresh"
         /\ \A i \in DOMAIN Program[op] : Program[op][i].do \in Doings /\ Program[op][i].on \subseteq Queries
         /\ DOMAIN Program[op] = 1 .. Len(Program[op])
<1>1. Program[op] \in Seq(Steps) /\ Program[op] # <<>> /\ Program[op][1].do # "refresh"
  BY ClientCacheAssumption
<1>2. Len(Program[op]) \in Nat /\ DOMAIN Program[op] = 1 .. Len(Program[op])
  BY <1>1
<1>3. \A i \in DOMAIN Program[op] : Program[op][i] \in Steps
  BY <1>1, <1>2
<1>4. Len(Program[op]) # 0
  BY <1>1
<1>5. QED
  BY <1>1, <1>2, <1>3, <1>4 DEF Steps

LEMMA RefreshingType ==
  ASSUME NEW call \in ClientCalls, NEW waited \in SUBSET Queries, NEW phase \in {"ready", "waiting"}
  PROVE  [call EXCEPT !.step = @ + 1, !.waits = waited, !.awaited = @ \cup waited,
                      !.failed = @ \ waited, !.phase = phase] \in ClientCalls
<1>1. /\ call.step + 1 \in Nat \ {0}
      /\ call.awaited \cup waited \in SUBSET Queries /\ call.failed \ waited \in SUBSET Queries
  BY DEF ClientCalls
<1>2. QED
  BY <1>1 DEF ClientCalls

LEMMA ProceedTypes ==
  ASSUME ClientTypeOK, NEW c \in Slots, NEW call \in ClientCalls, Proceed(c, call)
  PROVE  /\ calls' \in [Slots -> MaybeCalls]
         /\ promised' \in [followed -> 0 .. MaxWrites]
<1> DEFINE next == Program[call.op][call.step]
           ended == call.step > Len(Program[call.op]) \/ (next.do = "refresh" /\ ~call.wrote)
           waited == next.on \cap followed \cap Active
           refreshing == [call EXCEPT !.step = @ + 1, !.waits = waited, !.awaited = @ \cup waited,
                               !.failed = @ \ waited,
                               !.phase = IF waited = {} THEN "ready" ELSE "waiting"]
<1>0. calls \in [Slots -> MaybeCalls] /\ promised \in [followed -> 0 .. MaxWrites] /\ followed \subseteq Queries
  BY DEF ClientTypeOK, MaybeCalls
<1>1. NoCall \in MaybeCalls /\ call \in MaybeCalls
  BY DEF MaybeCalls
<1>2. CASE ended
  <2>1. calls' = [calls EXCEPT ![c] = NoCall]
    BY <1>2 DEF Proceed
  <2>2. promised' = [q \in followed |->
               IF call.wrote /\ q \in Changes(call.op) \ Overlooked[call.op] /\ call.last > promised[q]
               THEN call.last ELSE promised[q]]
    BY <1>2 DEF Proceed
  <2>3. call.last \in 0 .. MaxWrites
    BY DEF ClientCalls
  <2>4. QED
    BY <1>0, <1>1, <2>1, <2>2, <2>3
<1>3. CASE ~ended /\ next.do = "refresh"
  <2>1. calls' = [calls EXCEPT ![c] = refreshing] /\ UNCHANGED promised
    BY <1>3 DEF Proceed
  <2>2. refreshing \in ClientCalls
    <3>1. waited \in SUBSET Queries /\ (IF waited = {} THEN "ready" ELSE "waiting") \in {"ready", "waiting"}
      BY <1>0
    <3>2. QED
      BY <3>1, RefreshingType
  <2>3. QED
    BY <1>0, <2>1, <2>2 DEF MaybeCalls
<1>4. CASE ~ended /\ next.do # "refresh"
  <2>1. calls' = [calls EXCEPT ![c] = [call EXCEPT !.phase = "sent"]] /\ UNCHANGED promised
    BY <1>4 DEF Proceed
  <2>2. [call EXCEPT !.phase = "sent"] \in ClientCalls
    BY DEF ClientCalls
  <2>3. QED
    BY <1>0, <2>1, <2>2 DEF MaybeCalls
<1>5. QED
  BY <1>2, <1>3, <1>4

LEMMA ScreenTypes ==
  ASSUME ClientTypeOK, NEW layers, Screen(layers)
  PROVE  calls' \in [Slots -> MaybeCalls]
<1> DEFINE kept == ShownBy(OnScreen(at) \cap layers)
           left == Active \ kept
           mounted(d) == IF d = NoCall THEN NoCall
                         ELSE [d EXCEPT !.here = @ /\ d.layer \in layers, !.awaited = @ \ left]
<1>1. ASSUME NEW d \in MaybeCalls PROVE mounted(d) \in MaybeCalls
  BY <1>1 DEF MaybeCalls, ClientCalls
<1>2. \A c \in Slots : NotWaiting(calls[c], left) \in MaybeCalls
  BY NotWaitingType DEF ClientTypeOK, MaybeCalls
<1>3. \A c \in Slots : mounted(NotWaiting(calls[c], left)) \in MaybeCalls
  BY <1>1, <1>2
<1>4. calls' = [c \in Slots |-> mounted(NotWaiting(calls[c], left))]
  BY DEF Screen
<1>5. QED
  BY <1>3, <1>4

LEMMA ClearTypes ==
  ASSUME Clear
  PROVE  /\ ownWrites' \in 0 .. MaxWrites
         /\ calls' \in [Slots -> MaybeCalls]
         /\ promised' \in [followed -> 0 .. MaxWrites]
<1>1. 0 \in 0 .. MaxWrites
  BY Bounds
<1>2. QED
  BY <1>1 DEF Clear, MaybeCalls

LEMMA StepTypes ==
  ASSUME ClientTypeOK, ClientNext
  PROVE  ClientTypeOK'
<1> DEFINE Places == AppPages \cup {"login", "onboarding"}
           Sessions == Accounts \cup {NoOne}
           Rest == /\ at' \in Places /\ session' \in Sessions /\ ownWrites' \in 0 .. MaxWrites
                   /\ calls' \in [Slots -> MaybeCalls]
                   /\ promised' \in [followed -> 0 .. MaxWrites]
<1>0. /\ followed \subseteq Queries /\ at \in Places /\ session \in Sessions
      /\ cache \in [followed -> Entries] /\ ownWrites \in 0 .. MaxWrites
      /\ calls \in [Slots -> MaybeCalls] /\ promised \in [followed -> 0 .. MaxWrites]
  BY DEF ClientTypeOK, MaybeCalls
<1>1. ASSUME NEW q \in followed, ReadStep(q) PROVE Rest
  <2>1. ASSUME NEW c \in Slots PROVE NotWaiting(calls[c], {q}) \in MaybeCalls
    BY <1>0, NotWaitingType
  <2>2. CASE Load(q) \/ Refocus(q) \/ ServerReads(q) \/ GrowOld(q) \/ Collect(q)
    BY <1>0, <2>2 DEF Load, Refocus, ServerReads, GrowOld, Collect
  <2>3. CASE Answer(q)
    BY <1>0, <2>1, <2>3 DEF Answer
  <2>4. CASE FetchFails(q)
    <3>1. ASSUME NEW c \in Slots, calls[c] # NoCall
          PROVE  [calls[c] EXCEPT !.failed = @ \cup {q}] \in MaybeCalls
      <4>1. calls[c] \in ClientCalls /\ calls[c].failed \cup {q} \in SUBSET Queries
        BY <1>0, <3>1 DEF MaybeCalls, ClientCalls
      <4>2. QED
        BY <4>1 DEF MaybeCalls, ClientCalls
    <3>2. ASSUME NEW c \in Slots, calls[c] # NoCall
          PROVE  NotWaiting([calls[c] EXCEPT !.failed = @ \cup {q}], {q}) \in MaybeCalls
      BY <3>1, <3>2, NotWaitingType
    <3>3. QED
      BY <1>0, <2>4, <3>2 DEF FetchFails
  <2>5. QED
    BY <1>1, <2>2, <2>3, <2>4 DEF ReadStep
<1>2. ASSUME NEW page \in AppPages, Arrive(page) PROVE Rest
  BY <1>0, <1>2, ScreenTypes DEF Arrive
<1>3. ASSUME NEW layer \in OnScreen(at), NEW control \in Controls[layer], Begin(layer, control) PROVE Rest
  <2> DEFINE call == [op |-> control.begins, step |-> 1, phase |-> "sent", layer |-> layer, here |-> TRUE,
                      last |-> 0, wrote |-> FALSE, waits |-> {}, awaited |-> {}, failed |-> {}]
  <2>1. layer \in Layers
    BY <1>0, ClientCacheAssumption DEF OnScreen
  <2>2. control.begins \in Operations
    BY <2>1, ClientCacheAssumption
  <2>3. call \in ClientCalls
    BY <2>1, <2>2, Bounds DEF ClientCalls
  <2>4. PICK c \in Slots : calls' = [calls EXCEPT ![c] = call]
    BY <1>3 DEF Begin
  <2>5. QED
    BY <1>0, <1>3, <2>3, <2>4 DEF Begin, MaybeCalls
<1>4. ASSUME NEW c \in Slots, CallStep(c) PROVE Rest
  <2>0. calls[c] \in ClientCalls
    BY <1>0, <1>4 DEF CallStep, Apply, Acked, RequestFails, Refreshed, MaybeCalls
  <2>1. CASE Apply(c)
    <3>1. ownWrites + 1 \in 0 .. MaxWrites
      BY <1>0, <2>1, Bounds DEF Apply
    <3>2. [calls[c] EXCEPT !.phase = "applied", !.last = ownWrites + 1, !.awaited = {}, !.failed = {}] \in ClientCalls
      BY <2>0, <3>1 DEF ClientCalls
    <3>3. calls' = [calls EXCEPT ![c] =
             [calls[c] EXCEPT !.phase = "applied", !.last = ownWrites + 1, !.awaited = {}, !.failed = {}]]
      BY <1>0, <2>0, <2>1 DEF Apply, ClientCalls
    <3>4. QED
      BY <1>0, <2>1, <3>1, <3>2, <3>3 DEF Apply, MaybeCalls
  <2>2. CASE Acked(c)
    <3>0. calls[c].step + 1 \in Nat \ {0}
      BY <2>0 DEF ClientCalls
    <3>1. [calls[c] EXCEPT !.step = @ + 1, !.wrote = TRUE] \in ClientCalls
      BY <2>0, <3>0 DEF ClientCalls
    <3>2. QED
      BY <1>0, <2>2, <3>1, ProceedTypes DEF Acked
  <2>3. CASE RequestFails(c)
    <3>0. calls[c].step + 1 \in Nat \ {0}
      BY <2>0 DEF ClientCalls
    <3>1. [calls[c] EXCEPT !.step = @ + 1] \in ClientCalls
      BY <2>0, <3>0 DEF ClientCalls
    <3>2. CASE Proceed(c, [calls[c] EXCEPT !.step = @ + 1])
      BY <1>0, <2>3, <3>1, <3>2, ProceedTypes DEF RequestFails
    <3>3. CASE calls' = [calls EXCEPT ![c] = NoCall] /\ UNCHANGED <<cache, promised>>
      BY <1>0, <2>3, <3>3 DEF RequestFails, MaybeCalls
    <3>4. QED
      BY <2>3, <3>2, <3>3 DEF RequestFails
  <2>4. CASE Refreshed(c)
    BY <1>0, <2>0, <2>4, ProceedTypes DEF Refreshed
  <2>5. QED
    BY <1>4, <2>1, <2>2, <2>3, <2>4 DEF CallStep
<1>5. ASSUME SessionStep PROVE Rest
  <2>1. CASE Expire \/ NeedsWorkspace
    BY <1>0, <2>1 DEF Expire, NeedsWorkspace
  <2>2. CASE SentToLogin
    BY <1>0, <2>2, ScreenTypes DEF SentToLogin
  <2>3. CASE SignOut \/ SetUpWorkspace
    BY <1>0, <2>3, ClearTypes DEF SignOut, SetUpWorkspace
  <2>4. CASE \E account \in Accounts : SignIn(account)
    BY <1>0, <2>4, ClearTypes DEF SignIn, FinishAuthentication
  <2>5. QED
    BY <1>5, <2>1, <2>2, <2>3, <2>4 DEF SessionStep
<1>6. Rest
  BY <1>1, <1>2, <1>3, <1>4, <1>5 DEF ClientNext
<1>7. cache' \in [followed' -> Entries]
  <2>1. CASE Clear
    BY <2>1, StepMoves, NoEntryType DEF Clear
  <2>2. CASE \A q \in followed :
               Moves(cache[q], cache'[q], q \in Active) \/ Remade(cache[q], cache'[q])
    <3>1. ASSUME NEW q \in followed PROVE cache'[q] \in Entries
      <4>1. (q \in Active) \in BOOLEAN
        OBVIOUS
      <4>2. QED
        BY <1>0, <2>2, <4>1, MovesTypes
    <3>2. QED
      BY <1>0, <3>1, StepMoves
  <2>3. QED
    BY <2>1, <2>2, StepMoves
<1>8. QED
  BY <1>0, <1>6, <1>7, StepMoves DEF ClientTypeOK, MaybeCalls

LEMMA InitTypes == ClientInit => ClientTypeOK
BY Bounds, NoEntryType DEF ClientInit, ClientTypeOK

(* Every step keeps the cache, its operations and what they promised in    *)
(* their types.                                                            *)
THEOREM ClientTypeCorrect == ClientSpec => []ClientTypeOK
<1>1. ClientTypeOK /\ [ClientNext]_clientVars => ClientTypeOK'
  <2>1. CASE UNCHANGED clientVars
    BY <2>1 DEF clientVars, ClientTypeOK
  <2>2. QED
    BY <2>1, StepTypes
<1>2. QED
  BY <1>1, InitTypes, PTL DEF ClientSpec

-----------------------------------------------------------------------------
(* An entry is of one session: its data, and its fetch once it was read.   *)
OfSession(e, who) ==
  /\ HasData(e) => e.owner = who
  /\ e.fetch = "read" => e.reader = who

LEMMA MovesOwner ==
  ASSUME NEW e \in Entries, NEW f, NEW shown \in BOOLEAN, session # NoOne,
         Moves(e, f, shown) \/ Remade(e, f), OfSession(e, session)
  PROVE  OfSession(f, session)
<1>1. \A x \in Entries : OfSession(x, session) =>
        OfSession(Asked(x), session) /\ OfSession(Stopped(x), session) /\ OfSession(Aged(x), session)
  BY DEF Entries, OfSession, HasData, Asked, Stopped, Aged
<1>2. \A x \in Entries : OfSession(x, session) => OfSession(Remounted(x), session)
  BY <1>1 DEF Remounted
<1>3. OfSession(ReadBy(e), session)
  BY DEF Entries, OfSession, HasData, ReadBy
<1>4. e.fetch = "read" => OfSession(Answered(e), session)
  BY DEF Entries, OfSession, HasData, Answered, Stopped
<1>5. OfSession([e EXCEPT !.late = TRUE], session)
  BY DEF Entries, OfSession, HasData
<1>6. OfSession(Invalidated(e, shown), session)
  <2>1. \/ Invalidated(e, shown) = [e EXCEPT !.late = TRUE] \/ Invalidated(e, shown) = Asked(e)
        \/ Invalidated(e, shown) = e \/ Invalidated(e, shown) = Asked(Aged(e))
        \/ Invalidated(e, shown) = Aged(e)
    BY DEF Entries, Invalidated, Aged
  <2>2. QED
    BY <1>1, <1>5, <2>1, EntryTypes
<1>7. OfSession(NoEntry, session)
  BY DEF NoEntry, OfSession, HasData
<1>8. QED
  BY <1>1, <1>2, <1>3, <1>4, <1>6, <1>7, EntryTypes DEF Moves, Remade

(* Nobody sees what was read in another account's session, whatever is     *)
(* open, read or begun while sessions end and others begin.                *)
THEOREM AlwaysOneOwner == ClientSpec => []OneOwner
<1>1. ClientInit => OneOwner
  BY DEF ClientInit, OneOwner
<1>2. ClientTypeOK /\ OneOwner /\ [ClientNext]_clientVars => OneOwner'
  <2> SUFFICES ASSUME ClientTypeOK, OneOwner, [ClientNext]_clientVars, session' # NoOne,
                      NEW q \in followed'
               PROVE  OfSession(cache'[q], session')
    BY DEF OneOwner, OfSession, HasData
  <2>1. CASE UNCHANGED clientVars
    BY <2>1 DEF clientVars, OneOwner, OfSession, HasData
  <2>2. CASE ClientNext
    <3>1. q \in followed
      BY <2>2, StepMoves
    <3>2. CASE Clear
      BY <3>1, <3>2 DEF Clear, NoEntry, OfSession, HasData
    <3>3. CASE /\ session' = session
               /\ Moves(cache[q], cache'[q], q \in Active) \/ Remade(cache[q], cache'[q])
      <4>1. OfSession(cache[q], session)
        BY <3>1, <3>3 DEF OneOwner, OfSession
      <4>2. (q \in Active) \in BOOLEAN
        OBVIOUS
      <4>3. cache[q] \in Entries
        BY <3>1 DEF ClientTypeOK
      <4>4. OfSession(cache'[q], session)
        BY <2>2, <3>1, <3>3, <4>1, <4>2, <4>3, MovesOwner
      <4>5. QED
        BY <3>3, <4>4
    <3>4. QED
      BY <2>2, <3>1, <3>2, <3>3, StepMoves
  <2>3. QED
    BY <2>1, <2>2
<1>3. QED
  BY <1>1, <1>2, ClientTypeCorrect, PTL DEF ClientSpec

-----------------------------------------------------------------------------
(* An entry has write n, or is the answer of a first fetch; its fetch will *)
(* bring it; the cache does not take what lacks it for fresh.              *)
HasIt(e, n) == e.passed \/ e.data >= n
Refetched(e, n) == e.fetch = "read" => e.late \/ e.read >= n
Sees(e, n) == (HasData(e) /\ e.fresh => HasIt(e, n)) /\ Refetched(e, n)
AtRest(e, shown) == HasData(e) /\ ~shown => e.fetch = "idle"

LEMMA InvalidatedForms ==
  ASSUME NEW e \in Entries, NEW shown \in BOOLEAN
  PROVE  LET f == Invalidated(e, shown)
         IN \/ ~HasData(e) /\ f = [e EXCEPT !.late = TRUE]
            \/ ~HasData(e) /\ shown /\ f = Asked(e)
            \/ ~HasData(e) /\ ~shown /\ e.fetch = "idle" /\ f = e
            \/ HasData(e) /\ shown /\ f = Asked(Aged(e))
            \/ HasData(e) /\ ~shown /\ f = Aged(e)
BY DEF Entries, Invalidated, Aged

(* No step takes a write out of sight.                                     *)
LEMMA MovesSee ==
  ASSUME ClientTypeOK, NEW e \in Entries, NEW f, NEW shown \in BOOLEAN, NEW n \in Nat, n <= ownWrites,
         Moves(e, f, shown) \/ Remade(e, f), Refetched(e, n)
  PROVE  Refetched(f, n) /\ (Sees(e, n) => Sees(f, n))
<1> DEFINE Kept(x, y) == Refetched(x, n) => Refetched(y, n) /\ (Sees(x, n) => Sees(y, n))
<1>0. ownWrites \in Nat
  BY Bounds DEF ClientTypeOK
<1>1. \A x \in Entries : Kept(x, Asked(x)) /\ Kept(x, Stopped(x)) /\ Kept(x, Aged(x))
  BY DEF Entries, Refetched, Sees, HasIt, HasData, Asked, Stopped, Aged
<1>2. \A x \in Entries : Kept(x, Remounted(x))
  BY <1>1 DEF Remounted
<1>3. Kept(e, ReadBy(e))
  BY <1>0 DEF Entries, Refetched, Sees, HasIt, HasData, ReadBy
<1>4. e.fetch = "read" => Kept(e, Answered(e))
  BY DEF Entries, Refetched, Sees, HasIt, HasData, Answered, Stopped
<1>5. ~HasData(e) => Kept(e, [e EXCEPT !.late = TRUE])
  BY DEF Entries, Refetched, Sees, HasIt, HasData
<1>6. Kept(e, Invalidated(e, shown))
  <2>1. Kept(e, Aged(e)) /\ Kept(Aged(e), Asked(Aged(e))) /\ Kept(e, Asked(e))
    BY <1>1, EntryTypes
  <2>2. QED
    BY <1>5, <2>1, InvalidatedForms
<1>7. Kept(e, NoEntry)
  BY DEF NoEntry, Refetched, Sees, HasIt, HasData
<1>8. Kept(Stopped(e), Aged(Stopped(e))) /\ Kept(Stopped(e), Remounted(Stopped(e)))
  BY <1>1, <1>2, EntryTypes
<1>9. QED
  BY <1>1, <1>2, <1>3, <1>4, <1>6, <1>7, <1>8 DEF Moves, Remade

(* What is on the screen keeps the writes it has.                          *)
LEMMA MovesHas ==
  ASSUME NEW e \in Entries, NEW f, NEW n \in Nat, Moves(e, f, TRUE), Refetched(e, n), HasIt(e, n)
  PROVE  HasIt(f, n)
<1>1. \A x \in Entries : /\ HasIt(x, n) => HasIt(Asked(x), n)
                         /\ HasIt(x, n) => HasIt(Stopped(x), n)
                         /\ HasIt(x, n) => HasIt(Aged(x), n)
  BY DEF Entries, HasIt, Asked, Stopped, Aged
<1>2. HasIt(ReadBy(e), n)
  BY DEF Entries, HasIt, ReadBy
<1>3. e.fetch = "read" => HasIt(Answered(e), n)
  BY DEF Entries, HasIt, Refetched, Answered, Stopped
<1>4. HasIt([e EXCEPT !.late = TRUE], n)
  BY DEF Entries, HasIt
<1>5. HasIt(Invalidated(e, TRUE), n)
  BY <1>1, <1>4, InvalidatedForms, EntryTypes
<1>6. HasIt(Aged(Stopped(e)), n)
  BY <1>1, EntryTypes
<1>7. QED
  BY <1>1, <1>2, <1>3, <1>5, <1>6 DEF Moves

(* Only what is shown is fetched a second time.                            *)
LEMMA MovesAtRest ==
  ASSUME NEW e \in Entries, NEW f, NEW shown \in BOOLEAN, Moves(e, f, shown), AtRest(e, shown)
  PROVE  AtRest(f, shown)
<1>1. ~HasData(e) \/ shown => AtRest(Asked(e), shown)
  BY DEF Entries, AtRest, HasData, Asked
<1>2. e.fetch = "asked" => AtRest(ReadBy(e), shown)
  BY DEF Entries, AtRest, HasData, ReadBy
<1>3. AtRest(Answered(e), shown) /\ AtRest(Aged(Stopped(e)), shown) /\ AtRest(Aged(e), shown)
  BY DEF Entries, AtRest, HasData, Answered, Stopped, Aged
<1>4. ~HasData(e) => AtRest([e EXCEPT !.late = TRUE], shown)
  BY DEF Entries, AtRest, HasData
<1>5. AtRest(Invalidated(e, shown), shown)
  <2>1. shown => AtRest(Asked(Aged(e)), shown)
    BY DEF AtRest
  <2>2. QED
    BY <1>1, <1>3, <1>4, <2>1, InvalidatedForms
<1>6. AtRest(NoEntry, shown)
  BY DEF NoEntry, AtRest, HasData
<1>7. QED
  BY <1>1, <1>2, <1>3, <1>5, <1>6 DEF Moves

(* A refresh leaves nothing that could be taken for fresh, whichever write *)
(* is asked for.                                                           *)
LEMMA RefreshSees ==
  ASSUME NEW e \in Entries, NEW shown \in BOOLEAN, NEW n \in Nat, AtRest(e, shown)
  PROVE  Sees(Invalidated(e, shown), n)
<1>1. ~HasData(e) => Sees([e EXCEPT !.late = TRUE], n) /\ Sees(Asked(e), n)
  BY DEF Entries, Sees, Refetched, HasIt, HasData, Asked
<1>2. ~HasData(e) /\ e.fetch = "idle" => Sees(e, n)
  BY DEF Sees, Refetched, HasIt, HasData
<1>3. Sees(Asked(Aged(e)), n)
  BY DEF Entries, Sees, Refetched, HasIt, HasData, Asked, Aged
<1>4. HasData(e) /\ ~shown => Sees(Aged(e), n)
  BY DEF Entries, AtRest, Sees, Refetched, HasIt, HasData, Aged
<1>5. QED
  BY <1>1, <1>2, <1>3, <1>4, InvalidatedForms

-----------------------------------------------------------------------------
(* An operation between its steps: what it changed is to be refreshed by a *)
(* step it has left, or nobody takes older data for fresh; what it waited  *)
(* for on the screen has its write, or could not be read.                  *)
Due(op, step, q) ==
  \E j \in DOMAIN Program[op] : j >= step /\ Program[op][j].do = "refresh" /\ q \in Program[op][j].on

Written(d, entries) ==
  \A q \in followed \cap (Changes(d.op) \ Overlooked[d.op]) :
    Due(d.op, d.step, q) \/ Sees(entries[q], d.last)

Awaited(d, entries, shown) ==
  \A q \in d.awaited :
    /\ q \in followed \cap shown /\ Refetched(entries[q], d.last)
    /\ q \in d.waits \cup d.failed \/ HasIt(entries[q], d.last)

CallSound(d, entries, shown, writes) ==
  /\ d.last <= writes
  /\ d.phase \in {"sent", "applied"} =>
       d.step \in DOMAIN Program[d.op] /\ Program[d.op][d.step].do # "refresh"
  /\ d.phase # "waiting" => d.waits = {}
  /\ Written(d, entries) /\ Awaited(d, entries, shown)

EntrySound(q, entries, shown, n, writes) ==
  AtRest(entries[q], q \in shown) /\ n <= writes /\ Sees(entries[q], n)

ClientSound ==
  /\ \A q \in followed : EntrySound(q, cache, Active, promised[q], ownWrites)
  /\ \A c \in Slots : calls[c] # NoCall => CallSound(calls[c], cache, Active, ownWrites)

LEMMA SoundFaithful ==
  ASSUME ClientTypeOK, ClientSound
  PROVE  ReadOwnWrites /\ BusyUntilShown
<1>1. ReadOwnWrites
  BY DEF ReadOwnWrites, ClientSound, EntrySound, Sees, HasIt
<1>2. BusyUntilShown
  BY DEF BusyUntilShown, ClientSound, CallSound, Awaited, HasIt
<1>3. QED
  BY <1>1, <1>2

LEMMA InitSound == ClientInit => ClientSound
BY DEF ClientInit, ClientSound, EntrySound, AtRest, Sees, Refetched, HasIt, HasData, NoEntry

(* A step that moves entries keeps what holds of those and of operations.  *)
LEMMA MovedSound ==
  ASSUME ClientTypeOK, ClientSound, \A q \in followed : Moves(cache[q], cache'[q], q \in Active)
  PROVE  /\ \A q \in followed : EntrySound(q, cache', Active, promised[q], ownWrites)
         /\ \A d \in ClientCalls :
              CallSound(d, cache, Active, ownWrites) => CallSound(d, cache', Active, ownWrites)
<1>0. /\ ownWrites \in Nat /\ cache \in [followed -> Entries]
      /\ \A q \in followed : promised[q] \in Nat
  BY Bounds DEF ClientTypeOK
<1>1. ASSUME NEW q \in followed PROVE EntrySound(q, cache', Active, promised[q], ownWrites)
  <2>1. (q \in Active) \in BOOLEAN
    OBVIOUS
  <2>2. EntrySound(q, cache, Active, promised[q], ownWrites)
    BY DEF ClientSound
  <2>3. cache[q] \in Entries /\ Moves(cache[q], cache'[q], q \in Active)
    BY <1>0
  <2>4. AtRest(cache'[q], q \in Active)
    BY <2>1, <2>2, <2>3, MovesAtRest DEF EntrySound
  <2>5. Sees(cache'[q], promised[q])
    BY <1>0, <2>1, <2>2, <2>3, MovesSee DEF EntrySound, Sees
  <2>6. QED
    BY <2>2, <2>4, <2>5 DEF EntrySound
<1>2. ASSUME NEW d \in ClientCalls, CallSound(d, cache, Active, ownWrites)
      PROVE  CallSound(d, cache', Active, ownWrites)
  <2>0. d.last \in Nat /\ d.last <= ownWrites
    BY <1>2, Bounds DEF ClientCalls, CallSound
  <2>1. ASSUME NEW q \in followed, Refetched(cache[q], d.last)
        PROVE  Refetched(cache'[q], d.last) /\ (Sees(cache[q], d.last) => Sees(cache'[q], d.last))
    <3>1. (q \in Active) \in BOOLEAN /\ cache[q] \in Entries
      BY <1>0
    <3>2. QED
      BY <2>0, <2>1, <3>1, MovesSee
  <2>2. Written(d, cache')
    BY <1>2, <2>1 DEF CallSound, Written, Sees
  <2>3. ASSUME NEW q \in d.awaited
        PROVE  /\ q \in followed \cap Active /\ Refetched(cache'[q], d.last)
               /\ q \in d.waits \cup d.failed \/ HasIt(cache'[q], d.last)
    <3>1. /\ q \in followed /\ q \in Active /\ Refetched(cache[q], d.last)
          /\ q \in d.waits \cup d.failed \/ HasIt(cache[q], d.last)
      BY <1>2 DEF CallSound, Awaited
    <3>2. Moves(cache[q], cache'[q], TRUE) /\ cache[q] \in Entries
      BY <1>0, <3>1
    <3>3. HasIt(cache[q], d.last) => HasIt(cache'[q], d.last)
      BY <2>0, <3>1, <3>2, MovesHas
    <3>4. QED
      BY <2>1, <3>1, <3>3
  <2>4. QED
    BY <1>2, <2>2, <2>3 DEF CallSound, Awaited
<1>3. QED
  BY <1>1, <1>2

(* An operation waits for less: what it no longer waits for has its write, *)
(* or its fetch failed.                                                    *)
LEMMA WaitsLess ==
  ASSUME NEW d \in ClientCalls, NEW Q, NEW entries, NEW shown, NEW writes,
         CallSound(d, entries, shown, writes),
         \A q \in d.awaited \cap d.waits \cap Q : q \in d.failed \/ HasIt(entries[q], d.last)
  PROVE  CallSound(NotWaiting(d, Q), entries, shown, writes)
<1> DEFINE f == NotWaiting(d, Q)
<1>0. d # NoCall
  BY ClientCallAssumption
<1>1. f.op = d.op /\ f.step = d.step /\ f.last = d.last /\ f.awaited = d.awaited /\ f.failed = d.failed
      /\ f.waits = d.waits \ Q
      /\ f.phase = IF d.phase = "waiting" /\ d.waits \subseteq Q THEN "ready" ELSE d.phase
  BY <1>0 DEF NotWaiting, ClientCalls
<1>2. Written(f, entries)
  BY <1>1 DEF CallSound, Written
<1>3. Awaited(f, entries, shown)
  BY <1>1 DEF CallSound, Awaited
<1>4. /\ f.phase \in {"sent", "applied"} => f.step \in DOMAIN Program[f.op] /\ Program[f.op][f.step].do # "refresh"
      /\ f.phase # "waiting" => f.waits = {}
  BY <1>1 DEF CallSound
<1>5. QED
  BY <1>1, <1>2, <1>3, <1>4 DEF CallSound

LEMMA SoundAgain ==
  ASSUME followed' = followed,
         \A q \in followed : EntrySound(q, cache', Active', promised'[q], ownWrites'),
         \A c \in Slots : calls'[c] # NoCall => CallSound(calls'[c], cache', Active', ownWrites')
  PROVE  ClientSound'
<1>1. \A q \in followed' : EntrySound(q, cache, Active, promised[q], ownWrites)'
  BY DEF EntrySound
<1>2. \A c \in Slots : (calls[c] # NoCall => CallSound(calls[c], cache, Active, ownWrites))'
  BY DEF CallSound, Written, Awaited
<1>3. QED
  BY <1>1, <1>2 DEF ClientSound

(* The next step of an operation that waits for nothing: its last one has  *)
(* either been followed by the refreshes due, or they are still to come.   *)
LEMMA ProceedSound ==
  ASSUME ClientTypeOK, ClientSound, NEW c \in Slots, NEW call \in ClientCalls, Proceed(c, call),
         UNCHANGED <<followed, at, session, ownWrites>>,
         call.waits = {}, call.last <= ownWrites, Written(call, cache), Awaited(call, cache, Active)
  PROVE  ClientSound'
<1> DEFINE program == Program[call.op]
           ended == call.step > Len(program) \/ (program[call.step].do = "refresh" /\ ~call.wrote)
           these == program[call.step].on \cap followed
           waited == these \cap Active
           next == [call EXCEPT !.step = @ + 1, !.waits = waited, !.awaited = @ \cup waited,
                                !.failed = @ \ waited,
                                !.phase = IF waited = {} THEN "ready" ELSE "waiting"]
<1>0. /\ call.op \in Operations /\ call.step \in Nat \ {0} /\ call.last \in Nat
      /\ ownWrites \in Nat /\ cache \in [followed -> Entries]
      /\ calls \in [Slots -> MaybeCalls] /\ promised \in [followed -> 0 .. MaxWrites]
  BY Bounds DEF ClientTypeOK, ClientCalls, MaybeCalls
<1>1. Len(program) \in Nat /\ DOMAIN program = 1 .. Len(program)
  BY <1>0, OperationFacts
<1>2. \A q \in followed : Moves(cache[q], cache'[q], q \in Active)
  BY ProceedMoves
<1>3. Active' = Active
  BY ActiveStays
<1>4. /\ \A q \in followed : EntrySound(q, cache', Active, promised[q], ownWrites)
      /\ \A d \in Slots \ {c} : calls[d] # NoCall => CallSound(calls[d], cache', Active, ownWrites)
  BY <1>0, <1>2, MovedSound DEF ClientSound, MaybeCalls
<1>5. CASE ended
  <2>1. /\ calls' = [calls EXCEPT ![c] = NoCall] /\ UNCHANGED cache
        /\ promised' = [q \in followed |->
               IF call.wrote /\ q \in Changes(call.op) \ Overlooked[call.op] /\ call.last > promised[q]
               THEN call.last ELSE promised[q]]
    BY <1>5 DEF Proceed
  <2>2. ASSUME NEW q \in followed PROVE EntrySound(q, cache', Active, promised'[q], ownWrites)
    <3>1. CASE promised'[q] = promised[q]
      BY <1>4, <3>1
    <3>2. CASE call.wrote /\ q \in Changes(call.op) \ Overlooked[call.op] /\ promised'[q] = call.last
      <4>1. call.step > Len(program)
        BY <1>5, <3>2
      <4>2. ~Due(call.op, call.step, q)
        BY <1>0, <1>1, <4>1 DEF Due
      <4>3. Sees(cache[q], call.last)
        BY <3>2, <4>2 DEF Written
      <4>4. QED
        BY <1>4, <2>1, <3>2, <4>3 DEF EntrySound
    <3>3. QED
      BY <2>1, <3>1, <3>2
  <2>3. \A d \in Slots : calls'[d] # NoCall => CallSound(calls'[d], cache', Active, ownWrites)
    BY <1>0, <1>4, <2>1
  <2>4. QED
    BY <1>3, <2>2, <2>3, SoundAgain
<1>6. CASE ~ended /\ program[call.step].do = "refresh"
  <2>1. /\ cache' = [q \in followed |->
               IF q \in these THEN Invalidated(cache[q], q \in Active) ELSE cache[q]]
        /\ calls' = [calls EXCEPT ![c] = next] /\ UNCHANGED promised
    BY <1>6 DEF Proceed
  <2>2. /\ next.op = call.op /\ next.step = call.step + 1 /\ next.last = call.last /\ next.waits = waited
        /\ next.awaited = call.awaited \cup waited /\ next.failed = call.failed \ waited
        /\ next.phase = IF waited = {} THEN "ready" ELSE "waiting"
    BY DEF ClientCalls
  <2>3. ASSUME NEW q \in these PROVE Sees(cache'[q], call.last)
    <3>1. cache[q] \in Entries /\ AtRest(cache[q], q \in Active) /\ (q \in Active) \in BOOLEAN
      BY <1>0 DEF ClientSound, EntrySound
    <3>2. QED
      BY <1>0, <2>1, <3>1, RefreshSees
  <2>4. Written(next, cache')
    <3>1. ASSUME NEW q \in followed, q \in Changes(call.op) \ Overlooked[call.op], q \notin these
          PROVE  Due(call.op, call.step + 1, q) \/ Sees(cache'[q], call.last)
      <4>1. Due(call.op, call.step, q) \/ Sees(cache[q], call.last)
        BY <3>1 DEF Written
      <4>2. Due(call.op, call.step, q) => Due(call.op, call.step + 1, q)
        BY <1>0, <1>1, <3>1 DEF Due
      <4>3. QED
        BY <2>1, <3>1, <4>1, <4>2
    <3>2. QED
      BY <2>2, <2>3, <3>1 DEF Written
  <2>5. Awaited(next, cache', Active)
    <3>1. ASSUME NEW q \in waited PROVE q \in followed \cap Active /\ Refetched(cache'[q], call.last)
      BY <2>3 DEF Sees
    <3>2. ASSUME NEW q \in call.awaited \ waited
          PROVE  /\ q \in followed \cap Active /\ Refetched(cache'[q], call.last)
                 /\ q \in call.failed \ waited \/ HasIt(cache'[q], call.last)
      <4>1. /\ q \in followed \cap Active /\ Refetched(cache[q], call.last)
            /\ q \in call.failed \/ HasIt(cache[q], call.last)
        BY DEF Awaited
      <4>2. cache'[q] = cache[q]
        BY <2>1, <4>1
      <4>3. QED
        BY <4>1, <4>2
    <3>3. QED
      BY <2>2, <3>1, <3>2 DEF Awaited
  <2>6. CallSound(next, cache', Active, ownWrites)
    <3>1. next.phase \notin {"sent", "applied"} /\ (next.phase # "waiting" => next.waits = {})
      BY <2>2
    <3>2. next.last <= ownWrites
      BY <2>2
    <3> HIDE DEF next
    <3>3. QED
      BY <2>4, <2>5, <3>1, <3>2 DEF CallSound
  <2>7. \A d \in Slots : calls'[d] # NoCall => CallSound(calls'[d], cache', Active, ownWrites)
    BY <1>0, <1>4, <2>1, <2>6
  <2>8. \A q \in followed : EntrySound(q, cache', Active, promised'[q], ownWrites)
    BY <1>4, <2>1
  <2>9. QED
    BY <1>3, <2>7, <2>8, SoundAgain
<1>7. CASE ~ended /\ program[call.step].do # "refresh"
  <2> DEFINE sent == [call EXCEPT !.phase = "sent"]
  <2>1. calls' = [calls EXCEPT ![c] = sent] /\ UNCHANGED <<cache, promised>>
    BY <1>7 DEF Proceed
  <2>2. /\ sent.op = call.op /\ sent.step = call.step /\ sent.last = call.last /\ sent.waits = {}
        /\ sent.awaited = call.awaited /\ sent.failed = call.failed /\ sent.phase = "sent"
    BY DEF ClientCalls
  <2>3. call.step \in DOMAIN program
    BY <1>0, <1>1, <1>7
  <2>4. CallSound(sent, cache, Active, ownWrites)
    BY <1>7, <2>2, <2>3 DEF CallSound, Written, Awaited
  <2>5. \A d \in Slots : calls'[d] # NoCall => CallSound(calls'[d], cache', Active, ownWrites)
    BY <1>0, <1>4, <2>1, <2>4
  <2>6. \A q \in followed : EntrySound(q, cache', Active, promised'[q], ownWrites)
    BY <1>4, <2>1
  <2>7. QED
    BY <1>3, <2>5, <2>6, SoundAgain
<1>8. QED
  BY <1>5, <1>6, <1>7

(* The screen changes: what stays on it is left as it is.                  *)
LEMMA ScreenSound ==
  ASSUME ClientTypeOK, ClientSound, Screen(OnScreen(at')),
         UNCHANGED <<followed, session, ownWrites, promised>>
  PROVE  ClientSound'
<1> DEFINE layers == OnScreen(at')
           kept == ShownBy(OnScreen(at) \cap layers)
           left == Active \ kept
           came == ShownBy(layers) \ kept
           after(q) == LET entry == IF q \in left THEN Stopped(cache[q]) ELSE cache[q]
                       IN IF q \in came THEN Remounted(entry) ELSE entry
           less(d) == NotWaiting(d, left)
           mounted(d) == [d EXCEPT !.here = @ /\ d.layer \in layers, !.awaited = @ \ left]
<1>0. /\ ownWrites \in Nat /\ cache \in [followed -> Entries]
      /\ calls \in [Slots -> MaybeCalls] /\ \A q \in followed : promised[q] \in Nat
  BY Bounds DEF ClientTypeOK, MaybeCalls
<1>1. /\ cache' = [q \in followed |-> after(q)]
      /\ calls' = [c \in Slots |-> IF less(calls[c]) = NoCall THEN NoCall ELSE mounted(less(calls[c]))]
  BY DEF Screen
<1>2. Active' = ShownBy(layers)
  BY DEF Active, ShownBy, OnScreen
<1>3. kept \subseteq Active' /\ kept \subseteq Active /\ left \cap kept = {}
  BY <1>2 DEF ShownBy, Active
<1>4. \A q \in followed : q \notin left /\ q \notin came => cache'[q] = cache[q]
  BY <1>1
<1>5. \A q \in followed : Remade(cache[q], cache'[q])
  BY <1>1 DEF Remade
<1>6. ASSUME NEW q \in followed PROVE EntrySound(q, cache', Active', promised'[q], ownWrites')
  <2>1. EntrySound(q, cache, Active, promised[q], ownWrites) /\ cache[q] \in Entries
    BY <1>0 DEF ClientSound
  <2>2. Sees(cache'[q], promised[q])
    BY <1>0, <1>5, <2>1, MovesSee DEF EntrySound, Sees
  <2>3. AtRest(cache'[q], q \in Active')
    <3>1. CASE q \in Active'
      BY <3>1 DEF AtRest
    <3>2. CASE q \notin Active' /\ q \in left
      <4>1. cache'[q] = Stopped(cache[q])
        BY <1>1, <1>2, <3>2
      <4>2. QED
        BY <2>1, <4>1 DEF AtRest, Stopped, Entries
    <3>3. CASE q \notin Active' /\ q \notin left
      <4>1. cache'[q] = cache[q] /\ q \notin Active
        BY <1>2, <1>3, <1>4, <3>3
      <4>2. QED
        BY <2>1, <4>1 DEF EntrySound, AtRest
    <3>4. QED
      BY <3>1, <3>2, <3>3
  <2>4. QED
    BY <2>1, <2>2, <2>3 DEF EntrySound
<1>7. ASSUME NEW d \in ClientCalls, CallSound(d, cache, Active, ownWrites)
      PROVE  less(d) # NoCall /\ CallSound(mounted(less(d)), cache', Active', ownWrites')
  <2> DEFINE f == mounted(less(d))
  <2>0. d # NoCall
    BY ClientCallAssumption
  <2>1. less(d) \in ClientCalls
    BY <2>0 DEF NotWaiting, ClientCalls
  <2>2. /\ less(d).op = d.op /\ less(d).step = d.step /\ less(d).last = d.last
        /\ less(d).awaited = d.awaited /\ less(d).failed = d.failed /\ less(d).waits = d.waits \ left
        /\ less(d).phase = IF d.phase = "waiting" /\ d.waits \subseteq left THEN "ready" ELSE d.phase
    BY <2>0 DEF NotWaiting, ClientCalls
  <2>3. /\ f.op = d.op /\ f.step = d.step /\ f.last = d.last
        /\ f.awaited = d.awaited \ left /\ f.failed = d.failed /\ f.waits = d.waits \ left
        /\ f.phase = IF d.phase = "waiting" /\ d.waits \subseteq left THEN "ready" ELSE d.phase
    BY <2>1, <2>2 DEF ClientCalls
  <2>4. d.last \in Nat /\ d.last <= ownWrites
    BY <1>7, Bounds DEF CallSound, ClientCalls
  <2>5. Written(f, cache')
    <3>1. ASSUME NEW q \in followed, Sees(cache[q], d.last) PROVE Sees(cache'[q], d.last)
      BY <1>0, <1>5, <2>4, <3>1, MovesSee DEF Sees
    <3>2. QED
      BY <1>7, <2>3, <3>1 DEF CallSound, Written
  <2>6. Awaited(f, cache', Active')
    <3>1. ASSUME NEW q \in d.awaited \ left
          PROVE  /\ q \in followed \cap Active' /\ Refetched(cache'[q], d.last)
                 /\ q \in (d.waits \ left) \cup d.failed \/ HasIt(cache'[q], d.last)
      <4>1. /\ q \in followed \cap Active /\ Refetched(cache[q], d.last)
            /\ q \in d.waits \cup d.failed \/ HasIt(cache[q], d.last)
        BY <1>7 DEF CallSound, Awaited
      <4>2. q \in kept
        BY <4>1
      <4>3. cache'[q] = cache[q]
        BY <1>4, <4>1, <4>2
      <4>4. QED
        BY <1>3, <4>1, <4>2, <4>3
    <3>2. QED
      BY <2>3, <3>1 DEF Awaited
  <2>7. /\ f.phase \in {"sent", "applied"} => f.step \in DOMAIN Program[f.op] /\ Program[f.op][f.step].do # "refresh"
        /\ f.phase # "waiting" => f.waits = {}
    <3>1. /\ d.phase \in {"sent", "applied"} => d.step \in DOMAIN Program[d.op] /\ Program[d.op][d.step].do # "refresh"
          /\ d.phase # "waiting" => d.waits = {}
      BY <1>7 DEF CallSound
    <3> HIDE DEF f
    <3>2. QED
      BY <2>3, <3>1
  <2>8. less(d) # NoCall
    BY <2>1, ClientCallAssumption
  <2>9. QED
    BY <2>3, <2>4, <2>5, <2>6, <2>7, <2>8 DEF CallSound
<1>8. ASSUME NEW c \in Slots, calls'[c] # NoCall PROVE CallSound(calls'[c], cache', Active', ownWrites')
  <2>1. calls[c] # NoCall
    BY <1>1, <1>8 DEF NotWaiting
  <2>2. calls[c] \in ClientCalls /\ CallSound(calls[c], cache, Active, ownWrites)
    BY <1>0, <2>1 DEF ClientSound, MaybeCalls
  <2>3. calls'[c] = mounted(less(calls[c]))
    BY <1>1, <1>7, <2>2
  <2>4. QED
    BY <1>7, <2>2, <2>3
<1>9. QED
  BY <1>6, <1>8, SoundAgain

LEMMA StepSound ==
  ASSUME ClientTypeOK, ClientSound, ClientNext, EveryWriteRefreshed
  PROVE  ClientSound'
<1>0. /\ followed' = followed /\ ownWrites \in Nat /\ cache \in [followed -> Entries]
      /\ calls \in [Slots -> MaybeCalls] /\ \A q \in followed : promised[q] \in Nat
  BY StepMoves, Bounds DEF ClientTypeOK, MaybeCalls
<1>1. ASSUME UNCHANGED <<followed, at, cache, ownWrites, promised>>,
             \A c \in Slots : \/ calls'[c] = calls[c]
                              \/ calls'[c] = NoCall
                              \/ CallSound(calls'[c], cache, Active, ownWrites)
      PROVE  ClientSound'
  <2>1. \A c \in Slots : calls'[c] # NoCall => CallSound(calls'[c], cache', Active', ownWrites')
    BY <1>1, ActiveStays DEF ClientSound
  <2>2. \A q \in followed : EntrySound(q, cache', Active', promised'[q], ownWrites')
    BY <1>1, ActiveStays DEF ClientSound
  <2>3. QED
    BY <1>0, <2>1, <2>2, SoundAgain
<1>2. ASSUME Clear PROVE ClientSound'
  <2>1. ASSUME NEW q \in followed PROVE EntrySound(q, cache', Active', promised'[q], ownWrites')
    BY <1>2 DEF Clear, EntrySound, AtRest, Sees, Refetched, HasIt, HasData, NoEntry
  <2>2. \A c \in Slots : calls'[c] = NoCall
    BY <1>2 DEF Clear
  <2>3. QED
    BY <1>0, <2>1, <2>2, SoundAgain
<1>3. ASSUME NEW q \in followed, ReadStep(q) PROVE ClientSound'
  <2>0. at' = at /\ UNCHANGED <<followed, ownWrites, promised>>
    BY <1>3 DEF ReadStep, Load, Refocus, ServerReads, Answer, FetchFails, GrowOld, Collect
  <2>1. Active' = Active /\ \A r \in followed : Moves(cache[r], cache'[r], r \in Active)
    BY <1>3, ReadMoves DEF Moved
  <2>2. /\ \A r \in followed : EntrySound(r, cache', Active', promised'[r], ownWrites')
        /\ \A d \in ClientCalls :
             CallSound(d, cache, Active, ownWrites) => CallSound(d, cache', Active', ownWrites')
    BY <2>0, <2>1, MovedSound
  <2>3. ASSUME NEW c \in Slots, calls'[c] # NoCall
        PROVE  CallSound(calls'[c], cache', Active', ownWrites')
    <3> DEFINE d == calls[c]
    <3>1. d # NoCall
      BY <1>3, <2>3 DEF ReadStep, Load, Refocus, ServerReads, Answer, FetchFails, GrowOld, Collect, NotWaiting
    <3>2. d \in ClientCalls /\ CallSound(d, cache, Active, ownWrites)
      BY <1>0, <3>1 DEF ClientSound, MaybeCalls
    <3>3. CallSound(d, cache', Active', ownWrites')
      BY <2>2, <3>2
    <3>4. CASE Load(q) \/ Refocus(q) \/ ServerReads(q) \/ GrowOld(q) \/ Collect(q)
      BY <3>3, <3>4 DEF Load, Refocus, ServerReads, GrowOld, Collect
    <3>5. CASE Answer(q)
      <4>1. ASSUME q \in d.awaited PROVE HasIt(cache'[q], d.last)
        <5>1. Refetched(cache[q], d.last) /\ cache[q] \in Entries
          BY <1>0, <3>2, <4>1 DEF CallSound, Awaited
        <5>2. cache'[q] = Answered(cache[q]) /\ cache[q].fetch = "read"
          BY <1>0, <3>5 DEF Answer, Answered
        <5>3. QED
          BY <5>1, <5>2 DEF Refetched, HasIt, Answered, Stopped, Entries
      <4>2. calls'[c] = NotWaiting(d, {q})
        BY <3>5 DEF Answer
      <4>3. QED
        BY <3>2, <3>3, <4>1, <4>2, WaitsLess
    <3>6. CASE FetchFails(q)
      <4> DEFINE g == [d EXCEPT !.failed = @ \cup {q}]
      <4>1. g \in ClientCalls
        <5>1. d.failed \cup {q} \in SUBSET Queries
          BY <3>2 DEF ClientTypeOK, ClientCalls
        <5>2. QED
          BY <3>2, <5>1 DEF ClientCalls
      <4>2. /\ g.op = d.op /\ g.step = d.step /\ g.phase = d.phase /\ g.last = d.last /\ g.waits = d.waits
            /\ g.awaited = d.awaited /\ g.failed = d.failed \cup {q}
        BY <3>2 DEF ClientCalls
      <4>3. CallSound(g, cache', Active', ownWrites')
        <5> HIDE DEF g
        <5>1. QED
          BY <3>3, <4>2 DEF CallSound, Written, Awaited
      <4>4. CallSound(NotWaiting(g, {q}), cache', Active', ownWrites')
        <5> HIDE DEF g
        <5>1. QED
          BY <4>1, <4>2, <4>3, WaitsLess
      <4>5. calls'[c] = d \/ calls'[c] = NotWaiting(g, {q})
        BY <3>6 DEF FetchFails
      <4>6. QED
        BY <3>3, <4>4, <4>5
    <3>7. QED
      BY <1>3, <3>4, <3>5, <3>6 DEF ReadStep
  <2>4. QED
    BY <1>0, <2>2, <2>3, SoundAgain
<1>4. ASSUME NEW page \in AppPages, Arrive(page) PROVE ClientSound'
  <2>1. OnScreen(at') = PageLayers[page]
    BY <1>4 DEF Arrive, OnScreen
  <2>2. QED
    BY <1>4, <2>1, ScreenSound DEF Arrive
<1>5. ASSUME NEW layer \in OnScreen(at), NEW control \in Controls[layer], Begin(layer, control)
      PROVE  ClientSound'
  <2> DEFINE op == control.begins
             d == [op |-> op, step |-> 1, phase |-> "sent", layer |-> layer, here |-> TRUE,
                   last |-> 0, wrote |-> FALSE, waits |-> {}, awaited |-> {}, failed |-> {}]
  <2>1. op \in Operations
    <3>1. layer \in Layers
      BY <1>0, ClientCacheAssumption DEF OnScreen
    <3>2. QED
      BY <3>1, ClientCacheAssumption
  <2>2. 1 \in DOMAIN Program[op] /\ Program[op][1].do # "refresh"
    BY <2>1, OperationFacts
  <2>3. \A q \in Changes(op) \ Overlooked[op] : Due(op, 1, q)
    <3>1. DOMAIN Program[op] = 1 .. Len(Program[op]) /\ Len(Program[op]) \in Nat
      BY <2>1, OperationFacts
    <3>2. QED
      BY <2>1, <2>2, <3>1 DEF EveryWriteRefreshed, Due
  <2>4. CallSound(d, cache, Active, ownWrites)
    BY <1>0, <2>2, <2>3 DEF CallSound, Written, Awaited
  <2>5. PICK c \in Slots : calls' = [calls EXCEPT ![c] = d]
    BY <1>5 DEF Begin
  <2>6. \A e \in Slots : calls'[e] = calls[e] \/ CallSound(calls'[e], cache, Active, ownWrites)
    <3> HIDE DEF d
    <3>1. QED
      BY <1>0, <2>4, <2>5
  <2>7. QED
    BY <1>1, <1>5, <2>6 DEF Begin
<1>6. ASSUME NEW c \in Slots, CallStep(c) PROVE ClientSound'
  <2> DEFINE d == calls[c]
  <2>0. d \in ClientCalls /\ CallSound(d, cache, Active, ownWrites)
    BY <1>0, <1>6 DEF CallStep, Apply, Acked, RequestFails, Refreshed, MaybeCalls, ClientSound
  <2>1. d.op \in Operations /\ d.step \in Nat \ {0}
    BY <2>0 DEF ClientCalls
  <2>2. DOMAIN Program[d.op] = 1 .. Len(Program[d.op]) /\ Len(Program[d.op]) \in Nat
    BY <2>1, OperationFacts
  (* The step after a request: its refreshes are still due.                *)
  <2>3. ASSUME NEW next \in ClientCalls, d.phase \in {"sent", "applied"},
               next.op = d.op, next.step = d.step + 1, next.last = d.last, next.waits = d.waits,
               next.awaited = d.awaited, next.failed = d.failed, Proceed(c, next),
               UNCHANGED <<followed, at, session, ownWrites>>
        PROVE  ClientSound'
    <3>1. d.step \in DOMAIN Program[d.op] /\ Program[d.op][d.step].do # "refresh" /\ d.waits = {}
      BY <2>0, <2>3 DEF CallSound
    <3>2. \A q : Due(d.op, d.step, q) => Due(d.op, d.step + 1, q)
      BY <2>1, <2>2, <3>1 DEF Due
    <3>3. Written(next, cache) /\ Awaited(next, cache, Active) /\ next.last <= ownWrites
      BY <2>0, <2>3, <3>2 DEF CallSound, Written, Awaited
    <3>4. QED
      BY <2>3, <3>1, <3>3, ProceedSound
  <2>4. CASE Apply(c)
    <3> DEFINE n == ownWrites + 1
               next == [d EXCEPT !.phase = "applied", !.last = n, !.awaited = {}, !.failed = {}]
    <3>1. ownWrites' = n /\ calls' = [calls EXCEPT ![c] = next] /\ UNCHANGED <<followed, at, session, cache, promised>>
      BY <1>0, <2>0, <2>4 DEF Apply, ClientCalls
    <3>2. d.phase = "sent"
      BY <2>4 DEF Apply
    <3>3. /\ next.op = d.op /\ next.step = d.step /\ next.last = n /\ next.waits = d.waits
          /\ next.awaited = {} /\ next.phase = "applied"
      BY <2>0 DEF ClientCalls
    <3>4. d.step \in DOMAIN Program[d.op] /\ Program[d.op][d.step].do # "refresh" /\ d.waits = {}
      BY <2>0, <3>2 DEF CallSound
    <3>5. \A q \in Changes(d.op) \ Overlooked[d.op] : Due(d.op, d.step, q)
      BY <2>1, <2>2, <3>4 DEF EveryWriteRefreshed, Due
    <3> HIDE DEF next
    <3>6. CallSound(next, cache, Active, n)
      BY <1>0, <3>3, <3>4, <3>5 DEF CallSound, Written, Awaited
    <3>7. ASSUME NEW e \in Slots, calls'[e] # NoCall PROVE CallSound(calls'[e], cache', Active', ownWrites')
      <4>1. CASE e = c
        BY <1>0, <3>1, <3>6, <4>1, ActiveStays
      <4>2. CASE e # c
        <5>1. calls'[e] = calls[e] /\ CallSound(calls[e], cache, Active, ownWrites) /\ calls[e] \in ClientCalls
          BY <1>0, <3>1, <3>7, <4>2 DEF ClientSound, MaybeCalls
        <5>2. calls[e].last <= n
          BY <1>0, <5>1, Bounds DEF CallSound, ClientCalls
        <5>3. QED
          BY <3>1, <5>1, <5>2, ActiveStays DEF CallSound
      <4>3. QED
        BY <4>1, <4>2
    <3>8. ASSUME NEW q \in followed PROVE EntrySound(q, cache', Active', promised'[q], ownWrites')
      <4>1. EntrySound(q, cache, Active, promised[q], ownWrites)
        BY DEF ClientSound
      <4>2. promised[q] <= n
        BY <1>0, <4>1 DEF EntrySound
      <4>3. QED
        BY <3>1, <4>1, <4>2, ActiveStays DEF EntrySound
    <3>9. QED
      BY <1>0, <3>7, <3>8, SoundAgain
  <2>5. CASE Acked(c)
    <3> DEFINE next == [d EXCEPT !.step = @ + 1, !.wrote = TRUE]
    <3>1. next \in ClientCalls
      <4>1. d.step + 1 \in Nat \ {0}
        BY <2>1
      <4>2. QED
        BY <2>0, <4>1 DEF ClientCalls
    <3>2. /\ next.op = d.op /\ next.step = d.step + 1 /\ next.last = d.last /\ next.waits = d.waits
          /\ next.awaited = d.awaited /\ next.failed = d.failed
      BY <2>0 DEF ClientCalls
    <3>3. Proceed(c, next) /\ d.phase = "applied" /\ UNCHANGED <<followed, at, session, ownWrites>>
      BY <2>5 DEF Acked
    <3> HIDE DEF next
    <3>4. QED
      BY <2>3, <3>1, <3>2, <3>3
  <2>6. CASE RequestFails(c)
    <3> DEFINE next == [d EXCEPT !.step = @ + 1]
    <3>1. next \in ClientCalls
      <4>1. d.step + 1 \in Nat \ {0}
        BY <2>1
      <4>2. QED
        BY <2>0, <4>1 DEF ClientCalls
    <3>2. /\ next.op = d.op /\ next.step = d.step + 1 /\ next.last = d.last /\ next.waits = d.waits
          /\ next.awaited = d.awaited /\ next.failed = d.failed
      BY <2>0 DEF ClientCalls
    <3>3. /\ d.phase \in {"sent", "applied"} /\ UNCHANGED <<followed, at, session, ownWrites>>
          /\ Proceed(c, next) \/ (calls' = [calls EXCEPT ![c] = NoCall] /\ UNCHANGED <<cache, promised>>)
      BY <2>6 DEF RequestFails
    <3> HIDE DEF next
    <3>4. CASE Proceed(c, next)
      BY <2>3, <3>1, <3>2, <3>3, <3>4
    <3>5. CASE calls' = [calls EXCEPT ![c] = NoCall] /\ UNCHANGED <<cache, promised>>
      BY <1>0, <1>1, <3>3, <3>5
    <3>6. QED
      BY <3>3, <3>4, <3>5
  <2>7. CASE Refreshed(c)
    <3>1. Proceed(c, d) /\ d.phase = "ready" /\ UNCHANGED <<followed, at, session, ownWrites>>
      BY <2>7 DEF Refreshed
    <3>2. d.waits = {} /\ d.last <= ownWrites /\ Written(d, cache) /\ Awaited(d, cache, Active)
      BY <2>0, <3>1 DEF CallSound
    <3>3. QED
      BY <2>0, <3>1, <3>2, ProceedSound
  <2>8. QED
    BY <1>6, <2>4, <2>5, <2>6, <2>7 DEF CallStep
<1>7. ASSUME SessionStep PROVE ClientSound'
  <2>1. CASE Expire
    BY <1>1, <2>1 DEF Expire
  <2>2. CASE SentToLogin
    <3>1. OnScreen(at') = {}
      BY <2>2, ClientCacheAssumption DEF SentToLogin, OnScreen
    <3>2. QED
      BY <2>2, <3>1, ScreenSound DEF SentToLogin
  <2>3. CASE NeedsWorkspace
    <3>1. OnScreen("login") = {} /\ OnScreen("onboarding") = {}
      BY ClientCacheAssumption DEF OnScreen
    <3>2. Active' = Active
      BY <2>3, <3>1 DEF NeedsWorkspace, Active, ShownBy
    <3>3. /\ \A q \in followed : EntrySound(q, cache', Active', promised'[q], ownWrites')
          /\ \A c \in Slots : calls'[c] # NoCall => CallSound(calls'[c], cache', Active', ownWrites')
      BY <2>3, <3>2 DEF NeedsWorkspace, ClientSound
    <3>4. QED
      BY <1>0, <3>3, SoundAgain
  <2>4. CASE SignOut \/ SetUpWorkspace \/ \E account \in Accounts : SignIn(account)
    BY <1>2, <2>4 DEF SignOut, SetUpWorkspace, SignIn, FinishAuthentication
  <2>5. QED
    BY <1>7, <2>1, <2>2, <2>3, <2>4 DEF SessionStep
<1>8. QED
  BY <1>3, <1>4, <1>5, <1>6, <1>7 DEF ClientNext

(* What the browser takes for fresh has every write of its own finished    *)
(* operations, what a finished refresh left on the screen has the write it *)
(* followed, and all of it was read in this session - whatever is loaded,  *)
(* invalidated, cancelled, lost or begun meanwhile, if every operation     *)
(* refreshes what it changes after each of its requests (the mutation      *)
(* hooks of apps/client/src/features), the queries listed as overlooked    *)
(* apart.                                                                  *)
THEOREM CacheAlwaysFaithful ==
  ASSUME EveryWriteRefreshed
  PROVE  ClientSpec => []CacheFaithful
<1>1. ClientTypeOK /\ ClientSound /\ [ClientNext]_clientVars => ClientSound'
  <2> SUFFICES ASSUME ClientTypeOK, ClientSound, [ClientNext]_clientVars
               PROVE  ClientSound'
    OBVIOUS
  <2>1. CASE UNCHANGED clientVars
    <3>1. /\ \A q \in followed : EntrySound(q, cache', Active', promised'[q], ownWrites')
          /\ \A c \in Slots : calls'[c] # NoCall => CallSound(calls'[c], cache', Active', ownWrites')
      BY <2>1, ActiveStays DEF clientVars, ClientSound
    <3>2. QED
      BY <2>1, <3>1, SoundAgain DEF clientVars
  <2>2. QED
    BY <2>1, StepSound
<1>2. ClientTypeOK /\ ClientSound /\ OneOwner => CacheFaithful
  BY SoundFaithful DEF CacheFaithful
<1>3. QED
  BY <1>1, <1>2, InitSound, ClientTypeCorrect, AlwaysOneOwner, PTL DEF ClientSpec

=============================================================================
