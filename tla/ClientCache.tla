----------------------------- MODULE ClientCache -----------------------------
(* The browser client between its pages and the API: what the query cache  *)
(* holds, when it reads again, and the operations the pages' controls      *)
(* begin, each a program of requests and of queries it refreshes after     *)
(* them.  The cache is @tanstack/react-query, set up by                    *)
(* apps/client/src/lib/query-client.ts; the pages' programs and what they  *)
(* show are the CONSTANTS, given by ClientPages.                           *)
(*                                                                         *)
(* A query's data is the number of this session's writes the server had    *)
(* applied when it was read: an answer shows a write iff it was read after *)
(* it.  One key per query: a list with another search is another query.    *)
EXTENDS Integers, Sequences, FiniteSets

CONSTANTS
  Queries, Operations,
  Program,       \* operation -> its steps: [do, on]
  Overlooked,    \* operation -> the queries it changes and leaves to their age
  Layers,        \* components that come and go as one: shell, pages, drawers
  Shows,         \* layer -> the queries it uses
  Loads,         \* layer -> those of them its route's loader ensures
  Controls,      \* layer -> what its controls begin, unless what is running
  PageLayers,    \* page -> the layers it is made of
  Accounts, NoOne,
  NoCall,        \* a slot without an operation
  CallSlots,     \* bound: operations under way at a time, 1 .. CallSlots
  MaxWrites      \* bound: writes of a session

(* What a step does: a request that writes, one whose failure the program  *)
(* goes on after, the queries to refresh.                                  *)
Doings == {"write", "try", "refresh"}

Steps == [do : Doings, on : SUBSET Queries]
AppPages == DOMAIN PageLayers

(* No operation begins by refreshing, none is without a step.              *)
ASSUME ClientCacheAssumption ==
  /\ Program \in [Operations -> Seq(Steps)]
  /\ \A op \in Operations : Program[op] # <<>> /\ Program[op][1].do # "refresh"
  /\ Overlooked \in [Operations -> SUBSET Queries]
  /\ Shows \in [Layers -> SUBSET Queries] /\ Loads \in [Layers -> SUBSET Queries]
  /\ PageLayers \in [AppPages -> SUBSET Layers]
  /\ Controls \in [Layers -> SUBSET [begins : Operations, unless : SUBSET Operations]]
  /\ {CallSlots, MaxWrites} \subseteq Nat \ {0}
  /\ AppPages \cap {"login", "onboarding"} = {}
  /\ NoOne \notin Accounts

NoData == -1
Slots == 1 .. CallSlots

VARIABLES
  followed,    \* the queries followed; the others are left out
  at,          \* the page, or login, or onboarding
  session,     \* whose session the browser's cookie is
  cache,       \* followed -> entry
  ownWrites,   \* how many writes the server has applied
  calls,       \* slot -> operation under way, or NoCall
  promised     \* followed -> the last write a finished operation did not overlook

clientVars == <<followed, at, session, cache, ownWrites, calls, promised>>

Entries == [
  data : {NoData} \cup 0 .. MaxWrites, owner : Accounts \cup {NoOne},
  fresh : BOOLEAN,   \* answered less than staleTime ago, not invalidated since
  fetch : {"idle", "asked", "read"}, read : 0 .. MaxWrites, reader : Accounts \cup {NoOne},
  late : BOOLEAN,    \* an invalidation came while the first answer was awaited
  passed : BOOLEAN ] \* the data is such an answer

NoEntry == [data |-> NoData, owner |-> NoOne, fresh |-> FALSE, fetch |-> "idle", read |-> 0,
            reader |-> NoOne, late |-> FALSE, passed |-> FALSE]

ClientCalls == [
  op : Operations, step : Nat \ {0},
  phase : {"sent", "applied", "ready", "waiting"},
  layer : Layers,
  here : BOOLEAN,       \* its component has stayed on the screen
  last : 0 .. MaxWrites, \* its last write
  wrote : BOOLEAN,
  waits : SUBSET Queries,    \* refetches it waits for
  awaited : SUBSET Queries,  \* refreshed since its last write, on the screen ever since
  failed : SUBSET Queries ]  \* those of them whose refetch failed

ASSUME ClientCallAssumption == NoCall \notin ClientCalls

ClientTypeOK ==
  /\ followed \subseteq Queries
  /\ at \in AppPages \cup {"login", "onboarding"}
  /\ session \in Accounts \cup {NoOne}
  /\ cache \in [followed -> Entries]
  /\ ownWrites \in 0 .. MaxWrites
  /\ calls \in [Slots -> ClientCalls \cup {NoCall}]
  /\ promised \in [followed -> 0 .. MaxWrites]

-----------------------------------------------------------------------------
(* What is on the screen.                                                  *)
OnScreen(page) == IF page \in AppPages THEN PageLayers[page] ELSE {}
ShownBy(layers) == (UNION {Shows[l] : l \in layers}) \cap followed
Active == ShownBy(OnScreen(at))

(* A fetch of an entry with data keeps the data until it is answered.      *)
HasData(entry) == entry.data # NoData
Asked(entry) == [entry EXCEPT !.fetch = "asked", !.read = 0, !.reader = NoOne]
Stopped(entry) == [entry EXCEPT !.fetch = "idle", !.read = 0, !.reader = NoOne, !.late = FALSE]

(* Mounting, refocusing: what is not fresh is fetched (staleTime 30 s).    *)
Remounted(entry) ==
  IF entry.fetch = "idle" /\ ~entry.fresh THEN Asked(entry) ELSE entry

(* Mutant: a fetch that is under way is not cancelled (cancelRefetch off). *)
Invalidated_NotCancelled(entry, shown) ==
  IF ~shown THEN [entry EXCEPT !.fresh = FALSE]
  ELSE IF entry.fetch = "idle" THEN Asked([entry EXCEPT !.fresh = FALSE]) ELSE entry

(* invalidateQueries: what is shown is fetched anew, its old fetch         *)
(* cancelled; a first fetch is not, and its answer will count as fresh.    *)
Invalidated(entry, shown) ==
  CASE ~HasData(entry) /\ entry.fetch # "idle" -> [entry EXCEPT !.late = TRUE]
    [] ~HasData(entry) /\ entry.fetch = "idle" -> IF shown THEN Asked(entry) ELSE entry
    [] HasData(entry) /\ shown -> Asked([entry EXCEPT !.fresh = FALSE])
    [] HasData(entry) /\ ~shown -> [entry EXCEPT !.fresh = FALSE]

(* The promises that resolve with the fetches of these queries.            *)
NotWaiting(c, Q) ==
  IF c = NoCall THEN NoCall
  ELSE [c EXCEPT !.waits = @ \ Q,
                 !.phase = IF @ = "waiting" /\ c.waits \subseteq Q THEN "ready" ELSE @]

ClientInit ==
  /\ followed \subseteq Queries
  /\ at = "login" /\ session = NoOne
  /\ cache = [q \in followed |-> NoEntry]
  /\ ownWrites = 0
  /\ calls = [c \in Slots |-> NoCall]
  /\ promised = [q \in followed |-> 0]

-----------------------------------------------------------------------------
(* Reading.                                                                *)

(* A link's pointer, or the route's loader, asks for what has no data.     *)
Load(q) ==
  /\ session # NoOne
  /\ ~HasData(cache[q]) /\ cache[q].fetch = "idle"
  /\ cache' = [cache EXCEPT ![q] = Asked(@)]
  /\ UNCHANGED <<followed, at, session, ownWrites, calls, promised>>

(* The screen changes to these layers: the components that leave stop      *)
(* their fetches (the client consumes the abort signal), which resolves    *)
(* their promises, and those that come fetch what is not fresh.            *)
Screen(layers) ==
  LET kept == ShownBy(OnScreen(at) \cap layers)
      left == Active \ kept
      came == ShownBy(layers) \ kept
      after(q) == LET entry == IF q \in left THEN Stopped(cache[q]) ELSE cache[q]
                  IN IF q \in came THEN Remounted(entry) ELSE entry
      mounted(c) == IF c = NoCall THEN NoCall
                    ELSE [c EXCEPT !.here = @ /\ c.layer \in layers, !.awaited = @ \ left]
  IN /\ cache' = [q \in followed |-> after(q)]
     /\ calls' = [c \in Slots |-> mounted(NotWaiting(calls[c], left))]

(* A page appears once its loader has data; what its components use        *)
(* besides is fetched when they mount.                                     *)
Arrive(page) ==
  /\ session # NoOne /\ page # at
  /\ \A layer \in PageLayers[page] : \A q \in Loads[layer] \cap followed : HasData(cache[q])
  /\ at' = page
  /\ Screen(PageLayers[page])
  /\ UNCHANGED <<followed, session, ownWrites, promised>>

(* The window gains focus, the connection comes back.                      *)
Refocus(q) ==
  /\ q \in Active
  /\ cache[q].fetch = "idle" /\ ~cache[q].fresh
  /\ cache' = [cache EXCEPT ![q] = Asked(@)]
  /\ UNCHANGED <<followed, at, session, ownWrites, calls, promised>>

ServerReads(q) ==
  /\ cache[q].fetch = "asked" /\ session # NoOne
  /\ cache' = [cache EXCEPT ![q].fetch = "read", ![q].read = ownWrites, ![q].reader = session]
  /\ UNCHANGED <<followed, at, session, ownWrites, calls, promised>>

Answer(q) ==
  /\ cache[q].fetch = "read"
  /\ cache' = [cache EXCEPT ![q] = [Stopped(@) EXCEPT
       !.data = cache[q].read, !.owner = cache[q].reader, !.fresh = TRUE, !.passed = cache[q].late]]
  /\ calls' = [c \in Slots |-> NotWaiting(calls[c], {q})]
  /\ UNCHANGED <<followed, at, session, ownWrites, promised>>

(* It fails for good: after one retry, or at once when it is refused.      *)
FetchFails(q) ==
  /\ cache[q].fetch # "idle"
  /\ cache' = [cache EXCEPT ![q] = [Stopped(@) EXCEPT !.fresh = FALSE]]
  /\ calls' = [c \in Slots |->
       IF calls[c] # NoCall /\ q \in calls[c].waits
       THEN NotWaiting([calls[c] EXCEPT !.failed = @ \cup {q}], {q})
       ELSE calls[c]]
  /\ UNCHANGED <<followed, at, session, ownWrites, promised>>

(* 30 seconds after it was answered.                                       *)
GrowOld(q) ==
  /\ HasData(cache[q]) /\ cache[q].fresh
  /\ cache' = [cache EXCEPT ![q].fresh = FALSE]
  /\ UNCHANGED <<followed, at, session, ownWrites, calls, promised>>

(* Five minutes after nothing showed it any more (gcTime).                 *)
Collect(q) ==
  /\ q \notin Active
  /\ HasData(cache[q]) /\ cache[q].fetch = "idle"
  /\ cache' = [cache EXCEPT ![q] = NoEntry]
  /\ UNCHANGED <<followed, at, session, ownWrites, calls, promised>>

-----------------------------------------------------------------------------
(* Operations.                                                             *)
Changes(op) == UNION {Program[op][i].on : i \in {j \in DOMAIN Program[op] : Program[op][j].do # "refresh"}}

(* What an operation changes and does not overlook it refreshes after each *)
(* of its requests: so do those of ClientPages.                            *)
EveryWriteRefreshed ==
  \A op \in Operations : \A q \in Changes(op) \ Overlooked[op] : \A i \in DOMAIN Program[op] :
    Program[op][i].do # "refresh" =>
      \E j \in DOMAIN Program[op] : j > i /\ Program[op][j].do = "refresh" /\ q \in Program[op][j].on

(* A control of a layer on the screen is begun; its component disables it  *)
(* while an operation it shares a busy flag with is under way, and knows   *)
(* only those begun since it was mounted.                                  *)
Begin(layer, control) ==
  /\ \A c \in Slots : calls[c] # NoCall /\ calls[c].here => calls[c].op \notin control.unless
  /\ \E c \in Slots :
       /\ calls[c] = NoCall /\ \A d \in Slots : d < c => calls[d] # NoCall
       /\ calls' = [calls EXCEPT ![c] =
            [op |-> control.begins, step |-> 1, phase |-> "sent", layer |-> layer, here |-> TRUE, last |-> 0,
             wrote |-> FALSE, waits |-> {}, awaited |-> {}, failed |-> {}]]
  /\ UNCHANGED <<followed, at, session, cache, ownWrites, promised>>

(* The server applies the request.                                         *)
Apply(c) ==
  /\ calls[c] # NoCall /\ calls[c].phase = "sent"
  /\ session # NoOne /\ ownWrites < MaxWrites
  /\ ownWrites' = ownWrites + 1
  /\ calls' = [calls EXCEPT ![c].phase = "applied", ![c].last = ownWrites + 1,
                            ![c].awaited = {}, ![c].failed = {}]
  /\ UNCHANGED <<followed, at, session, cache, promised>>

(* What an operation, now this one, does next: the next request; the       *)
(* refresh of queries, which waits for the fetches of those on the screen, *)
(* a first fetch that was under way included; or nothing more: its control *)
(* is enabled again, and the user told it is done.  Nothing is refreshed   *)
(* when nothing was written.                                               *)
Proceed(c, call) ==
  LET program == Program[call.op]
      over == call.step > Len(program)
      next == program[call.step]
  IN IF over \/ (next.do = "refresh" /\ ~call.wrote)
     THEN /\ promised' = [q \in followed |->
               IF call.wrote /\ q \in Changes(call.op) \ Overlooked[call.op] /\ call.last > promised[q]
               THEN call.last ELSE promised[q]]
          /\ calls' = [calls EXCEPT ![c] = NoCall]
          /\ UNCHANGED cache
     ELSE IF next.do = "refresh"
     THEN LET these == next.on \cap followed
              waited == these \cap Active
          IN /\ cache' = [q \in followed |->
                  IF q \in these THEN Invalidated(cache[q], q \in Active) ELSE cache[q]]
             /\ calls' = [calls EXCEPT ![c] =
                  [call EXCEPT !.step = @ + 1, !.waits = waited, !.awaited = @ \cup waited,
                               !.failed = @ \ waited,
                               !.phase = IF waited = {} THEN "ready" ELSE "waiting"]]
             /\ UNCHANGED promised
     ELSE /\ calls' = [calls EXCEPT ![c] = [call EXCEPT !.phase = "sent"]]
          /\ UNCHANGED <<cache, promised>>

Acked(c) ==
  /\ calls[c] # NoCall /\ calls[c].phase = "applied"
  /\ Proceed(c, [calls[c] EXCEPT !.step = @ + 1, !.wrote = TRUE])
  /\ UNCHANGED <<followed, at, session, ownWrites>>

(* The request is refused, or its answer is lost.  The program ends with   *)
(* the error shown; the next file is tried.                                *)
RequestFails(c) ==
  /\ calls[c] # NoCall /\ calls[c].phase \in {"sent", "applied"}
  /\ IF Program[calls[c].op][calls[c].step].do = "try"
     THEN Proceed(c, [calls[c] EXCEPT !.step = @ + 1])
     ELSE calls' = [calls EXCEPT ![c] = NoCall] /\ UNCHANGED <<cache, promised>>
  /\ UNCHANGED <<followed, at, session, ownWrites>>

(* What it waited for has been read, or given up.                          *)
Refreshed(c) ==
  /\ calls[c] # NoCall /\ calls[c].phase = "ready"
  /\ Proceed(c, calls[c])
  /\ UNCHANGED <<followed, at, session, ownWrites>>

-----------------------------------------------------------------------------
(* Sessions.                                                               *)

(* queryClient.clear(): the entries go, with the fetches that would fill   *)
(* them.  Operations begun before go on unseen: what they refresh then is  *)
(* only read once more, which is left out.                                 *)
Clear ==
  /\ cache' = [q \in followed |-> NoEntry]
  /\ calls' = [c \in Slots |-> NoCall]
  /\ ownWrites' = 0
  /\ promised' = [q \in followed |-> 0]

(* The session ends on the server.                                         *)
Expire ==
  /\ session # NoOne
  /\ session' = NoOne
  /\ UNCHANGED <<followed, at, cache, ownWrites, calls, promised>>

(* A navigation finds no session: the cache stays.                         *)
SentToLogin ==
  /\ at # "login" /\ session = NoOne
  /\ at' = "login"
  /\ Screen({})
  /\ UNCHANGED <<followed, session, ownWrites, promised>>

(* signOut, whose request may fail.                                        *)
SignOut ==
  /\ at \in AppPages
  /\ session' \in {NoOne, session}
  /\ at' = "login"
  /\ Clear
  /\ UNCHANGED followed

(* Mutant: the cache outlives a session that ran out.                      *)
FinishAuthentication_Keeps == UNCHANGED <<cache, ownWrites, calls, promised>>

FinishAuthentication == Clear

SignIn(account) ==
  /\ at = "login" /\ session = NoOne
  /\ session' = account
  /\ FinishAuthentication
  /\ UNCHANGED <<followed, at>>

(* An account without a workspace; it creates one.                         *)
NeedsWorkspace ==
  /\ at = "login" /\ session # NoOne
  /\ \A q \in followed : cache[q] = NoEntry
  /\ at' = "onboarding"
  /\ UNCHANGED <<followed, session, cache, ownWrites, calls, promised>>

SetUpWorkspace ==
  /\ at = "onboarding" /\ session # NoOne
  /\ at' = "login"
  /\ Clear
  /\ UNCHANGED <<followed, session>>

-----------------------------------------------------------------------------
ReadStep(q) ==
  \/ Load(q) \/ Refocus(q) \/ ServerReads(q) \/ Answer(q)
  \/ FetchFails(q) \/ GrowOld(q) \/ Collect(q)

CallStep(c) == Apply(c) \/ Acked(c) \/ RequestFails(c) \/ Refreshed(c)

SessionStep ==
  \/ Expire \/ SentToLogin \/ SignOut \/ NeedsWorkspace \/ SetUpWorkspace
  \/ \E account \in Accounts : SignIn(account)

ClientNext ==
  \/ \E q \in followed : ReadStep(q)
  \/ \E page \in AppPages : Arrive(page)
  \/ \E layer \in OnScreen(at) : \E control \in Controls[layer] : Begin(layer, control)
  \/ \E c \in Slots : CallStep(c)
  \/ SessionStep

ClientSpec == ClientInit /\ [][ClientNext]_clientVars

-----------------------------------------------------------------------------
(* Data the cache takes for fresh has every write of a finished operation  *)
(* that changes it, overlooked ones apart, unless a refresh met the first  *)
(* fetch of it and let an answer read before through.                      *)
(* (the hooks of apps/client/src/features, onSuccess)                      *)
ReadOwnWrites ==
  \A q \in followed :
    HasData(cache[q]) /\ cache[q].fresh => cache[q].passed \/ cache[q].data >= promised[q]

(* When an operation is done waiting for a query, what the screen shows of *)
(* it has the operation's write, or could not be read, or is the answer of *)
(* a first fetch.                                                          *)
(* (apps/client/src/features/deals/deal-api.ts:86)                         *)
BusyUntilShown ==
  \A c \in Slots : calls[c] # NoCall =>
    \A q \in calls[c].awaited \ (calls[c].waits \cup calls[c].failed) :
      cache[q].passed \/ cache[q].data >= calls[c].last

(* Nobody sees what was read in another account's session.                 *)
(* (auth-pages.tsx finishAuthentication, app-shell.tsx signOut)            *)
OneOwner ==
  session # NoOne => \A q \in followed :
    /\ HasData(cache[q]) => cache[q].owner = session
    /\ cache[q].fetch = "read" => cache[q].reader = session

(* What the browser shows is current, of its own writes and of its user.   *)
CacheFaithful == ReadOwnWrites /\ BusyUntilShown /\ OneOwner

=============================================================================
