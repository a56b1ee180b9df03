----------------------------- MODULE MCContacts -----------------------------
(* Contacts, for TLC: an import of two parts and an export of two pages,   *)
(* alone or together; the contact list; its filters; the form of a         *)
(* segment; requests for scores, segments and companies; and the browser   *)
(* client's cache.  Each keeps its own state: focus names the one that     *)
(* runs.                                                                   *)
EXTENDS Contacts, ClientPages, TLC

VARIABLE focus

One(C) == CHOOSE x \in C : TRUE

(* Two rows and two rows: one row of each part names the same address, a   *)
(* row names two identifiers, and one names none.                          *)
MCPartRows == (0 :> <<{"a"}, {"b", "x"}>>) @@ (1 :> <<{"b"}, {}>>)

MCDeltas == {-1, 1}

MCCompanyNames == ("known" :> "company 1") @@ ("unknown" :> "company 2")

(* Bounds.  Alone a job meets MaxFaults faults and contacts created by     *)
(* others, with one identifier or, beside an export, none; together they   *)
(* meet no fault, and the import is what creates.                          *)
Both == importRequest # "none" /\ exportRequest # "none"

JobsMove ==
  \/ (ImportNext \/ ExportNext) /\ (Both => jobFaults' = 0)
  \/ ~Both /\ \E ids \in SUBSET Identifiers :
       /\ Cardinality(ids) = IF importRequest = "none" THEN 0 ELSE 1
       /\ CreateContact(ids)

(* Bounds: filters set at a time, and one view saved as a segment.         *)
MaxFilters == 2
FiltersSet == Cardinality({f \in DOMAIN typed : typed[f] # ContactSearchDefaults[f]})

SearchMoves == savedView = Absent /\ SearchNext /\ FiltersSet' <= MaxFilters

(* Bounds: once a walk through the list is over, the next one starts; and  *)
(* nobody else writes while contacts are selected.                         *)
ViewMoves ==
  /\ ViewNext
  /\ ~walk.on => walk'.on
  /\ checked # {} => checked' # checked \/ sort' # sort

(* Bounds: contacts are archived or restored beside one request at most,   *)
(* where segments are concerned the first one only.                        *)
RecordDies == \E r \in RecordRequests : RecordRequestDies(r)
Archiving ==
  /\ Cardinality({r \in RecordRequests : recordReq[r] # IdleRecord}) <= 1
  /\ \E C \in (SUBSET ContactIds) \ {{}} :
       /\ focus = "segments" => C = {One(ContactIds)}
       /\ SetArchived(C) \/ SetRestored(C)

RecordsMove ==
  \/ focus = "scores" /\ (ScoreNext \/ Archiving)
  \/ focus = "segments" /\ (SegmentNext \/ Archiving \/ RecordDies)
  \/ focus = "companies" /\ (CompanyNext \/ Archiving \/ RecordDies)

NotRecords == UNCHANGED <<jobVars, viewVars, filterVars>>

-----------------------------------------------------------------------------
(* Bounds: one query is followed at a time.  Operations that treat it      *)
(* alike are explored as one that can be begun while it runs, or as two;   *)
(* pages that treat it alike as one; and of the queries that all           *)
(* operations and pages treat alike one is followed.                       *)
Alike(S, Treats(_)) == {{y \in S : Treats(y) = Treats(x)} : x \in S}
AllControls == UNION {ClientControls[layer] : layer \in ClientLayerNames}
Apart(op, other) == \E x \in AllControls : x.begins = op /\ other \notin x.unless
Representatives(C) ==
  LET overlapping == {op \in C : Apart(op, op)}
      pairs == {{op, other} : <<op, other>> \in {p \in C \X C : p[1] # p[2] /\ Apart(p[1], p[2])}}
  IN CASE overlapping # {} -> {One(overlapping)}
       [] overlapping = {} /\ pairs # {} -> One(pairs)
       [] OTHER -> {One(C)}

(* A refresh of other queries only takes time.                             *)
Footprint(op, q) ==
  LET seen == [i \in DOMAIN ClientProgram[op] |-> <<ClientProgram[op][i].do, q \in ClientProgram[op][i].on>>]
  IN SelectSeq(seen, LAMBDA step : step # <<"refresh", FALSE>>)

(* Only those are explored that change it and do not leave it to its age.  *)
Concerned(q) == {op \in ClientOperations : q \in Changes(op) \ ClientOverlooked[op]}

OperationsExplored ==
  [q \in ClientQueries |->
     LET footprint(op) == Footprint(op, q) IN UNION {Representatives(C) : C \in Alike(Concerned(q), footprint)}]

Scenery(page, q, operations) ==
  LET layers == ClientPageLayers[page]
      begun == {control.begins : control \in UNION {ClientControls[layer] : layer \in layers}}
  IN [shown |-> {layer \in layers : q \in ClientShows[layer]} # {},
      loaded |-> {layer \in layers : q \in ClientLoads[layer]} # {},
      always |-> q \in ClientShows["shell"],
      begins |-> begun \cap operations]

PagesExplored ==
  [q \in ClientQueries |->
     LET scenery(page) == Scenery(page, q, OperationsExplored[q])
     IN {One(C) : C \in Alike(DOMAIN ClientPageLayers, scenery)}]

Treatment(q) ==
  <<{Footprint(op, q) : op \in OperationsExplored[q]}, q \in ClientShows["shell"]>>

QueriesExplored == {One(C) : C \in Alike(ClientQueries, Treatment)}

(* The theorem about the cache holds of pages like these.                  *)
ASSUME PagesRefresh == EveryWriteRefreshed

(* Bounds: sessions begin and end, and answers grow old, between           *)
(* operations; only the first account's operations are explored; two run   *)
(* at a time when each is one request and a refresh.                       *)
Quiet == \A c \in Slots : calls[c] = NoCall
GrowsOld == calls' = calls /\ \E q \in followed : cache'[q] = [cache[q] EXCEPT !.fresh = FALSE] /\ cache' # cache

OneAtATime(q) ==
  LET running == {c \in Slots : calls'[c] # NoCall}
  IN Cardinality(running) > 1 => \A c \in running : Len(Footprint(calls'[c].op, q)) <= 2

ClientMoves ==
  \E q \in followed :
    \/ ReadStep(q) /\ (GrowsOld => Quiet)
    \/ \E page \in PagesExplored[q] : Arrive(page)
    \/ /\ session = One(Accounts)
       /\ \E layer \in OnScreen(at) :
            \E control \in {x \in ClientControls[layer] : x.begins \in OperationsExplored[q]} :
              Begin(layer, control)
       /\ OneAtATime(q)
    \/ \E c \in Slots : CallStep(c)
    \/ Quiet /\ SessionStep

-----------------------------------------------------------------------------
MCContactsInit ==
  /\ focus \in {"jobs", "list", "filters", "segmentForm", "scores", "segments", "companies", "client"}
  /\ followed \in IF focus = "client" THEN {{q} : q \in QueriesExplored} ELSE {{}}
  /\ JobInit /\ ViewInit /\ FilterInit /\ RecordInit /\ ClientInit
  /\ focus # "jobs" => importRequest = "none" /\ exportRequest = "none"
  /\ focus # "list" => sort = [column |-> "createdAt", ascending |-> TRUE]

MCContactsNext ==
  /\ UNCHANGED focus
  /\ \/ focus = "jobs" /\ JobsMove /\ UNCHANGED <<viewVars, filterVars, recordVars, clientVars>>
     \/ focus = "list" /\ ViewMoves /\ UNCHANGED <<jobVars, filterVars, recordVars, clientVars>>
     \/ focus = "filters" /\ SearchMoves /\ UNCHANGED <<jobVars, viewVars, recordVars, clientVars>>
     \/ focus = "segmentForm" /\ SegmentFormNext /\ UNCHANGED <<jobVars, viewVars, recordVars, clientVars>>
     \/ RecordsMove /\ NotRecords /\ UNCHANGED clientVars
     \/ focus = "client" /\ ClientMoves /\ NotRecords /\ UNCHANGED recordVars

MCContactsSpec ==
  MCContactsInit /\ [][MCContactsNext]_<<focus, jobVars, viewVars, filterVars, recordVars, clientVars>> /\ JobFairness

=============================================================================
