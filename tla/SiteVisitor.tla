---------------------------- MODULE SiteVisitor ----------------------------
(***************************************************************************)
(* The tracking script in a visitor's browser, and the public routes that  *)
(* answer it.                                                              *)
(*                                                                         *)
(*   apps/server/src/public/templates.ts            the script             *)
(*   apps/server/src/public/tracking-routes.ts      the beacon             *)
(*   apps/server/src/public/site-message-routes.ts  messages, impressions  *)
(*   packages/database/src/web/repository.ts        the SQL                *)
(*                                                                         *)
(* One browser: its localStorage is shared by the tabs, sessionStorage and *)
(* the script's variables belong to a tab.  An answer handled by the page  *)
(* is an action of its own, and any request or answer may be lost.  Origin *)
(* checks, times and patterns of a message only make the answer smaller.   *)
(***************************************************************************)
EXTENDS Naturals, FiniteSets, FiniteSetsExt

CONSTANTS
  Tabs,          \* tabs of the browser
  KnownPeople,       \* contacts, each with an address of its own
  SiteMessages,  \* ids of the site messages
  Calls,         \* fetches under way at the same time
  MaxVisitors,   \* bound: visitor ids the server issues
  MaxRecords,    \* bound: records the browser sends
  Nil            \* an absent id, address, tab or message

ASSUME VisitorAssumption ==
  /\ Nil \notin Tabs \cup KnownPeople \cup SiteMessages \cup Nat
  /\ MaxVisitors \in Nat /\ MaxRecords \in Nat

Visitor == 1 .. MaxVisitors
Someone == KnownPeople \cup {Nil}

VARIABLES
  page,       \* Tabs -> the script's variables, in a page that is loaded
  stored,     \* the visitor id in localStorage
  shown,      \* Tabs -> the messages sessionStorage says were shown
  call,       \* Calls -> the fetch and what its continuation needs
  issued,     \* visitor ids the server has issued
  identity,   \* Visitor -> the contact identified last behind the id
  reachable,  \* the contacts that are not archived
  offered,    \* the site messages that are published
  counted,    \* SiteMessages -> impressions
  sent,       \* records sent so far
  blind       \* records sent by pages that could not know an id (history)

visitorVars == <<page, stored, shown, call, issued, identity, reachable, offered, counted,
                 sent, blind>>

PageState ==
  [loaded : BOOLEAN, consent : BOOLEAN, email : Someone, visitor : Visitor \cup {Nil},
   knows : BOOLEAN]
Unloaded == [loaded |-> FALSE, consent |-> FALSE, email |-> Nil, visitor |-> Nil, knows |-> FALSE]

(* A fetch: the tab that waits for it, whether it is page()'s or track()'s, *)
(* the visitor id and the address it carries, the answer.                   *)
CallSteps == {"free", "record", "recorded", "messages", "listed", "impression"}
CallState ==
  [step : CallSteps, tab : Tabs \cup {Nil}, viewing : BOOLEAN, visitor : Visitor \cup {Nil},
   email : Someone, identified : BOOLEAN, message : SiteMessages \cup {Nil}]
Free ==
  [step |-> "free", tab |-> Nil, viewing |-> FALSE, visitor |-> Nil, email |-> Nil,
   identified |-> FALSE, message |-> Nil]

VisitorTypeOK ==
  /\ page \in [Tabs -> PageState]
  /\ stored \in Visitor \cup {Nil}
  /\ shown \in [Tabs -> SUBSET SiteMessages]
  /\ call \in [Calls -> CallState]
  /\ issued \in 0 .. MaxVisitors
  /\ identity \in [Visitor -> Someone]
  /\ reachable \subseteq KnownPeople /\ offered \subseteq SiteMessages
  /\ counted \in [SiteMessages -> Nat]
  /\ sent \in 0 .. MaxRecords /\ blind \in Nat

VisitorInit ==
  /\ page = [t \in Tabs |-> Unloaded]
  /\ stored = Nil
  /\ shown = [t \in Tabs |-> {}]
  /\ call = [c \in Calls |-> Free]
  /\ issued = 0
  /\ identity = [v \in Visitor |-> Nil]
  /\ reachable = KnownPeople /\ offered = SiteMessages
  /\ counted = [m \in SiteMessages |-> 0]
  /\ sent = 0 /\ blind = 0

siteVars == <<issued, identity, reachable, offered, counted>>

Is(c, step) == call[c].step = step
FreeCalls == {c \in Calls : Is(c, "free")}
SetCall(c, state) == call' = [call EXCEPT ![c] = state]

(* record(): without consent nothing is sent.  The history notes a record  *)
(* that leaves a page which neither found an id when it was loaded nor has *)
(* handled an answer since.                                                *)
Record(t, viewing, now) ==
  /\ page' = [page EXCEPT ![t] = now]
  /\ IF now.consent
     THEN /\ FreeCalls # {} /\ sent < MaxRecords
          /\ sent' = sent + 1
          /\ SetCall(CHOOSE c \in FreeCalls : TRUE,
                     [Free EXCEPT !.step = "record", !.tab = t, !.viewing = viewing,
                                  !.visitor = now.visitor, !.email = now.email])
          /\ blind' = blind + (IF now.knows THEN 0 ELSE 1)
     ELSE UNCHANGED <<call, sent, blind>>
  /\ UNCHANGED <<stored, shown, siteVars>>

(* The script starts: a page whose settings give the consent records its   *)
(* view at once.                                                           *)
LoadPage(t) ==
  /\ ~page[t].loaded
  /\ \E consent \in BOOLEAN, email \in Someone :
       Record(t, TRUE, [loaded |-> TRUE, consent |-> consent, email |-> email,
                        visitor |-> stored, knows |-> stored # Nil])

GiveConsent(t) ==
  /\ page[t].loaded
  /\ Record(t, TRUE, [page[t] EXCEPT !.consent = TRUE])

Identify(t) ==
  /\ page[t].loaded
  /\ \E p \in KnownPeople : Record(t, TRUE, [page[t] EXCEPT !.email = p])

TrackEvent(t) ==
  /\ page[t].loaded
  /\ Record(t, FALSE, page[t])

(* The visitor leaves the page.  A fetch with keepalive still reaches the  *)
(* server; the others, and every continuation, are gone.                   *)
LeavePage(t) ==
  /\ page[t].loaded
  /\ page' = [page EXCEPT ![t] = Unloaded]
  /\ call' = [c \in Calls |->
       IF call[c].tab # t THEN call[c]
       ELSE IF call[c].step \in {"record", "impression"} THEN [call[c] EXCEPT !.tab = Nil]
       ELSE Free]
  /\ UNCHANGED <<stored, shown, siteVars, sent, blind>>

(* The beacon's route: a fresh id for a visitor without one, the contact   *)
(* with the address, the event.                                            *)
RecordVisit(c) ==
  LET visitor == IF call[c].visitor = Nil THEN issued + 1 ELSE call[c].visitor
      contact == IF call[c].email \in reachable THEN call[c].email ELSE Nil
  IN  /\ Is(c, "record")
      /\ visitor \in Visitor
      /\ issued' = IF call[c].visitor = Nil THEN issued + 1 ELSE issued
      /\ identity' = IF contact = Nil THEN identity ELSE [identity EXCEPT ![visitor] = contact]
      /\ SetCall(c, IF call[c].tab = Nil THEN Free
                    ELSE [call[c] EXCEPT !.step = "recorded", !.visitor = visitor,
                                         !.identified = contact # Nil])
      /\ UNCHANGED <<page, stored, shown, reachable, offered, counted, sent, blind>>

(* The answer reaches the page: the id is kept, and page() goes on to the  *)
(* messages of a visitor who was identified.                               *)
VisitRecorded(c) ==
  LET t == call[c].tab
      visitor == call[c].visitor
  IN  /\ Is(c, "recorded")
      /\ page' = [page EXCEPT ![t].visitor = visitor, ![t].knows = TRUE]
      /\ stored' = visitor
      /\ SetCall(c, IF call[c].viewing /\ call[c].identified
                    THEN [Free EXCEPT !.step = "messages", !.tab = t, !.visitor = visitor]
                    ELSE Free)
      /\ UNCHANGED <<shown, siteVars, sent, blind>>

(* The first message that fits the page, if somebody is behind the id.     *)
ActiveSiteMessages(visitor) ==
  (IF identity[visitor] = Nil THEN {} ELSE offered) \cup {Nil}

ListSiteMessages(c) ==
  /\ Is(c, "messages")
  /\ \E m \in ActiveSiteMessages(call[c].visitor) :
       SetCall(c, [call[c] EXCEPT !.step = "listed", !.message = m])
  /\ UNCHANGED <<page, stored, shown, siteVars, sent, blind>>

(* A message this tab has not shown is shown.  Its impression carries the  *)
(* id the page holds by then.                                              *)
ShowMessage(c) ==
  LET t == call[c].tab
      m == call[c].message
  IN  /\ Is(c, "listed")
      /\ IF m = Nil \/ m \in shown[t]
         THEN SetCall(c, Free) /\ UNCHANGED shown
         ELSE /\ shown' = [shown EXCEPT ![t] = @ \cup {m}]
              /\ SetCall(c, [call[c] EXCEPT !.step = "impression", !.visitor = page[t].visitor])
      /\ UNCHANGED <<page, stored, siteVars, sent, blind>>

(* Counted for an identified visitor while the message is published.       *)
RecordImpression(c) ==
  /\ Is(c, "impression")
  /\ counted' = IF identity[call[c].visitor] # Nil /\ call[c].message \in offered
                THEN [counted EXCEPT ![call[c].message] = @ + 1] ELSE counted
  /\ SetCall(c, Free)
  /\ UNCHANGED <<page, stored, shown, issued, identity, reachable, offered, sent, blind>>

(* A request that never arrives, an answer that never does: the script     *)
(* gives up without a word.                                                *)
CallLost(c) ==
  /\ ~Is(c, "free")
  /\ SetCall(c, Free)
  /\ UNCHANGED <<page, stored, shown, siteVars, sent, blind>>

(* Members archive a contact or a message meanwhile.                       *)
ArchiveBehindVisitor ==
  /\ \/ \E p \in reachable : reachable' = reachable \ {p} /\ UNCHANGED offered
     \/ \E m \in offered : offered' = offered \ {m} /\ UNCHANGED reachable
  /\ UNCHANGED <<page, stored, shown, call, issued, identity, counted, sent, blind>>

VisitorNext ==
  \/ \E t \in Tabs :
       LoadPage(t) \/ GiveConsent(t) \/ Identify(t) \/ TrackEvent(t) \/ LeavePage(t)
  \/ \E c \in Calls :
       \/ RecordVisit(c) \/ VisitRecorded(c) \/ ListSiteMessages(c)
       \/ ShowMessage(c) \/ RecordImpression(c) \/ CallLost(c)
  \/ ArchiveBehindVisitor

VisitorSpec == VisitorInit /\ [][VisitorNext]_visitorVars

-----------------------------------------------------------------------------

(* However many page views of a tab overlap, a message is counted at most  *)
(* once per tab that showed it.  (templates.ts loadMessage)                *)
SeenOncePerTab ==
  \A m \in SiteMessages :
    LET shows == {t \in Tabs : m \in shown[t]}
        under == {c \in Calls : Is(c, "impression") /\ call[c].message = m}
    IN  counted[m] + Cardinality(under) <= Cardinality(shows)

(* A browser is one visitor, unless several records left before a page     *)
(* could know the id: every id beyond the first goes back to such a record.*)
(* Impressions carry an id the server issued.  (templates.ts record)       *)
OneVisitorPerBrowser ==
  /\ issued <= blind
  /\ stored # Nil => stored <= issued
  /\ \A c \in Calls : Is(c, "impression") => call[c].visitor \in 1 .. issued

VisitorSound == SeenOncePerTab /\ OneVisitorPerBrowser

=============================================================================
