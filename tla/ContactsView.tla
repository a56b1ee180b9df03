---------------------------- MODULE ContactsView ----------------------------
(***************************************************************************)
(* A member pages through the contact list while others write contacts.    *)
(*                                                                         *)
(*   packages/database/src/contacts/repository.ts   listContacts, the rows *)
(*   apps/client/src/hooks/use-cursor-pagination.ts the cursor             *)
(*   apps/client/src/features/contacts/contacts-page.tsx  the page         *)
(*   apps/client/src/components/data-table.tsx      the two buttons        *)
(*                                                                         *)
(* A cursor is the id of the last contact of a page, and its place in the  *)
(* order is read again when the next page is asked for.  The list shows    *)
(* the active contacts by one of two columns: createdAt, which is the      *)
(* order of the ids, or updatedAt, the default.  A page that was shown     *)
(* before is read again when it is shown again.                            *)
(***************************************************************************)
EXTENDS Integers, Sequences, FiniteSets, FiniteSetsExt, SequencesExt

CONSTANTS
  MaxContact,  \* bound: contacts that are created, 1 .. MaxContact
  MaxTime,     \* bound: updates at different times
  PageLimit    \* contacts of a page

ASSUME ContactsViewAssumption == {MaxContact, MaxTime, PageLimit} \subseteq Nat \ {0}

ContactRange == 1 .. MaxContact
NoCursor == 0

VARIABLES
  rows,      \* the contacts there are, by id: status and updatedAt
  now,       \* the clock updatedAt is taken from
  sort,      \* the column and direction the list is sorted by
  pager,     \* useCursorPagination: the cursor and those before it
  answer,    \* the page shown: its items, and the next cursor or none
  fetch,     \* the request for a page, or idle
  checked,   \* the contacts selected for a bulk action
  walk       \* history: the pages shown one after the other since the first

viewVars == <<rows, now, sort, pager, answer, fetch, checked, walk>>

Row == [status : {"active", "archived"}, updatedAt : 0 .. MaxTime]
Sort == [column : {"createdAt", "updatedAt"}, ascending : BOOLEAN]
Cursor == ContactRange \cup {NoCursor}
Idle == [step |-> "idle"]
Fetch ==
  {Idle} \cup [step : {"cursor"}, cursor : Cursor]
         \cup [step : {"rows"}, cursor : Cursor, sortValue : 0 .. MaxTime + MaxContact]

(* A walk: the contacts shown, those shown twice, and those written since; *)
(* or none, when the member went back or forward out of turn, or the walk  *)
(* lost its place.                                                         *)
NoWalk == [on |-> FALSE, seen |-> {}, twice |-> {}, touched |-> {}]
NewWalk == [NoWalk EXCEPT !.on = TRUE]
PageWalk == [on : BOOLEAN, seen : SUBSET ContactRange, twice : SUBSET ContactRange,
             touched : SUBSET ContactRange]

ViewTypeOK ==
  /\ DOMAIN rows \subseteq ContactRange /\ rows \in [DOMAIN rows -> Row]
  /\ now \in 0 .. MaxTime
  /\ sort \in Sort
  /\ pager \in [cursor : Cursor, history : Seq(Cursor)]
  /\ answer \in [items : SUBSET ContactRange, next : Cursor]
  /\ fetch \in Fetch
  /\ checked \subseteq ContactRange
  /\ walk \in PageWalk

(* Half of the contacts exist when the page is opened.                     *)
ViewInit ==
  /\ rows = [c \in {i \in ContactRange : 2 * i <= MaxContact + 1} |-> [status |-> "active", updatedAt |-> 0]]
  /\ now = 0
  /\ sort \in Sort
  /\ pager = [cursor |-> NoCursor, history |-> <<>>]
  /\ answer = [items |-> {}, next |-> NoCursor]
  /\ fetch = [step |-> "cursor", cursor |-> NoCursor]
  /\ checked = {}
  /\ walk = NewWalk

-----------------------------------------------------------------------------
(* Others' writes.  The clock may or may not have moved since the last.    *)
SortValue(c) == IF sort.column = "createdAt" THEN c ELSE rows[c].updatedAt

(* The walk goes on from this contact, and its place has not been read.    *)
GoesOnFrom(c) == (fetch = Idle /\ c = answer.next) \/ fetch = [step |-> "cursor", cursor |-> c]

Write(c, status) ==
  /\ now' \in {now, now + 1} /\ now' <= MaxTime
  /\ rows' = [i \in DOMAIN rows \cup {c} |->
                IF i = c THEN [status |-> status, updatedAt |-> now'] ELSE rows[i]]
  /\ walk' = IF ~walk.on \/ (sort.column = "updatedAt" /\ GoesOnFrom(c)) THEN NoWalk
             ELSE [walk EXCEPT !.touched = @ \cup {c}]
  /\ UNCHANGED <<sort, pager, answer, fetch, checked>>

(* createContact: ids grow with time.                                      *)
InsertContact ==
  /\ Cardinality(DOMAIN rows) < MaxContact
  /\ Write(Cardinality(DOMAIN rows) + 1, "active")

UpdateContact(c) == rows[c].status = "active" /\ Write(c, "active")
ArchiveContact(c) == rows[c].status = "active" /\ Write(c, "archived")
RestoreContact(c) == rows[c].status = "archived" /\ Write(c, "active")

-----------------------------------------------------------------------------
(* listContacts.                                                           *)
Listed == {c \in DOMAIN rows : rows[c].status = "active"}

(* (sortValue, id) of a contact against that of the cursor.                *)
After(c, value, id) ==
  IF sort.ascending THEN SortValue(c) > value \/ (SortValue(c) = value /\ c > id)
  ELSE SortValue(c) < value \/ (SortValue(c) = value /\ c < id)

(* The cursor is looked up among all contacts, whatever the filters.       *)
FindCursor_Listed ==
  /\ fetch.step = "cursor"
  /\ fetch' = [step |-> "rows",
               cursor |-> IF fetch.cursor \in Listed THEN fetch.cursor ELSE NoCursor,
               sortValue |-> IF fetch.cursor \in Listed THEN SortValue(fetch.cursor) ELSE 0]
  /\ UNCHANGED <<rows, now, sort, pager, answer, checked, walk>>

FindCursor ==
  /\ fetch.step = "cursor"
  /\ fetch' = [step |-> "rows", cursor |-> fetch.cursor,
               sortValue |-> IF fetch.cursor = NoCursor THEN 0 ELSE SortValue(fetch.cursor)]
  /\ UNCHANGED <<rows, now, sort, pager, answer, checked, walk>>

(* The contacts after the cursor in order, as many as the page holds: one  *)
(* more is asked for to learn whether there are others.                    *)
Before(c, S) == {d \in S : After(c, SortValue(d), d)}
FirstOf(S) == {c \in S : Cardinality(Before(c, S)) < PageLimit}
LastOf(S) == CHOOSE c \in S : \A d \in S : ~After(d, SortValue(c), c)

ListPage ==
  LET after == IF fetch.cursor = NoCursor THEN Listed
               ELSE {c \in Listed : After(c, fetch.sortValue, fetch.cursor)}
      items == FirstOf(after)
  IN /\ fetch.step = "rows"
     /\ answer' = [items |-> items,
                   next |-> IF Cardinality(after) > PageLimit THEN LastOf(items) ELSE NoCursor]
     /\ walk' = IF ~walk.on THEN NoWalk
                ELSE [walk EXCEPT !.seen = @ \cup items,
                                  !.twice = @ \cup (walk.seen \cap items)]
     /\ fetch' = Idle
     /\ UNCHANGED <<rows, now, sort, pager, checked>>

-----------------------------------------------------------------------------
(* The page.  While a page is fetched the one before it stays, with its    *)
(* next cursor and its enabled button: a second click goes to the same     *)
(* page again.  Both buttons drop the selection.                           *)
RequestPage(cursor) == fetch' = [step |-> "cursor", cursor |-> cursor]

GoToNextPage ==
  /\ answer.next # NoCursor
  /\ Len(pager.history) < MaxContact
  /\ pager' = [cursor |-> answer.next, history |-> Append(pager.history, pager.cursor)]
  /\ IF pager'.cursor = pager.cursor THEN UNCHANGED fetch ELSE RequestPage(answer.next)
  /\ checked' = {}
  /\ walk' = IF fetch = Idle THEN walk ELSE NoWalk
  /\ UNCHANGED <<rows, now, sort, answer>>

GoToPreviousPage ==
  LET previous == Last(pager.history)
  IN /\ pager.history # <<>>
     /\ pager' = [cursor |-> previous, history |-> Front(pager.history)]
     /\ IF previous = pager.cursor THEN UNCHANGED fetch ELSE RequestPage(previous)
     /\ checked' = {}
     /\ walk' = NoWalk
     /\ UNCHANGED <<rows, now, sort, answer>>

(* Another order: the cursor starts over, the selection stays.             *)
ChangeSort(to) ==
  /\ to # sort
  /\ sort' = to
  /\ pager' = [cursor |-> NoCursor, history |-> <<>>]
  /\ RequestPage(NoCursor)
  /\ walk' = NewWalk
  /\ UNCHANGED <<rows, now, answer, checked>>

(* The boxes of the rows; there are none while a page is fetched.          *)
CheckRows(C) ==
  /\ fetch = Idle
  /\ C \subseteq answer.items
  /\ checked' = C
  /\ UNCHANGED <<rows, now, sort, pager, answer, fetch, walk>>

(* applyBulkAction: the selected contacts are archived, the page is read   *)
(* again from its cursor, and the selection is dropped.                    *)
ApplyBulkAction ==
  /\ checked # {}
  /\ rows' = [c \in DOMAIN rows |->
                IF c \in checked THEN [rows[c] EXCEPT !.status = "archived", !.updatedAt = now]
                ELSE rows[c]]
  /\ RequestPage(pager.cursor)
  /\ checked' = {}
  /\ walk' = NoWalk
  /\ UNCHANGED <<now, sort, pager, answer>>

ViewNext ==
  \/ InsertContact
  \/ \E c \in DOMAIN rows : UpdateContact(c) \/ ArchiveContact(c) \/ RestoreContact(c)
  \/ FindCursor \/ ListPage
  \/ GoToNextPage \/ GoToPreviousPage
  \/ \E to \in Sort : ChangeSort(to)
  \/ \E C \in SUBSET ContactRange : CheckRows(C)
  \/ ApplyBulkAction

ViewSpec == ViewInit /\ [][ViewNext]_viewVars

-----------------------------------------------------------------------------
(* Who pages through the list sees every contact that nobody writes        *)
(* exactly once, however many others are created, changed, archived or     *)
(* restored between two pages, the contact the cursor names included: by   *)
(* createdAt always, by updatedAt unless that very contact was written and *)
(* so took its place in the order elsewhere.  (listContacts)               *)
Untouched == Listed \ walk.touched

WalkComplete ==
  walk.on =>
    /\ Untouched \cap walk.twice = {}
    /\ (fetch = Idle /\ answer.next = NoCursor) => Untouched \subseteq walk.seen

=============================================================================
