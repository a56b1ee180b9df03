--------------------------- MODULE SegmentFilters ---------------------------
(***************************************************************************)
(* Which contacts a filter means.  The same question is answered in three  *)
(* places: by the SQL a dynamic segment is compiled to, by the condition   *)
(* node of an automation, and by the contact list, whose filters a member  *)
(* can save as a segment.                                                  *)
(*                                                                         *)
(*   packages/core/src/segments/segment.ts, fields.ts   the compiler       *)
(*   packages/database/src/segments/repository.ts       the replacement    *)
(*   apps/server/src/automations/worker.ts              the condition node *)
(*   packages/database/src/contacts/repository.ts       the contact list   *)
(*   apps/client/src/features/contacts, segments        filters and forms  *)
(*                                                                         *)
(* A contact has one nullable text, one number and one relation standing   *)
(* for all of their kind.  A text is a word in one of two cases, because   *)
(* LIKE ignores the case of a letter and includes() does not.              *)
(***************************************************************************)
EXTENDS Naturals, FiniteSets

CONSTANTS
  Words,           \* what texts and searches are made of
  ScoreBounds,     \* numbers scores are compared with
  CompanyNames,    \* company id -> its name
  KnownCompanies,  \* the ids the page's options have loaded
  Absent,          \* SQL's NULL, an undefined property
  Unfiltered       \* a filter that is not set

Scores == {0} \cup ScoreBounds
Texts == [word : Words, upper : BOOLEAN]

-----------------------------------------------------------------------------
(* Fields and their operators.                                             *)
TextOperators == {"eq", "neq", "contains", "starts_with", "in", "exists", "not_exists"}
ComparableOperators == {"eq", "neq", "in", "gt", "gte", "lt", "lte", "exists", "not_exists"}
RelationOperators == {"eq", "neq", "exists", "not_exists"}

SegmentFieldDefinitions ==
  [text |-> TextOperators, number |-> ComparableOperators, relation |-> RelationOperators]
SegmentFields == DOMAIN SegmentFieldDefinitions

IsSegmentOperatorAllowed(field, operator) == operator \in SegmentFieldDefinitions[field]

(* compileCondition and scalarExpression.  SQL has three truth values: a   *)
(* comparison with NULL is neither true nor false, and only TRUE matches.  *)
SqlCompared(left, holds) == IF left = Absent THEN "null" ELSE IF holds THEN "true" ELSE "false"
SqlBoolean(holds) == IF holds THEN "true" ELSE "false"

Compares(operator, left, right) ==
  CASE operator = "gt" -> left > right
    [] operator = "gte" -> left >= right
    [] operator = "lt" -> left < right
    [] operator = "lte" -> left <= right

ScalarExpression(left, operator, right) ==
  CASE operator = "eq" -> SqlCompared(left, left = right)
    [] operator = "neq" -> SqlCompared(left, left # right)
    [] operator \in {"contains", "starts_with"} ->
         SqlCompared(left, left # Absent /\ left.word = right.word)
    [] operator = "in" -> SqlCompared(left, left \in right)
    [] operator = "exists" -> SqlBoolean(left # Absent)
    [] operator = "not_exists" -> SqlBoolean(left = Absent)
    [] OTHER -> SqlCompared(left, left # Absent /\ Compares(operator, left, right))

ExistsPrefix(operator) == operator \in {"neq", "not_exists"}

CompileCondition(field, operator, left, right) ==
  IF field = "relation" THEN SqlBoolean((right \in left) # ExistsPrefix(operator))
  ELSE ScalarExpression(left, operator, right)

(* compileNode: AND and OR of conditions in three-valued logic.            *)
CompileGroup(combinator, children) ==
  LET ruling == IF combinator = "and" THEN "false" ELSE "true"
      neutral == IF combinator = "and" THEN "true" ELSE "false"
  IN IF ruling \in children THEN ruling ELSE IF "null" \in children THEN "null" ELSE neutral

(* evaluateCondition and compare: a tag is looked up and compared with     *)
(* TRUE, whatever the operator; an absent text is the empty one.           *)
NodeCompare(left, operator, right) ==
  CASE operator = "exists" -> left # Absent
    [] operator = "not_exists" -> left = Absent
    [] operator = "eq" -> left = right
    [] operator = "neq" -> left # right
    [] operator \in {"contains", "starts_with"} -> left = right
    [] operator = "in" -> left \in right
    [] OTHER -> left # Absent /\ Compares(operator, left, right)

EvaluateCondition(field, operator, left, right) ==
  IF field = "relation" THEN NodeCompare(right \in left, operator, TRUE)
  ELSE NodeCompare(left, operator, right)

-----------------------------------------------------------------------------
(* A contact, as the list and a segment see it: which of its five searched *)
(* columns hold the word searched for, its status, score and companies.    *)
SearchedColumns == {"email", "first_name", "last_name", "phone", "external_id"}
Statuses == {"active", "archived"}
People ==
  [hits : {{}} \cup {{column} : column \in SearchedColumns}, status : Statuses,
   score : Scores, companies : SUBSET DOMAIN CompanyNames]

(* The filters of the contact list.                                        *)
ContactSearch ==
  [q : BOOLEAN, status : {"active", "all"}, companyId : {Unfiltered} \cup DOMAIN CompanyNames,
   segmentId : BOOLEAN, scoreMin : {Unfiltered} \cup ScoreBounds]

ASSUME FiltersAssumption ==
  /\ ScoreBounds \subseteq Nat
  /\ KnownCompanies \subseteq DOMAIN CompanyNames
  /\ Unfiltered \notin DOMAIN CompanyNames
  /\ Absent \notin Scores \cup Texts \cup BOOLEAN
  /\ \A tags \in SUBSET Words : Absent # tags
  /\ Absent \notin ContactSearch

ContactSearchDefaults ==
  [q |-> FALSE, status |-> "active", companyId |-> Unfiltered, segmentId |-> FALSE, scoreMin |-> Unfiltered]

(* listContacts: one condition per filter that is set.  (That a contact is *)
(* in the segment of the filter is given.)                                 *)
ListContacts(search, person, inSegment) ==
  /\ search.q => person.hits # {}
  /\ search.status # "all" => person.status = search.status
  /\ search.scoreMin # Unfiltered => person.score >= search.scoreMin
  /\ search.companyId # Unfiltered => search.companyId \in person.companies
  /\ search.segmentId => inSegment

(* createSegmentFilter: the children of the conjunction, each a set of     *)
(* alternatives; a company becomes its name, and is left out when the page *)
(* does not know it.                                                       *)
Condition(field, operator, value) == <<field, operator, value>>

CreateSegmentFilter_DropsScore(search) ==
  (IF search.q THEN {{Condition(f, "contains", TRUE) : f \in {"email", "first_name", "last_name"}}}
   ELSE {})
    \cup (IF search.status # "all" THEN {{Condition("status", "eq", search.status)}} ELSE {})
    \cup (IF search.companyId \in KnownCompanies
            THEN {{Condition("company", "eq", CompanyNames[search.companyId])}} ELSE {})

CreateSegmentFilter(search) ==
  (IF search.q THEN {{Condition(f, "contains", TRUE) : f \in {"email", "first_name", "last_name"}}}
   ELSE {})
    \cup (IF search.status # "all" THEN {{Condition("status", "eq", search.status)}} ELSE {})
    \cup (IF search.scoreMin # Unfiltered THEN {{Condition("score", "gte", search.scoreMin)}} ELSE {})
    \cup (IF search.companyId \in KnownCompanies
            THEN {{Condition("company", "eq", CompanyNames[search.companyId])}} ELSE {})

Meets(person, condition) ==
  LET field == condition[1]
      operator == condition[2]
      value == condition[3]
  IN CASE field = "status" -> SqlBoolean(person.status = value)
       [] field = "score" -> ScalarExpression(person.score, operator, value)
       [] field = "company" ->
            CompileCondition("relation", operator, {CompanyNames[co] : co \in person.companies}, value)
       [] OTHER -> IF field \in person.hits THEN "true" ELSE "null"

(* compileSegmentFilter as replaceDynamicMemberships runs it: archived     *)
(* contacts are never members.                                             *)
MatchesSegment(filter, person) ==
  /\ CompileGroup("and", {CompileGroup("or", {Meets(person, c) : c \in child}) : child \in filter})
       = "true"
  /\ person.status # "archived"

-----------------------------------------------------------------------------
(* The filters on the page: what is typed, what the URL says and the list  *)
(* shows, the timer that waits for a pause, the navigation on its way; the *)
(* view last saved as a segment; and the form that makes one condition.    *)
VARIABLES typed, url, timer, navigating, savedView, segmentForm,
  overtaken  \* history: a link to where the page is came after its own navigation

filterVars == <<typed, url, timer, navigating, savedView, segmentForm, overtaken>>

FilterTypeOK ==
  /\ typed \in ContactSearch
  /\ url \in ContactSearch
  /\ timer \in BOOLEAN
  /\ navigating \in {Absent} \cup ContactSearch
  /\ savedView \in {Absent} \cup ContactSearch
  /\ segmentForm \in [field : SegmentFields, operator : TextOperators \cup ComparableOperators]
  /\ overtaken \in BOOLEAN

FilterInit ==
  /\ typed = ContactSearchDefaults
  /\ url = ContactSearchDefaults
  /\ timer = FALSE
  /\ navigating = Absent
  /\ savedView = Absent
  /\ segmentForm = [field |-> "text", operator |-> "eq"]
  /\ overtaken = FALSE

(* A keystroke or a choice: the state changes and the timer starts again.  *)
SetFilter(search) ==
  /\ search # typed
  /\ Cardinality({f \in DOMAIN search : search[f] # typed[f]}) = 1
  /\ typed' = search
  /\ timer' = TRUE
  /\ overtaken' = FALSE
  /\ UNCHANGED <<url, navigating, savedView, segmentForm>>

(* clearFilters keeps the status.                                          *)
ClearFilters ==
  /\ typed' = [ContactSearchDefaults EXCEPT !.status = typed.status]
  /\ timer' = (timer \/ typed' # typed)
  /\ overtaken' = (overtaken /\ typed' = typed)
  /\ UNCHANGED <<url, navigating, savedView, segmentForm>>

(* The pause is over: navigate, unless the URL says the same.              *)
CommitSearch ==
  /\ timer
  /\ timer' = FALSE
  /\ navigating' = IF typed = url THEN navigating ELSE typed
  /\ UNCHANGED <<typed, url, savedView, segmentForm, overtaken>>

(* Back, forward or a link: parseContactSearch keeps what is well formed.  *)
FollowLink(search) ==
  /\ navigating' = search
  /\ UNCHANGED <<typed, url, timer, savedView, segmentForm, overtaken>>

(* The route's loader is done: the URL changes, and the inputs adopt it,   *)
(* also when the search was typed on since.  A URL that is the same is the *)
(* same object, which the inputs do not adopt again.                       *)
AdoptUrl ==
  /\ navigating # Absent
  /\ url' = navigating
  /\ typed' = IF url' = url THEN typed ELSE url'
  /\ timer' = (timer \/ typed' # typed)
  /\ navigating' = Absent
  /\ overtaken' = (typed' # url')
  /\ UNCHANGED <<savedView, segmentForm>>

(* SegmentSaveForm: offered when there is a condition and no segment is    *)
(* shown; it saves the filters as they are typed.                          *)
CanSaveSegment == CreateSegmentFilter(typed) # {} /\ ~typed.segmentId

SaveSegment ==
  /\ CanSaveSegment
  /\ savedView' = typed
  /\ UNCHANGED <<typed, url, timer, navigating, segmentForm, overtaken>>

(* SegmentFormDialog: another field keeps the operator if it may.          *)
NormalizeSegmentOperator(field, operator) ==
  IF IsSegmentOperatorAllowed(field, operator) THEN operator ELSE "eq"

SetField(field) ==
  /\ segmentForm' = [field    |-> field,
                     operator |-> NormalizeSegmentOperator(field, segmentForm.operator)]
  /\ UNCHANGED <<typed, url, timer, navigating, savedView, overtaken>>

SetOperator(operator) ==
  /\ IsSegmentOperatorAllowed(segmentForm.field, operator)
  /\ segmentForm' = [segmentForm EXCEPT !.operator = operator]
  /\ UNCHANGED <<typed, url, timer, navigating, savedView, overtaken>>

SearchNext ==
  \/ \E search \in ContactSearch : SetFilter(search)
  \/ ClearFilters \/ CommitSearch \/ AdoptUrl \/ SaveSegment
  \/ \E segmentId \in BOOLEAN :
       FollowLink([ContactSearchDefaults EXCEPT !.segmentId = segmentId])

SegmentFormNext ==
  \/ \E field \in SegmentFields : SetField(field)
  \/ \E operator \in TextOperators \cup ComparableOperators : SetOperator(operator)

FilterNext == SearchNext \/ SegmentFormNext

FilterSpec == FilterInit /\ [][FilterNext]_filterVars

-----------------------------------------------------------------------------
(* When nothing is on its way, the list shows what the inputs say, however *)
(* typing, the timer, links and slow loads interleaved: a segment saved    *)
(* then is the list that is seen.  (The one exception: a link to where the *)
(* page is overtakes the navigation that was to take the inputs' search    *)
(* there.)  (contact-filters.ts useContactFilters)                         *)
FiltersSettle == (~timer /\ navigating = Absent /\ ~overtaken) => typed = url

(* A view saved as a segment has exactly the contacts the list shows, but  *)
(* for archived ones and those a search finds by phone or external id      *)
(* only, when the company is one the page knows and no other bears its     *)
(* name: segment-filter.ts:17 "Converts the currently visible contact      *)
(* filters into a reusable dynamic segment."                               *)
NamesItsCompany(search) ==
  search.companyId # Unfiltered =>
    /\ search.companyId \in KnownCompanies
    /\ \A co \in DOMAIN CompanyNames :
         CompanyNames[co] = CompanyNames[search.companyId] => co = search.companyId

SavedIsView ==
  (savedView # Absent /\ NamesItsCompany(savedView)) =>
    \A person \in People :
      MatchesSegment(CreateSegmentFilter(savedView), person) <=>
        /\ ListContacts(savedView, person, FALSE)
        /\ person.status # "archived"
        /\ savedView.q => person.hits \cap {"email", "first_name", "last_name"} # {}

(* A segment and a condition node answer alike, for every condition the    *)
(* form can make, except where SQL is known to differ: NULL is never       *)
(* unequal to anything, LIKE ignores case, and the node's "exists" looks   *)
(* at the answer, not at the tag.  (segment.ts compileCondition, worker.ts *)
(* evaluateCondition)                                                      *)
FieldValues(field) ==
  CASE field = "text" -> Texts [] field = "number" -> ScoreBounds [] OTHER -> Words
Operands(field, operator) ==
  IF operator = "in" THEN SUBSET FieldValues(field) ELSE FieldValues(field)
Lefts(field) ==
  CASE field = "text" -> Texts \cup {Absent}
    [] field = "number" -> Scores
    [] OTHER -> SUBSET Words

NodeAgrees ==
  LET field == segmentForm.field
      operator == segmentForm.operator
  IN \A left \in Lefts(field), right \in Operands(field, operator) :
       LET sql == CompileCondition(field, operator, left, right) = "true"
           node == EvaluateCondition(field, operator, left, right)
       IN CASE operator = "neq" /\ left = Absent -> node /\ ~sql
            [] operator \in {"contains", "starts_with"} -> node => sql
            [] field = "relation" /\ operator \in {"exists", "not_exists"} -> node = (operator = "exists")
            [] OTHER -> node <=> sql

FiltersAgree == FiltersSettle /\ SavedIsView /\ NodeAgrees

=============================================================================
