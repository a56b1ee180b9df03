SPECIFICATION Spec
SYMMETRY Symmetry
CONSTANTS
  Graphs <- FormGraphs
  ValidGraphs <- FormValid
  MailGraphs = {"mail"}
  SourceNode <- FormSource
  NoSource = NoSource
  EventType <- FormType
  Resource <- FormResource
  Reentry <- FormReentry
  NoType = NoType
  NoResource = NoResource
  NoGraph = NoGraph
  MaxVersion = 3
  Publishers = {p1, p2}
  Requests = {r1}
  Contacts = {"c1"}
  Rank <- SoleContact
  ScanLimit = 1
  Events = {"e1"}
  TypeOf <- AllSubmitted
  ResourceOf <- OnForm1
  MaxCrashes = 1
  EditWhilePublishing = TRUE
  ManualEnrollment = TRUE
INVARIANTS
  TypeOK
  OneDraft
  TriggerIsPublished
  EnrolledOnPublished
PROPERTIES
  PublishedImmutable
  PublishedNeverRollsBack
