SPECIFICATION Spec
CONSTANTS
  Graphs <- FormGraphs
  ValidGraphs <- FormValid
  MailGraphs = {"mail"}
  SourceNode <- FormSource
  NoSource = NoSource
  EventType <- FormType
  Resource <- FormResource
  Reentry <- FormReentry
  NoType = NoType
  NoResource = NoResource
  NoGraph = NoGraph
  MaxVersion = 2
  Publishers = {p1}
  Requests = {r1}
  Contacts = {"c1"}
  Rank <- SoleContact
  ScanLimit = 1
  Events = {"e1"}
  TypeOf <- AllSubmitted
  ResourceOf <- OnForm1
  MaxCrashes = 0
  EditWhilePublishing = TRUE
  ManualEnrollment = FALSE
INVARIANTS
  PublishedIsValid
