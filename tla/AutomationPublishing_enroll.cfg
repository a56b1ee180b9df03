SPECIFICATION FairSpec
CONSTANTS
  Graphs <- OnceGraphs
  ValidGraphs = {"form", "idle"}
  MailGraphs = {}
  SourceNode <- OnceSource
  NoSource = NoSource
  EventType <- OnceType
  Resource <- OnceResource
  Reentry <- OnceReentry
  NoType = NoType
  NoResource = NoResource
  NoGraph = NoGraph
  MaxVersion = 3
  Publishers = {p1}
  Requests = {r1}
  Contacts = {"c1", "c2"}
  Rank <- TwoContacts
  ScanLimit = 1
  Events = {"e1", "e2"}
  TypeOf <- AllSubmitted
  ResourceOf <- OnForm1
  MaxCrashes = 1
  EditWhilePublishing = FALSE
  ManualEnrollment = FALSE
INVARIANTS
  PublishedIsValid
  TriggerMatchesGraph
  EnrolledAtSource
  OnceEnrollsOnce
PROPERTIES
  InactiveEnrolled
