\* Two consumers, faults at any step; nothing more can happen once the jobs
\* have come to rest.
SPECIFICATION MCContactsSpec
CONSTANTS
  Identifiers = {"a", "b", "x"}
  TotalParts = 2
  PartRows <- MCPartRows
  Known = 2
  KnownIds = {}
  PageSize = 2
  MaxContacts = 3
  Consumers = {c1, c2}
  MaxFaults = 2
  MaxContact = 3
  MaxTime = 1
  PageLimit = 1
  Words = {"w1", "w2"}
  ScoreBounds = {1}
  CompanyNames <- MCCompanyNames
  KnownCompanies = {"known"}
  ContactIds = {c1, c2}
  StaticSegments = {s1}
  DynamicSegments = {s2}
  Companies = {co1, co2}
  Deltas <- MCDeltas
  MaxScore = 2
  RecordRequests = {r1, r2}
  Absent = Absent
  Unfiltered = Unfiltered
  Queries <- ClientQueries
  Operations <- ClientOperations
  Program <- ClientProgram
  Overlooked <- ClientOverlooked
  Layers <- ClientLayerNames
  Shows <- ClientShows
  Loads <- ClientLoads
  Controls <- ClientControls
  PageLayers <- ClientPageLayers
  Accounts = {ann, bob}
  NoOne = NoOne
  NoCall = NoCall
  CallSlots = 2
  MaxWrites = 2
INVARIANTS
  ContactTypesOK
  JobsComplete
  ListFaithful
  RecordsAddUp
  CacheFaithful
PROPERTY
  JobsSettle
CHECK_DEADLOCK FALSE
