\* Two requests at a time on one asset, deal, form, page or message; the
\* editor on up to four nodes; drafts of three nodes and edges.
SPECIFICATION MCSpec
CONSTANTS
  AssetIds = {a}
  Contents = {x, y}
  MaxRevisions = 3
  AssetRequests = {r1, r2}
  NoRow = NoRow
  n1 = n1
  n2 = n2
  NodeIds <- MCNodes
  AddedKinds = {"condition"}
  MaxNodes = 4
  Nobody = Nobody
  DraftIds = {1, 2, 3}
  DraftKinds = {"source", "condition"}
  DraftBranches = {"next", "yes"}
  MaxDraftNodes = 3
  MaxDraftEdges = 3
  PipelineIds = {p1, p2}
  StagePositions = {1, 2}
  DealIds = {deal}
  TaskIds = {task}
  Values = {value}
  DealRequests = {r1, r2}
  Missing = Missing
  Unset = Unset
  Forms = {form}
  Pages = {page}
  Messages = {message}
  SubmissionKeys = {k1, k2}
  Emails = {email}
  NoEmail = NoEmail
  MaxVersion = 3
  MaxCount = 3
  WebRequests = {r1, r2}
  Users = {u1, u2}
  Workspaces = {w1}
  ApiKeys = {key1, key2}
  Tokens = {t1}
  Enrollments = {e1, e2}
  Conversations = {chat}
  RolesGiven = {"analyst", "marketer", "admin"}
  Lifetime = 1
  MaxClock = 2
  AccessRequests = {r1, r2}
  None = None
  MaxDatabase = 2
  MaxRelease = 2
  RowIds = {1, 2}
  LastDay = 2
  Gone = Gone
  Null = Null
  tab1 = tab1
  tab2 = tab2
  Tabs <- MCTabs
  KnownPeople = {person}
  SiteMessages = {popup}
  Calls = {call1, call2}
  MaxVisitors = 2
  MaxRecords = 2
  Nil = Nil
  MailTemplateIds = {mail}
  Texts = {text1, Blank}
  Blank = Blank
  NoTemplate = NoTemplate
  MaxMailRevision = 2
  Receipts = {receipt1, receipt2}
  Attachments = {file1, file2}
  ReplyId = ReplyId
  OldEvents = {1, 2, 3}
  ArchiveLimit = 2
  ChunkSize = 1
  LastMetricDay = 2
  MaxOnDay = 1
INVARIANTS
  TypesOK
  RowHasObject
  GraphsSound
  DealsConsistent
  WebsiteSound
  AccessSafe
  
  MailKept
  HistoryAddsUp
CHECK_DEADLOCK FALSE
