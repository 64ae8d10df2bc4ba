CONSTANTS
  Scenarios <- MCForms
  Files = {"new"}
  Words = {"", "w"}
  MaxDepth = 2
  MaxEdits = 3
  MaxSubmits = 2
  Library <- MCLibrary
  Log <- MCLog
  Queries <- MCQueries
  PageSize = 2
  AuditPage = 2
  DefaultLimit = 2
  MaxApiLimit = 3
  MaxNesting = 3
  Mentions <- MCMentions
  None = None
  MaxGrowth = 1
  Clients = {"direct"}
  Handlers = {1, 2, 3}
  Limit = 2
  Window = 3
  MaxDelay = 1
  MaxClock = 6
  MaxCalls = 7
SPECIFICATION Spec
INVARIANTS
  FormKeepsDocument
  PagesComplete
  LimitHolds
CHECK_DEADLOCK FALSE
