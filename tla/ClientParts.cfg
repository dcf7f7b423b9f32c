SPECIFICATION PartsSpec
CONSTANTS
  Parts = {"journal", "repoMemory", "detector", "task", "index", "stats", "agent", "read",
           "lock", "session", "workflow", "graph", "editor"}
  p1 = p1  p2 = p2  r1 = r1  r2 = r2  a = a  b = b  f = f  g = g  c = c  d = d
  v = v  w = w  x = x  s1 = s1  s2 = s2  s3 = s3
  plan = plan  code = code  done = done  read = read  test = test
  \* JournalSync
  Hooks = {p1, p2}
  MaxClock = 4
  MaxEvents = 3
  RecentLimit = 2
  CandidateLimit = 1
  Debounce = 3
  Durable = {1, 3}
  MaxKilled = 1
  \* RepoMemorySync
  Syncers = {p1, p2}
  Files <- MCFiles
  CategoryOf <- MCCategoryOf
  Contents <- MCContents
  MaxEdits = 3
  MaxQueued = 2
  \* TaskStore
  TaskIds = {t1, t2}
  TaskProcs = {r1, r2}
  Agents = {a, b}
  AgentOf <- MCAgentOf
  MaxTaskOps = 3
  \* IndexBuild
  Servers = {p1, p2}
  MaxTree = 2
  MaxWorkers = 2
  \* StatsFlush
  StatsProcs = {p1, p2}
  MaxCounted = 3
  MaxScores = 2
  MaxStatsKilled = 1
  \* AgentRegistry
  Agent = {p1, p2}
  Everybody = all
  MaxPad = 2
  MaxFacts = 1
  MaxAgentCalls = 3
  \* ReadCache
  Paths = {p1, p2}
  MaxVersion = 2
  MaxTokens = 3
  MaxReads = 3
  MaxClears = 1
  \* ServerLocks
  ToolCalls = {p1, p2, c3}
  \* LoopDetector
  ToolArgs = {c, s1, s2, s3}
  SearchArgs = {s1, s2, s3}
  TopicOf <- MCTopicOf
  Window = 2
  Normal = 1
  Reduced = 2
  Blocked = 3
  SearchLimit = 3
  TopicsKept = 3
  MaxTime = 2
  MaxThrottled = 5
  \* SessionStore
  McpServers = {p1, p2}
  Projects = {x}
  NoProject = nowhere
  BatchInterval = 2
  MaxBurst = 1
  MaxChanges = 3
  MaxSessions = 2
  MaxDrops = 1
  \* WorkflowRun
  WfServers = {a, b}
  WfCalls = {r1, r2}
  ServerOf <- MCServerOf
  WfStates = {plan, code, done}
  WfInitial = plan
  WfTransitions <- MCTransitions
  Needs <- MCNeeds
  AllowedTools <- MCAllowedTools
  Evidence = {read, test}
  LocalTools = {read}
  MaxWfCalls = 3
  \* GraphSearch
  GraphNodes = {f, g, v, w}
  GraphEdges <- MCGraphEdges
  Start = f
  MaxDepth = 2
  \* EditorConfig
  Installers = {p1, p2}
  MaxConfigEdits = 1
SYMMETRY MCSymmetry
CONSTRAINTS MCSharedBound MCUndisturbed
INVARIANTS
  PartsTypeOK
  JournalKeepsTheLast MarkerCoversSent SentOnce
  HostMirrorsFiles
  TasksAreLegal ReportedIsStored
  EveryCommandCountsOnce ScoresArrive
  WritersExclude MessagesStay
  SameIsHeld RefsKeepMeaning CacheFits
  NoCircularWait
  DropsLoseABatch LatestIsThere
  RunsWalkTheWorkflow GateIsCurrent
  SearchIsExact
  LastEditIsKept
PROPERTIES
  IndexGoesForward RepeatsAreRecent
CHECK_DEADLOCK FALSE
