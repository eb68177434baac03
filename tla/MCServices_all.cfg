SPECIFICATION MCSpec
CONSTANTS
  Services = {"signals", "pages", "jumps", "hot", "passes", "peephole", "codecache", "pool", "profiler", "trace", "perf",
    "inline", "hotlist", "namespaces", "reflection", "numbers", "bridge", "batch"}
  SigThread = {t1}
  Sig = {0, 1}
  Handler = {h1, h2}
  SigNode = {n1, n2}
  Segv = 0
  SigNil = SigNil
  SigFreed = SigFreed
  PpPage = {1, 2, 3}
  TrackMax = 2
  MaxSpan = 2
  Prots <- MCProts
  Addr = {a1, a2, a3}
  Capacity = 2
  StubMax = 3
  MaxHits = 1
  HotPc = {p1, p2, p3}
  HotMax = 2
  Threshold = 2
  Aggressive = 3
  Buffer = {1, 2, 3}
  MaxClock = 4
  Window = 32
  Windows <- MCWindows
  Behind <- MCBehind
  PeepInstr <- MCPeepInstr
  PeepBehind <- MCPeepBehind
  MaxPeep = 3
  MaxRewrite = 8
  CcThread = {t1, t2}
  CcAddr = {"a", "b"}
  CcBuffer = {"x", "y", "z"}
  CcSlots = 2
  CcNone = "none"
  MaxHit = 2
  Bases = {b1, b2, b3}
  ClassSizes <- MCClassSizes
  Alignment = 2
  Requests = {1, 3, 5, 8, 17}
  InitialSizes = {0, 7, 40}
  MaxSize = 20
  Growth = TRUE
  ChunkSize = 16
  RingMax = 2
  RegionMax = 1
  RegionName = {"r", "s"}
  EventType = {"start", "end", "block"}
  ProfPc = {"p"}
  MaxEvents = 4
  MaxCalls = 2
  MaxTick = 2
  TimeWrap = 8
  TraceMax = 3
  TraceEvent = {"e", "f"}
  MaxRecords = 5
  PerfThread = {"t"}
  PerfSize = {1, 2}
  MaxPerf = 3
  BrTarget = {"t1", "t2", "t3"}
  BrCode = {"x1", "x2"}
  InlineSize = 2
  NoBr = "zero"
  MaxBrHits = 4
  BrPc = {"p1", "p2", "p3"}
  BrThread = {"t1", "t2"}
  HotListMax = 2
  HotAfter = 2
  Ns = {"ns1", "ns2"}
  NsLib = {"l1", "l2"}
  IsolatedNs = {"ns2"}
  Permitted <- MCPermitted
  NsFirstMax = 1
  MaxNest = 2
  MaxNsLoads = 4
  MaxNsArrays = 4
  JClass = {"c", "d", "e"}
  ReflMax = 1
  MethodMax = 1
  ReflNest = 2
  MaxAllocs = 3
  MaxEntries = 3
  KeptName <- MCKeptName
  NrMax = 4
  NrKnown = 3
  ScThread = {"t1", "t2"}
  BridgeSig = {1, 2}
  BridgeHandler = {"h1", "h2"}
  AppAction <- MCAppAction
  RegisterAgain = FALSE
  BatchCalls <- MCBatchCalls
  WorkerMax = 4
INVARIANTS
  HandlersSafe PagesRight StubsRight HotRight OutputFits PeepholeRight EntriesMapped
  BlocksSafe UsedIsSum RecordingRight InlineNewest RetranslatedOnce NamespacesRight
  EntriesSound NumberOrUnknown NoSignalLost BatchRight
CHECK_DEADLOCK FALSE
