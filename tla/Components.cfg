SPECIFICATION Spec
CONSTANTS
  Spellings = {"a", "a/", "b"}
  Norm <- MCNorm
  Clients = {c1, c2}
  CurrentVersion = 2
  MaxWrites = 3
  Texts = {1, 2}
  Workers = {w1}
  NKeys = 2
  BatchSize = 1
  Dims = {3, 4}
  ApiDim = 4
  NoEntry = NoEntry
  Garbled = Garbled
  MaxRefusals = 2
  Names = {a, b}
  Nameless = Nameless
  Anonymous = Anonymous
  MaxNodes = 4
  TopK = 2
  MaxHits = 2
  MaxMore = 1
  MaxTurns = 2
  CharBudgets = {0, 2}
  Sizes = {1, 2}
  MinIterations = 3
  Symbols = {s1, s2, s3, s4}
  BaseChunks = {1, 2}
  Scores = {1000}
  MaxDepth = 2
  MaxBonus = 3
  MaxCalls = 3
  MaxOverlaps = 1
  MaxLines = 4
  MaxRanges = 2
  MaxFound = 3
  Window = 3
  Stride = 2
  MergeCap = 3
  Pad = 1
  MaxBlocks = 2
  Budget = 6
  NoId = NoId
  NoSign = NoSign
  Blobs = {"b1", "b2"}
  PathOf <- MCPathOf
  Handlers = {h1, h2}
  NoBlob = NoBlob
  NoCheckpoint = NoCheckpoint
  MaxCheckpoints = 1
  MaxRequests = 3
SYMMETRY MCSymmetry
INVARIANTS
  TypeOK
  MemoryWasSaved
  AddedOnce
  
  NamesJoinUp
  
  SelectionStands
  
  CallsAnswered
  LimitedKeysRest
  EngineIsTold
  
PROPERTIES
  BudgetStops
CHECK_DEADLOCK FALSE
