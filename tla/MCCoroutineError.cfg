CONSTANTS
  N = 3
  MaxLength = 4
  Bytes <- TwoBytes
  Arguments <- Short
  Counts <- UpToLength
  MaxCoroutines = 2
  MaxErrors = 1
  HandlerRepeats = TRUE
  Entries = {"e1", "e2", "e3"}
  Queues = {"q1", "q2"}
  NoEntry = NoEntry
  Objects <- TheObjects
  MapperConfigs <- TheConfigs
  MaxDamage = 1
  Codes = {97, 34, 92, 47, 10, 1, 233, 8364, 128512}
  MaxChars = 2
  Flags <- TheFlags
  Bodies <- TheBodies
  Framings = {"chunked", "length", "close", "piped"}
  Drivers = {"blocking", "coroutine"}
  NextMessage <- ChunkLine
  BufferSize = 4
  ProxySize = 3
  Messages <- TheMessages
  Names = {"n", "m"}
  Readers = {"n"}
  MaxPiece = 7
  MaxDataSize = 4
  MaxPartHeadersSize = 4
  Threads = {"t1", "t2"}
  Types = {"A", "B"}
  Components = {"c1", "c2"}
  MaxObjects = 2
  TcpClients = {"b", "c"}
  TcpCoroutines = {"c"}
  Addresses = 2
  TcpArrivals = 1
  TcpStoppers = {"s", "t"}
  Table = {1, 2, 3}
  Routers <- TheRouters
  Methods = {"GET", "POST"}
  Characters = {"/", "a", "b", "?"}
  MaxUrl = 5
  PathValues <- ThePathValues
  QueryLists <- TheQueryLists
  Extras <- TheExtras
  Heads <- TheHeads
  RangeLists <- TheRangeLists
  ContentRanges <- TheContentRanges
  ItemLists <- TheItemLists
  Follows <- TheFollows
  readChunkSize = 5
  maxHeadersSize = 23
  StackSize = 2
  Width = 5
  Capacities = {0, 3}
  CallCounts = {0, 1, 2, 5}
  MaxText = 9
  MaxTexts = 2
  Mappers <- TheMappers
  ContentTypes = {"a", "*"}
  Subtypes = {"j", "x", "*"}
  Qualities = {0, 500}
  MaxHeader = 2
  MaxChanges = 3
  NoMapper = NoMapper
  Texts = {"a", "b"}
  MaxPuts = 2
  Values = {32, 43, 58, 250}
  MaxBytes = 4
  Letters16 = {"upper", "lower"}
  SpaceToPlus = {"yes", "no"}
SPECIFICATION PartsSpec
CONSTANT Parts = {"coroutine"}
INVARIANTS
  OwnFunction
CHECK_DEADLOCK FALSE
