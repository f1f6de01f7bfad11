SPECIFICATION MCSpec
CONSTANTS
  Word = 16
  Word32 = 4
  Thousand = 3
  Readers = {r1, r2}
  Calendars = {"c1", "c2"}
  StampOf <- MCStampOf
  ZoneOf <- MCZoneOf
  Offset = 1
  Day = 2
  Year = 4
  Base = 2
  IfSize = 4
  Ifs <- MCIfs
  Ports = {0, 1, 2}
  Flows = {0, 1, 4, 5}
  FlowMod = 4
  Scopes = {0, 1}
  BitXor <- MCXor
  TlsThreads = {t1, t2}
  TlsPtrs = {p1, p2}
  Objects = {o1, o2, o3}
  KeysMax = 2
  Rounds = 2
  NoObject = none
  Processes = {"A", "B", "C"}
  Pids = {"5", "6"}
  MaxArgc = 3
  Threads = {t1, t2}
  ChunkCount = 2
  ChunkBytes = 16
  MaxBlocks = 2
  Requests = {16, 17}
  Large = {large}
  Null = null
  Data = data
SYMMETRY MCSymmetry
CHECK_DEADLOCK FALSE
INVARIANTS StampExact OrderAgrees GettersTruthful EqualBothWays LessIsPartialOrder SurvivesTheWire OneOwner EndedEmpty EachReapsItsOwn HandedOutOnce Conserved
