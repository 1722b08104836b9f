SPECIFICATION Spec
CONSTANTS
  None = None
  Requests = {r1, r2}
  old = old
  Uploads = {old, u}
  Parts = {1}
  x = x
  Contents = {x, y}
  a = a
  Owners = {a, b}
  Unreadable = {}
  Broken = {}
  Codes = {k}
  MaxDocuments = 2
  MaxTotal = 2
  MaxClaims = 1
  MaxHeads = 2
  Servers = {s1, s2}
  Payloads = {z}
  Slices = {1, 2}
  Roots = {d1, d2}
  Paths = {"f"}
  Texts = {"x", "y"}
  Readable <- Parsed
  MaxFiles = 1
  MaxStamp = 2
  Chats = {q1, q2}
  Sources = {"private", "reference"}
  Origin <- ByName
  Forms <- AnyForm
  MaxVersion = 1
  Clients = {c1, c2}
  Askers = {c1}
  MinuteLimit = 2
  HourLimit = 3
  Minute = 2
  Hour = 4
  LastTick = 5
  Clicks = {b1, b2}
  Params = {i1, i2, i3}
  Faulty = {i3}
  Policies = {y1, y2}
  MaxRequests = 3
  MaxAsked = 1
SYMMETRY Symmetry
INVARIANTS UploadsAreWhole SourcesStand SearchesHold LimitsHold PageIsSound
PROPERTIES OnlyCodesMove
CHECK_DEADLOCK FALSE
