CONSTANTS
  Principals <- Readers
  Forms <- Handbook
  Departments = {"all"}
  Categories = {"generation"}
  Chats = {a, b}
  MayFind <- AnyOf
  Bucket <- SplitBuckets
  LastDay = 0
  MaxDocuments = 1
  MaxPerOwner = 2
  MaxConversations = 2
  MaxRounds = 2
  MaxFeedback = 1
  MaxStamp = 1
  MaxSkills = 0
  MinUsers = 1
  MinCases = 1
  None = None
SPECIFICATION MCSpec
PROPERTIES DeletedStaysDeleted
CHECK_DEADLOCK FALSE
