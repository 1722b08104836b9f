SPECIFICATION MCSpec
CONSTANTS
  Principals <- All
  Forms <- AllForms
  Departments = {"all"}
  Categories = {"generation"}
  Chats = {a, b, c}
  MayFind <- AnyOf
  Bucket <- SplitBuckets
  LastDay = 1
  MaxDocuments = 2
  MaxPerOwner = 2
  MaxConversations = 3
  MaxRounds = 3
  MaxFeedback = 3
  MaxStamp = 2
  MaxSkills = 2
  MinUsers = 1
  MinCases = 1
  None = None
INVARIANTS NewestVersionInForce ActiveIsReviewed
PROPERTIES AnswersCiteCurrent NoOrphanedTreatment RollbackIsFinal GuardrailActs
SYMMETRY Symmetry
CHECK_DEADLOCK FALSE
