SPECIFICATION PortalSpec
CONSTANTS
  c1 = c1 c2 = c2 n1 = n1
  Stored = {c1, c2}
  Fresh = {n1}
  None = None
  MaxClicks = 2
  MaxSteps <- StepsStudio
  AttachmentCap = 2 RefCap = 2 ContextRefs = {1, 2, 3} MaxFiles = 3 MaxTurns = 2
  Commands <- MCCommands
  Replies = {r1, r2} Questions = {1, 2} NoQuiz = NoQuiz
  Accounts = {student, admin} Admins = {admin} Nobody = Nobody MaxGen = 2
  Options = {1, 4}
  MaxSubmissions = 3
  MaxSessions = 3
  MaxHistory = 2 RunsForBadge = 2
  Listed = {1, 2}
  Letters <- MCLetters
  DueSizes = {0, 2, 5} MaxAttempts = 6
PROPERTY TypedCodeIsSaved
CHECK_DEADLOCK FALSE
