CONSTANTS
  Past = 2
  MaxChats = 3
  MaxEvents = 3
SPECIFICATION ChatSpec
INVARIANTS PageIsTranscript QuestionsStayHome FollowUpsFit ListIsCurrent
CHECK_DEADLOCK FALSE
