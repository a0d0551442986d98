SPECIFICATION Spec
CONSTANTS
  docx = docx
  xlsx = xlsx
  calc = calc
  none = none
  Tools <- MCTools
  Formats <- MCFormats
  NoTool = none
  Preference <- MCPreference
  Span = 1
  Requests <- MCRequests
  Gated <- MCFormats
  Replies <- MCReplies
  MaxReply = 3
  PlanLength = 4
  MaxToolCalls = 2
  MaxRetrieveLoops = 3
INVARIANTS
  AgentInv
  AnswerComesLast
  DocumentsAsAsked
  EveryCallIsShownInTime
PROPERTIES
  EveryRunFinishes
CHECK_DEADLOCK FALSE
