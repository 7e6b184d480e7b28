SPECIFICATION Spec
CONSTANTS
  r1 = r1  r2 = r2
  None = None
  Tokens <- MCTokens
  Special <- MCSpecial
  Percent <- MCPercent
  Families = {1, 3}
  Modes = {1, 2}
  DefaultHl = "zh-CN"
  Hars <- MCHars
  Requests <- MCRequests
  Chats <- MCChats
  Pieces <- MCPieces
  Images <- MCImages
  Samplings <- MCSamplings
  Model <- MCModel
  SystemPrompt <- MCPrompt
  Defaults <- MCDefaults
SYMMETRY Symmetric
INVARIANTS TypeOK OwnSampling UploadsInOrder SessionCarried
CHECK_DEADLOCK FALSE
