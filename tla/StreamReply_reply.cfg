SPECIFICATION ReplySpec
CONSTANTS
  Prefix = Prefix
  Framing = Prefix
  Characters <- MCCharacters
  Calls <- MCCalls
  Documents <- MCDocuments
  Size <- MCSize
  StopLines = 2
  MaxBuffer = 8
  ChunkChars = 2
  MaxChunks = 2
  MaxPiece = 3
INVARIANTS ReplyTypeOK ChunksRejoin ShortDocumentsWhole LastWordsCount
CHECK_DEADLOCK FALSE
