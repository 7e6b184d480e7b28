SPECIFICATION Spec
CONSTANTS
  NoDocument = NoDocument
  LoadOrder <- One
  OddNames <- NoNames
  Models <- OneModel
  Settings <- NoSettings
  OddSettings <- NoSettings
  Comments <- MCComments
  HandBlocks <- JustBound
  MaxChanges = 2
  MaxGui = 0
INVARIANTS StartsAfterSave
CHECK_DEADLOCK FALSE
