SPECIFICATION FairSpec
CONSTANTS
  NoDocument = NoDocument
  LoadOrder <- Two
  OddNames <- OddName
  Models <- OneModel
  Settings <- MCOddSettings
  OddSettings <- MCOddSettings
  Comments <- MCComments
  HandBlocks <- WithHar
  MaxChanges = 2
  MaxGui = 1
INVARIANTS TypeOK WholeFile SettingsSurvive SavedIsServed
PROPERTIES OthersStay ChangesSettle
CHECK_DEADLOCK FALSE
