CONSTANTS
  Top = 128
  IntMin <- MinusTwenty
  IntMax = 20
  RangeMin = 0
  RangeMax = 12
  Chars <- Bytes
  Files <- SomeFiles
  NoFile = NoFile
  Convention = "bacs_legacy"
  Points = {0, 13, 256}
  MaxReads = 3
  Outputs <- Lines
  Answers <- Lines
SPECIFICATION CheckersSpec
INVARIANTS
  AcceptedIsRead
  OnlyOutputIsBlamed
  VerdictArrives
  ComparesLines
PROPERTIES
  OnlyCanonicalIsRead
CHECK_DEADLOCK FALSE
