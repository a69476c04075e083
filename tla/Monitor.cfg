SPECIFICATION FairSpec
CONSTANTS
  IntBits = 4
  LongBits = 6
  Formats <- SmallFormats
  Words <- SmallWords
  Texts <- SmallTexts
  ErrorString <- SmallErrors
  BUFSIZE = 5
  MAXARGS = 1
  Keys <- SmallKeys
  Commands <- SmallCommands
INVARIANTS
  LineAsTyped
  PrintedAsPassed
  StringsAsDefined
PROPERTIES
  PrintReturns
