\* Request IDs up to MaxRequestID; the server also sends IDs of its own choosing:
\* duplicates, skipped ones and one of the wrong parity.
SPECIFICATION WireSpec
CONSTANTS
  MaxRequestID = 4
  Rogue = {"server"}
  Strays = {0, 1, 3, 7}
  MaxID = 2
  Drafts = {18, 22}
  Versions = {18, 22}
  StreamVersions = {18, 22}
  MaxSent = 3
INVARIANTS
  NeverRefused
  OnlyHolesKept
  ReadsWhatWasWritten
  RangesSurvive
  JoinIsSeamless
  ScopesAgree
  TakenAsMeant
PROPERTIES
  ExactMemory
  AnsweredCallsReturn
CHECK_DEADLOCK FALSE
