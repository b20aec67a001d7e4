SPECIFICATION MCSpec
CONSTANTS
  MaxID = 1
  Places <- MCPlaces
  Forms <- MCForms
  Asks <- MCAsks
  Changes <- MCChanges
  MaxUpdates = 2
  MaxNotices = 2
INVARIANTS
  SlotsInOrder
  ViewsAgree
  StreamAsExpected
  FillMeetsSubscription
PROPERTY
  FillsEnd
CHECK_DEADLOCK FALSE
