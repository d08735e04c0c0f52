CONSTANTS
  Forms <- MCFormNames
  Habits <- AllForms
  MaxEdits = 3
  MaxSends = 2
SPECIFICATION Spec
INVARIANTS LastWordIsKept TypingIsKept NothingAddedTwice
PROPERTY OthersSavesStay
CHECK_DEADLOCK FALSE
