\* Two texts, filters and places, two pages, a few inputs and one refused request for each screen.
CONSTANTS
  b1 = b1
  b2 = b2
  Texts = {"", "tea"}
  Filters = {"", "low"}
  LastPage = 1
  MaxTurns = 3
  MaxFaults = 1
SPECIFICATION MCSpec
CHECK_DEADLOCK FALSE
INVARIANTS
  ShownIsAsked
  SavesCount
PROPERTIES
  ScreensSettle
