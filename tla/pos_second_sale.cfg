\* Two sales one after the other, and nothing is lost.
CONSTANTS
  None = None
  Contents = {old, new}
  MaxIds = 2
  MaxFaults = 0
  MaxOffers = 1
SPECIFICATION FairSpec
CHECK_DEADLOCK FALSE
PROPERTIES
  PreparedIsReviewed
