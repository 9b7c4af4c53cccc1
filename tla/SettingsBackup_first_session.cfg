\* A new device with a new card, two changes and a power loss.
SPECIFICATION Spec
CONSTANTS
  MaxEdits = 2
  MaxTrouble = 0
  MaxBoots = 2
  Fresh = TRUE
PROPERTIES
  UserStateAuthoritative
CHECK_DEADLOCK FALSE
