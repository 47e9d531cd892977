\* Two requests, one after the other or together.
CONSTANTS
  MaxRequests = 2
  MaxInFlight = 2
SPECIFICATION SettingsSpec
PROPERTY TogglesSurvive
CHECK_DEADLOCK FALSE
