CONSTANTS
    MaxUnits = 1
    PlaceNames <- MCPlaces
    FreeTexts = {"Desk"}
    Sites = {2}
    Renames = {}
    InstallationTypes = {"portable", "fixed"}
    RecordHandlers = {}
    Serves <- MCServes
    Typed = {"status", "location_id", "location", "installation_type"}
    MaxEdits = 1
    Choices <- MCChoices
SPECIFICATION FormsSpec
CHECK_DEADLOCK FALSE
PROPERTIES ChosenStatusKept
