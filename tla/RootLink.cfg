SPECIFICATION Spec
CONSTANTS
    Slots = {1, 2}
    None = none
    MaxVersion = 2
    MaxQueue = 1
    MaxFaults = 1
PROPERTIES Listed Unlisted Relisted Relinked
CHECK_DEADLOCK FALSE
