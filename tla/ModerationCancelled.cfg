SPECIFICATION Spec
CONSTANTS
    p1 = p1
    p2 = p2
    Decisions = {1, 2, 3}
    Plugins = {p1, p2}
    Kind <- KindOf
    Plugin <- PluginOf
    Matches <- MatchesOf
    Edits = {"confirm", "cancel", "delete", "revert", "withdrawal", "other"}
    BOUND = 1
    WINDOW = 1
    ATTEMPTS = 1
    MaxFaults = 1
    MaxEdits = 1
PROPERTIES
    CancelledStaysOff
