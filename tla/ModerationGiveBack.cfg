SPECIFICATION Spec
CONSTANTS
    p1 = p1
    p2 = p2
    Decisions = {1, 2, 3}
    Plugins = {p1, p2}
    Kind <- BackKindOf
    Plugin <- BackPluginOf
    Matches <- BackMatchesOf
    Edits = {"withdrawal"}
    BOUND = 1
    WINDOW = 1
    ATTEMPTS = 0
    MaxFaults = 0
    MaxEdits = 1
PROPERTIES
    WithinBound
