\* Two clusters that users create, change and delete at any time.
SPECIFICATION FairSpec
CONSTANTS
    Clusters = {c1, c2}
    Watchers = {g1, g2, g3, g4}
    MaxEdits = 4
    None = None
    Faults = {"crash"}
INVARIANTS RegisteredIsGuarded
PROPERTIES TrackedIsWatched GoneIsUnwatched
CHECK_DEADLOCK FALSE
