\* Three pages of two, with matching and other events, and two torn lines, so
\* that one line may be torn twice.
CONSTANTS
    Limit = 2
    MaxEvents = 6
    MaxTorn = 2
SPECIFICATION Spec
INVARIANTS WalkFindsAll WholeEventsStay
