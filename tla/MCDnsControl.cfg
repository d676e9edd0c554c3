SPECIFICATION FairSpec
CONSTANTS
    PlainIds = {p1}
    DotIds = {d1}
    DohIds = {}
    Presets = {p1}
    Domains = {x, y}
    PresetEntries = {x}
    SlotLimit = 1
    None = None
    MaxOps = 2
    MaxFaults = 1
INVARIANTS
    OutcomeTruthful
    ForeignKept
    EntriesKept
    SavedIsWhole
PROPERTY
    OpsReturn
CHECK_DEADLOCK FALSE
