\* Two panels over two switches, with releases that never reject: the panel
\* invariants and the liveness of startups and panels.
SPECIFICATION FairSpec
CONSTANTS
    Profiles <- MCOneProfile
    PanelIds = {"schema", "resources"}
    Modes = {"minimize"}
    ModesOf <- MCOneModeOf
    Fields = {"cursor"}
    PortableFields = {}
    ReleaseMayReject = FALSE
    MaxEpoch = 3
    MaxRequests = 2
INVARIANTS
    PanelsOfThisEpoch
PROPERTIES
    AnswersInOrder
    StartupSettles
    PanelSettles
