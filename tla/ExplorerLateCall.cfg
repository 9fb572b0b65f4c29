\* A cancellation that settles late replaces the readiness of a newer switch.
SPECIFICATION Spec
CONSTANTS
    Profiles <- MCOneProfile
    PanelIds = {}
    Modes = {"minimize"}
    ModesOf <- MCOneModeOf
    Fields = {}
    PortableFields = {}
    ReleaseMayReject = FALSE
    MaxEpoch = 3
    MaxRequests = 0
PROPERTIES
    OvertakenCallIsSilent
