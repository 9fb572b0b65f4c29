\* Every interleaving of switches, retries, cancellations, closes and failures.
SPECIFICATION Spec
CONSTANTS
    Profiles <- MCProfiles
    PanelIds = {}
    Modes <- MCModes
    ModesOf <- MCModesOf
    Fields = {"cursor"}
    PortableFields = {}
    ReleaseMayReject = TRUE
    MaxEpoch = 4
    MaxRequests = 0
INVARIANTS
    NoOrphanTransport
    ReadyIsServed
    TimerOfStartup
    ModeAdvertised
PROPERTIES
    HoldsLease
