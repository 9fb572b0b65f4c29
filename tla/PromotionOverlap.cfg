\* Two pushes of a profile with a comparison instance.
SPECIFICATION Spec
CONSTANTS
    Deployments = {d1, d2}
    Before = d0
    Functions = {primary, comparison}
    Primary = primary
    Earlier = 1
    Retain = 2
SYMMETRY Pushes
\* The pushes are used up.
CHECK_DEADLOCK FALSE
INVARIANTS
    ServedAgrees
    RollbackTargetKept
PROPERTIES
    NoLostPromotion
    
