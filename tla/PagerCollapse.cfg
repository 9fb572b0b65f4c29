\* A turned page that is given up.
SPECIFICATION Spec
CONSTANTS
    s1 = s1
    s2 = s2
    s3 = s3
    Scopes <- ThreeScopes
    Supported <- Defined
    Total <- Resources
    Sizes <- PageSizes
    InitialLimit = 2
    MaximumLimit = 3
    Depth = 2
    Overtaken = 1
INVARIANT LowerBoundHolds
