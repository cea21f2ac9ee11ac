SPECIFICATION FairSpec
CONSTANTS
    s1 = s1
    s2 = s2
    Sessions = {s1, s2}
    Healthy = {s1}
    MaxEvents <- MCEvents
    MaxCrashes = 1
INVARIANTS HeadReserved
PROPERTIES ImplementsDelivery NoStarvation CredentialsErased
