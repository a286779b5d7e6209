\* One tag on one EVSE; every kind of decision about it may interleave.
CONSTANTS
    Tags = {t1}
    Evses = {e1}
    InitialSettings = {"LocalAuthListEnabled", "AuthorizationCacheEnabled", "LocalAuthorizeOffline", "LocalPreAuthorize", "AllowOfflineTxForUnknownId", "StopTransactionOnInvalidId"}
    Changeable = {"AuthorizationCacheEnabled"}
    LocalAuthListMaxLength = 1
    MaxTime = 1
    MaxVersion = 1
    MaxFlights = 2
    Slots = {x1, x2}
    NoSlot = NoSlot
SPECIFICATION Spec
INVARIANTS
    CacheIsWhatCsmsSaid
    ReviewRefusalStops
SYMMETRY SlotSymmetry
CHECK_DEADLOCK FALSE
