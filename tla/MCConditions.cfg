SPECIFICATION Spec
CONSTANTS
    Text <- MCText
    Shown <- MCShown
    Country <- MCCountry
    Browser <- MCBrowser
    None = None
    Users <- MCUsers
    Targets <- MCTargets
    Fields <- MCFields
    Params <- MCParams
    Tier = "a"
    TopField <- MCTopField
    Lower <- MCLower
    Now = 35
    FarFuture = 99
    LocalZone = 4
    Day = 10
INVARIANT VersionOrder
INVARIANT MissingEqualsNil
INVARIANT TimeUnitsAgree
CHECK_DEADLOCK FALSE
