SPECIFICATION Spec
CONSTANTS
    Events <- OneEvent
    Requests <- Beat
    Carries <- CarriesOf
    MessageTurns <- TwoTurns
    ProfileOf <- Profiles
    DefaultProfile = "startup"
    MaxRounds = 2
    MaxCrashes = 0
    MaxFaults = 0
INVARIANT HeartbeatNeverWaits
CHECK_DEADLOCK FALSE
