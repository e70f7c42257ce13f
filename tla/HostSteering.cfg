SPECIFICATION Spec
CONSTANTS
    Calls <- TwoCalls
    Requests <- SteerRequests
    Kind <- KindOf
    CallOf <- Answers
    Batches <- Singles
    Place <- InOrderOfNames
    MaxCrashes = 0
    MaxFaults = 0
PROPERTIES SteeringKeepsPending
CHECK_DEADLOCK FALSE
