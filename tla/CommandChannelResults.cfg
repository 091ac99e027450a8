\* Whether the outcome of an executed command reaches the control plane.
CONSTANTS
    NumCommands = 2
    MaxClaims = 1
    MaxInFlight = 1
    Redelivers = FALSE
SPECIFICATION NetworkFaultSpec
PROPERTIES OutcomeReachesControlPlane
