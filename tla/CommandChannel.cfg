\* Two commands, each handed out at most twice; one abandoned claim may still arrive.
CONSTANTS
    NumCommands = 2
    MaxClaims = 2
    MaxInFlight = 1
    Redelivers = TRUE
SPECIFICATION FairSpec
INVARIANTS TypeOK NoReplay OneHandOutOneOutcome OutcomeIsTrue
PROPERTIES ImplementsDelivery QueuedIsClaimed
