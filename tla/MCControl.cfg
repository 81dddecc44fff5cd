SPECIFICATION FairSpec
CONSTANTS
    Sources = {s1, s2}
    Directions <- MCDirections
    Policy <- MCPolicy
    Near <- MCNear
    Straight = "front"
    NoTrack = NoTrack
    ActivationHold = 2
    ConfirmationHold = 1
    ReleaseHold = 2
    HoldDirection = 2
    FailsafeTimeout = 2
    MaxAge = 3
    MaxGap = 1
INVARIANTS TypeOK SteersOnEvidence NeverAimsAtAmbient
PROPERTIES FocusIsEarned SilenceReleases TalkerIsHeard
