SPECIFICATION Spec
CONSTANTS
    Profile <- AnyProfile
    Profiles <- Three
    Repetitions = 1
    MaxSize = 60
    MaxMillis = 3600000
    Attempts = 1
INVARIANTS
    PartialIgnored
