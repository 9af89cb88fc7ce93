SPECIFICATION Spec
INVARIANTS
    FailsForCause
    EqualSettingsAgree
    NoMethodIgnored
CHECK_DEADLOCK FALSE
CONSTANTS
    both = both
    oneway = oneway
    Extensions = {both, oneway}
    Implements <- MCImplements
    Configurations <- MCConfigurations
