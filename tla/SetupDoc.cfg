SPECIFICATION Spec
INVARIANT AtMostOneMethod
CHECK_DEADLOCK FALSE
CONSTANTS
    both = both
    oneway = oneway
    Extensions = {both, oneway}
    Implements <- MCImplements
    Configurations <- MCConfigurations
