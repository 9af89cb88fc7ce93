CONSTANTS
    Resources = {1, 2}
    Scopes = {1, 2}
    Subjects = {s1, s2}
    NoSubject = NoSubject
    MaxRecords = 5
SPECIFICATION Spec
INVARIANTS
    MatchesNaive
    GroupsPartitionRecords
    ContextsCopiedOnce
CHECK_DEADLOCK FALSE
