CONSTANTS
    b1 = b1
    b2 = b2
    s1 = s1
    s2 = s2
    s3 = s3
    Batches = {b1, b2}
    Subjects = {s1, s2, s3}
    NoSubject = NoSubject
    RecordsOf <- MCRecordsOf
    Unmarshalable <- Nothing
    Unpublishable <- Nothing
    Modes = {"jetstream"}
    MaxExports = 1
SPECIFICATION Spec
INVARIANT PublishErrorIsRetried
CHECK_DEADLOCK FALSE
