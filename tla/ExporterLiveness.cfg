CONSTANTS
    b1 = b1
    b2 = b2
    s1 = s1
    s2 = s2
    s3 = s3
    Batches = {b1, b2}
    Subjects = {s1, s2, s3}
    NoSubject = NoSubject
    RecordsOf <- MCRecordsWithTrouble
    Unmarshalable <- OneUnmarshalable
    Unpublishable <- OneUnpublishable
    Modes = {"jetstream"}
    MaxExports = 2
SPECIFICATION FairSpec
PROPERTY ExportReturns
CHECK_DEADLOCK FALSE
