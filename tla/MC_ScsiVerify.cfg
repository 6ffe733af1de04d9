CONSTANTS
    CdbByte = 256
    Word64 = 1073741824
    Jobs <- VerifyJobs
    Answers <- SenseAnswers
SPECIFICATION Spec
INVARIANTS TypeOK RequestsTileSegment ResultMatchesSpec
