SPECIFICATION FairSpec
CONSTANTS
    Users = {u1}
    Codes = {180, 200}
    ReqTransCount = 2
    RspTransCount = 2
    MaxAnswers = 2
    MaxCopies = 1
INVARIANTS
    TypeOK
    AckedIsAnswered
    NoAnswerLost
    TriesBounded
PROPERTY
    Ends
CHECK_DEADLOCK FALSE
