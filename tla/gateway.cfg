CONSTANTS
    LowerCase <- MCLowerCase
    ByteOrder <- MCByteOrder
    Exact = 4
    Asks <- MCAsks
    Inputs <- MCInputs
    HashOf <- MCHashOf
    RejectedOf <- MCRejectedOf
    Replies <- MCReplies
    Files <- MCFiles
    Settings <- MCSettings
    MaxTapes = 1
    Unset = "unset"
SPECIFICATION Spec
CONSTRAINT Room
INVARIANT HitAnswersTheAsk
INVARIANT HitRepeats
INVARIANT AskReachesItsProvider
INVARIANT UpCanServe
PROPERTY RespellingsHit
