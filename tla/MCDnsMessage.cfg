SPECIFICATION Spec
CONSTANTS
    Ids = {258, 512, 3}
    Flags = {256, 288}
    Qtypes = {1, 28, 15}
    Opts = {0, 1}
    PlainOwners = FALSE
    Requests <- MCRequests
    Sections <- MCSections
    Stored <- MCStored
    NewIds = {513}
    MAX_NAME_LENGTH = 7
    ANS_SIZE = 4
    TMP_ANS_SIZE = 3
    RECV_SIZE = 120
INVARIANT TypeOK
INVARIANT ReadsQuestion
INVARIANT InBounds
INVARIANT AtNextAnswer
INVARIANT ReadsAnswers
INVARIANT RepliesWellFormed
INVARIANT ForwardsRequest
INVARIANT TimeoutReadable
 
PROPERTY HandledToEnd
