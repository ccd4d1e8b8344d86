SPECIFICATION Spec
CONSTANTS
    channelMsg = channelMsg
    directMsg = directMsg
    NoEntry = NoEntry
    Message <- MCMessage
    DirectMessage <- MCDirectMessage
    Outcome <- AllOutcomes
    MaxEntry = 2
    StreamMaxLen = 1
    BatchSize = 2
    MaxCrash = 1
    MaxReadFault = 0
    MaxDelete = 1
    MaxRemove = 1
INVARIANTS
    TypeOK
    NotifiedOncePerSource
    AlertRowsFlagged
    InterestRowsFlagged
    UnfinishedStaysPending
PROPERTIES
    BegunInStreamOrder
