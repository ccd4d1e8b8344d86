SPECIFICATION FairSpec
CONSTANTS
    channelMsg = channelMsg
    directMsg = directMsg
    NoEntry = NoEntry
    Message <- MCDirectMessage
    DirectMessage <- MCDirectMessage
    Outcome <- AllOutcomes
    MaxEntry = 2
    StreamMaxLen = 1
    BatchSize = 2
    MaxCrash = 1
    MaxReadFault = 1
    MaxDelete = 1
    MaxRemove = 0
PROPERTIES
    UndeliveredEventuallyTaken
    EntrySettles
    ImplementsLog
