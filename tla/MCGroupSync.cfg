CONSTANTS
    Ranks = {0, 1, 2}
    Channels <- MCChannels
    Members <- MCMembers
    IsGather <- MCIsGather
    Program <- MCProgram
    RemoveInterval = 2
    DelayCount = 1
    MaxSn = 3

SPECIFICATION FairSpec

INVARIANTS
    TypeOK
    LeavesTogether
    GathersAll
    OldKeysQueued

PROPERTIES
    RemovesOnlyDone
    AllReturn
