CONSTANTS
    Slots = 2
    SeqMod = 2
    MaxEncoded = 3
    MaxUpsets = 1
    AckMayExpire = TRUE
SPECIFICATION FairSpec
INVARIANTS TypeOK SlotsConserved PipeInOrder FalseDuplicateOnlyAfterWrap
PROPERTIES ChannelSpec InflightReleased RingDrains
