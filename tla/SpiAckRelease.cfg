CONSTANTS
    Slots = 2
    SeqMod = 4
    MaxEncoded = 2
    MaxUpsets = 1
    AckMayExpire = FALSE
SPECIFICATION FairSpec
PROPERTY AckReleasesAdmittedFrame
