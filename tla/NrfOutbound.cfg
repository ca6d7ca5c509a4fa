SPECIFICATION Spec
CONSTANTS
    CtrlSize = 4
    AudioSize = 2
    MaxCtrl = 7
    MaxAudio = 2
    MaxRepeats = 2
INVARIANTS TypeOK Accounted NewestKept
PROPERTIES RemovesSent ChannelsImplemented
