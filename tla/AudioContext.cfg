SPECIFICATION FairSpec
CONSTANTS
    Captures = {c1, c2, c3}
    Launches = {l1}
    UserSink = speakers
    Sinks = {stereo, surround}
    None = none
INVARIANTS
    TypeOK
    RetainedForApp
    SoundComesBack
PROPERTIES
    AcquireReturns
