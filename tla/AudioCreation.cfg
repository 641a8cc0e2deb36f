SPECIFICATION Spec
CONSTANTS
    Captures = {c1}
    Launches = {}
    UserSink = speakers
    Sinks = {stereo, surround}
    None = none
PROPERTIES
    CreationAfterRestore
