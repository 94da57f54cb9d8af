CONSTANTS
    Still = {1}
    Animated = {2}
    Layers = 2
    MaxLayer = 2
    Strips = 2
    Width = 4
    AnimationTime = 2
    FrameLengths = {1, 2}
    MaxClock = 4
    MaxTexture = 2
SPECIFICATION FairFrameSpec
INVARIANT FramesAreComplete
PROPERTY AnimationsComeRound
