SPECIFICATION Spec
CONSTANTS
    Orientations <- MCOrientations
    MainSizes <- MCMainSizes
    MaxFormats = 2
    MaxRecords = 2
INVARIANT TypeOK
INVARIANT ProjectionFitsVideo
PROPERTY FramesTaggedWithProjection
PROPERTY StopEndsLoop
