SPECIFICATION Spec
CONSTANTS
    w1 = w1
    w2 = w2
    Nobody = Nobody
    Worker <- TwoWorkers
    Kinds <- SixKinds
    PromptSizes <- ThreeSizes
    TrainCtx = 8
    MaxCtx = 6
    Overhead = 1
    Predict = 3
    SttPredict = 1
    TtsPredict = 4
    Batch = 2
    VisionBatch = 2
    TtsBatch = 2
    UBatch = 2
    Slack = 1
    Floor = 4
    Word = 64
INVARIANTS TypeOK ContextSuffices OneMediaEncoding NothingLeaks
PROPERTIES EveryRunEnds NoStepGoesBack
CHECK_DEADLOCK FALSE
