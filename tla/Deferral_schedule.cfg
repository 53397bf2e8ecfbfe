SPECIFICATION Spec
CONSTANTS
    NLayer = 5
    DepthKnobs <- MCDepthKnobs
    LayerKnobs <- MCLayerKnobs
INVARIANT DeliveredOnce
INVARIANT ExactlyDBlocksStale
INVARIANT LogTellsTheSchedule
INVARIANT RowsAgree
CHECK_DEADLOCK FALSE
