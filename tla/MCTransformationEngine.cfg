\* Sides around the limit of 100 pixels and the largest integer, 107.
SPECIFICATION Spec
CONSTANTS
    Scenarios <- MCScenarios
    MaximumPixelCount = 100
    DctSize = 2
    CodecLengths = {1, 4, 11, 18, 19}
    MaximumFileLength = 18
    IntermediateBudget = 8
    MaxUint64 = 107
    MaximumMetadataLength = 12
    MaximumSegmentLength = 4
    RewriteGrowth = 1
INVARIANTS PlanIsBest PublishedIsTrue LossesWereReviewed RefusalsAreExplained EstimateCoversBuffers
