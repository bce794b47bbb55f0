SPECIFICATION CaptureSpec
CONSTANTS
    Lengths = {0, 1, 2, 3}
    Stamps = {0, 1, 2, 3}
    ReadBufferCapacity = 2
    Retentions <- MCRetentions
    MaximumChanges = 2
INVARIANTS CaptureIsOneVersion
