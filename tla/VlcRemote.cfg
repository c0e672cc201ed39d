SPECIFICATION FairSpec
CONSTANTS
    BufferSize = 8
    MaxAttempts = 3
    MaxRequests = 1
    MaxUnread = 5
    Local = FALSE
PROPERTY
    Hears
