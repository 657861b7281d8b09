\* The calls are limited in number, so every behaviour stops; a put_nowait that never returns is
\* a violation of the property.
SPECIFICATION ClientSpec
CONSTANTS
    p = p
    c = c
    None = None
    MaxPuts = 2
    MaxGets = 1
    Client <- MCClient
    Task <- MCTask
    Item <- MCItem
    Key = {k1, k2}
    Weight <- MCWeight
    Target <- MCTarget
    BatchKey = {}
    MaxSize = 1
    Uses <- NowaitPuts
    MixKeys = FALSE
    MixGets = FALSE
PROPERTY PutNowaitReturns
CHECK_DEADLOCK FALSE
