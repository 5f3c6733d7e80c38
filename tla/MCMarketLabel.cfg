CONSTANTS
    Threads = {t1, t2}
    Tickers = {a, b}
    MaxEntries = 1
    Ttl = 1
    SearchSlots = 1
    FallbackEnabled = TRUE
    MaxCalls = 3
    None = None
SPECIFICATION Spec
INVARIANT LabelNamesSource
CHECK_DEADLOCK FALSE
