\* The main broker stays down, the backup is up.
\* The daemon stops for good after shutdown.
CONSTANTS
    a = a
    b = b
    Values = {a, b, lo}
    Empty = Empty
    Loopback = lo
    Payloads <- OneConfig
    None = None
    Handles = {h1}
    Reads = {"6"}
    StartupReads <- NoReads
    CallbackReads = {}
    Main = main
    Backup = backup
    MaxOutages = 1
    Started = {}
SPECIFICATION WebFairSpec
CHECK_DEADLOCK FALSE
PROPERTIES
    FailsOver
