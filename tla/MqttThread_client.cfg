\* The client and the copies of its handle while every publisher runs.
\* The daemon stops for good after shutdown.
CONSTANTS
    a = a
    b = b
    Values = {a, b, lo}
    Empty = Empty
    Loopback = lo
    Payloads <- OneConfig
    None = None
    Handles = {h1, h2}
    Reads = {"6"}
    StartupReads <- OneRead
    CallbackReads = {"6"}
    Main = main
    Backup = backup
    MaxOutages = 1
    Started = {"startup", "boot"}
SPECIFICATION Spec
CHECK_DEADLOCK FALSE
INVARIANTS
    OneClient
    HandlesAgree
