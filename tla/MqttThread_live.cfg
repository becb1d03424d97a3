\* Connection and configuration through outages of two brokers,
\* and the heartbeat when the web server answers.
\* The daemon stops for good after shutdown.
CONSTANTS
    a = a
    b = b
    Values = {a, b, lo}
    Empty = Empty
    Loopback = lo
    Payloads <- TwoConfigs
    None = None
    Handles = {h1}
    Reads = {"6"}
    StartupReads <- NoReads
    CallbackReads = {}
    Main = main
    Backup = backup
    MaxOutages = 1
    Started = {"keepalive"}
SPECIFICATION FairSpec
CHECK_DEADLOCK FALSE
PROPERTIES
    UpdateIsApplied
    MqttShutdown
    HeartbeatRepeats
