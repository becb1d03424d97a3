\* The backoffs of 1, 2, 4 and 8 periods and the debounce window of three are the
\* code's; PONG_TIMEOUT is two periods instead of twelve.
CONSTANTS
    Agents = {1, 2, 3}
    MaxExp = 3
    Debounce = 3
    PongPeriods = 2
    Strikes = 2
    Lag = 2
    MaxMishaps = 3
SPECIFICATION SessionFairSpec
PROPERTIES LiveNegotiationKept Recovers
