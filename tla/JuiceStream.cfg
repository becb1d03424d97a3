\* Two players of one camera; a chunk may be lost and one may arrive twice.
CONSTANTS
    c1 = c1
    c2 = c2
    Conns = {c1, c2}
    FrameChunks <- TwoPlayers
    BufferChunks = 2
    SeqSpace = 16
    FirstSeq = 15
    QueueSlots = 2
    QueueChunks = 2
    MaxInFlight = 2
    MaxTrouble = 1
SPECIFICATION FairSpec
CHECK_DEADLOCK FALSE
INVARIANTS FramesWhole TornIsLast
PROPERTIES DropEndsStream QueueServed
