\* One peer, whose datagrams may each start a connection; they need two reads
\* each, or the first is empty.
SPECIFICATION FairSpec
CONSTANTS
    Peers = {p1}
    NoPeer = NoPeer
    Backlog = 1
    QueueSize = 1
    Lens <- LongOrEmpty
    Bufs = {2}
    MaxDatagrams = 2
    Stops = TRUE
INVARIANTS ConnectionsSound
PROPERTIES NothingTruncated ShutdownReleasesAll
CHECK_DEADLOCK FALSE
