CONSTANTS
    org = org
    s1 = s1
    s2 = s2
    q1 = q1
    q2 = q2
    Subs <- MCSubs
    Channels = {org}
    ChannelOf <- MCChannelOf
    Publishers <- MCPublishers
    Capacity = 1
    MaxSignals <- MCMaxSignals
SPECIFICATION FairSpec
INVARIANTS SendsToOpenChannels PanicNeedsClose InPublishedOrder
PROPERTIES CancelReleases
CHECK_DEADLOCK FALSE
