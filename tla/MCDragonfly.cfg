SPECIFICATION FairSpec
CONSTANTS
    P = 2
    A = 2
    H = 2
    LocalChannels = 8
    GlobalChannels = 4
    Packets = {1, 2}
    Traffic <- TwoPackets
INVARIANTS TypeOK CreditsReachSender
PROPERTIES ChannelsIncrease Delivered
CHECK_DEADLOCK FALSE
