\* Two clients; rings of four blocks whose counters wrap after two rounds.
CONSTANTS
    c1 = c1
    c2 = c2
    Channels <- TwoChannels
    NUM_BLOCK = 4
    IntRange = 8
SPECIFICATION FairSpec
INVARIANTS TypeOK SendQueueFits RingsFollowQueues DescriptorRead SendFindsReceive
PROPERTY WritesForever
