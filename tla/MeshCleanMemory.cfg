\* The comment at rdma_buffer.cc:164.
CONSTANTS
    c1 = c1
    c2 = c2
    Channels <- OneChannel
    NUM_BLOCK = 4
    IntRange = 8
SPECIFICATION Spec
INVARIANT OnlyCleanMemory
