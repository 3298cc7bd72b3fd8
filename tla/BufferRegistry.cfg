\* Every sequence of public calls.
CONSTANTS
    b1 = b1  b2 = b2  b3 = b3  n1 = n1  n2 = n2
    Buffers = {b1, b2, b3}
    Channels = {ch1, ch2}
    NameOf <- ThreeNames
    MaxMr = 4
SPECIFICATION Spec
SYMMETRY ChannelSymmetry
INVARIANTS TypeOK OwnershipAgrees RegionsMatch RegionKnown
\* The calls come to an end.
CHECK_DEADLOCK FALSE
