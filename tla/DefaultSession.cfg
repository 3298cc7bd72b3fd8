CONSTANT PostedRecvs = 2
SPECIFICATION FairSpec
INVARIANTS TypeOK DescriptorIntact PeerBufferKnown ReadBackIntact ReceivesConserved FirstSendMeetsReceive OutstandingBounded
PROPERTIES ImplementsStore StoresForever GreetingsForever
