------------------------ MODULE BufferRegistryProofs ------------------------
(***************************************************************************)
(* Proofs about BufferRegistry, for any sets of buffers and channels, any  *)
(* names and any number of memory regions.                                 *)
(*                                                                         *)
(* Whatever is called, the region of a buffer is its own and the device    *)
(* knows it (MrInv), and an entry of a channel's map stands under the name *)
(* of its buffer (NamesInv).  With these two, ownership and regions stay   *)
(* consistent under the calls the repository makes.                        *)
(***************************************************************************)
EXTENDS BufferRegistry, TLAPS

\* Regions are handed out once, and a buffer's is known until it gives it up.
MrInv ==
    /\ \A b \in Buffers : mr[b] <= used /\ (mr[b] # 0 => mr[b] \in regions)
    /\ \A a, b \in Buffers : mr[a] = mr[b] /\ mr[a] # 0 => a = b

\* A buffer is stored under its own name.
NamesInv ==
    \A c \in Channels, n \in Names : owning[c][n] # None => NameOf[owning[c][n]] = n

IndInv == TypeOK /\ MrInv /\ NamesInv /\ OwnershipAgrees /\ RegionsMatch

-----------------------------------------------------------------------------
(* What a call does when it does not end the process *)

\* The process ends.
Dies ==
    /\ dead' \in {"check", "crash"}
    /\ UNCHANGED <<buffer, channel, owner, mr, block, owning, regions, used>>

\* register_buffer, under a name that is new in the channel.
Registered(b, c) ==
    /\ Live(b, c) /\ owning[c][NameOf[b]] = None
    /\ RegisterInChannel(b, c)
    /\ owning' = [owning EXCEPT ![c][NameOf[b]] = b]
    /\ UNCHANGED <<buffer, channel, dead>>

\* deregister_from_channel of a buffer with a region.
Deregistered(b, c) ==
    /\ Live(b, c) /\ mr[b] # 0
    /\ regions' = regions \ {mr[b]}
    /\ owning' = [owning EXCEPT ![c][NameOf[b]] = None]
    /\ owner' = [owner EXCEPT ![b] = None]
    /\ mr' = [mr EXCEPT ![b] = 0]
    /\ UNCHANGED <<buffer, channel, block, used, dead>>

\* ~RDMABuffer of a buffer without owner, and of one with a live owner.
FreedAlone(b) ==
    /\ dead = "no" /\ buffer[b] = "live" /\ owner[b] = None
    /\ FreeMemory(b)
    /\ UNCHANGED <<channel, owner, owning, regions, used, dead>>

FreedOwned(b) ==
    /\ dead = "no" /\ buffer[b] = "live" /\ owner[b] # None
    /\ channel[owner[b]] # "freed" /\ mr[b] # 0
    /\ regions' = regions \ {mr[b]}
    /\ owning' = [owning EXCEPT ![owner[b]][NameOf[b]] = None]
    /\ owner' = [owner EXCEPT ![b] = None]
    /\ FreeMemory(b)
    /\ UNCHANGED <<channel, used, dead>>

\* ~RDMABuffer that survives the use of a freed owner.
FreedOrphan(b) ==
    /\ DestroyBufferGoesOn(b)
    /\ ~disciplined'

\* ~RDMAChannel that survives its loop over the buffers in bs, all of the map's
\* when the loop does not go astray.
Closed(c, bs) ==
    /\ dead = "no" /\ channel[c] = "live"
    /\ bs \subseteq Owned(c)
    /\ disciplined' => bs = Owned(c)
    /\ channel' = [channel EXCEPT ![c] = "freed"]
    /\ regions' = regions \ {mr[b] : b \in bs}
    /\ owning' = [owning EXCEPT ![c] = [n \in Names |-> None]]
    /\ owner' = [b \in Buffers |-> IF b \in bs THEN None ELSE owner[b]]
    /\ mr' = [b \in Buffers |-> IF b \in bs THEN 0 ELSE mr[b]]
    /\ UNCHANGED <<buffer, block, used, dead>>

\* A call on a buffer and a channel, and what it takes to be disciplined.
PairCall(b, c) ==
    \/ Registered(b, c) /\ (disciplined' => owner[b] = None)
    \/ Deregistered(b, c) /\ (disciplined' => owner[b] = c)
    \/ RegisterDirectly(b, c) /\ ~disciplined'
    \/ RemoveBuffer(b, c) /\ ~disciplined'

\* Every step is one of these.
LEMMA CallCases ==
    ASSUME TypeOK, Next
    PROVE  /\ disciplined' \in BOOLEAN /\ (disciplined' => disciplined)
           /\ \/ Dies
              \/ \E b \in Buffers : Allocate(b) \/ FreedAlone(b) \/ FreedOwned(b)
              \/ \E b \in Buffers : FreedOrphan(b)
              \/ \E c \in Channels : \E bs : Closed(c, bs)
              \/ \E b \in Buffers, c \in Channels : PairCall(b, c)
  <1>1. disciplined' \in BOOLEAN /\ (disciplined' => disciplined)
    <2>1. CASE UNCHANGED disciplined
      BY <2>1, Zenon DEF TypeOK
    <2>2. CASE disciplined' = FALSE
      BY <2>2, Zenon
    <2>3. QED
      BY <2>1, <2>2, Zenon DEF Next
  <1>2. ASSUME NEW b \in Buffers, NEW c \in Channels, RegisterBuffer(b, c)
        PROVE  Dies \/ Registered(b, c)
    BY <1>2 DEF RegisterBuffer, Abort, Dies, Registered
  <1>3. ASSUME NEW b \in Buffers, NEW c \in Channels, DeregisterFromChannel(b, c)
        PROVE  Dies \/ Deregistered(b, c)
    BY <1>3 DEF DeregisterFromChannel, Abort, Dies, Deregistered, DeregisterMem, Removed
  <1>4. ASSUME NEW b \in Buffers, DestroyBuffer(b)
        PROVE  Dies \/ FreedAlone(b) \/ FreedOwned(b)
    <2>1. CASE owner[b] = None
      BY <1>4, <2>1 DEF DestroyBuffer, FreedAlone
    <2>2. CASE owner[b] # None /\ (channel[owner[b]] = "freed" \/ mr[b] = 0)
      BY <1>4, <2>2 DEF DestroyBuffer, Abort, Dies
    <2>3. CASE owner[b] # None /\ channel[owner[b]] # "freed" /\ mr[b] # 0
      BY <1>4, <2>3 DEF DestroyBuffer, FreedOwned, DeregisterMem, Removed
    <2>4. QED
      BY <2>1, <2>2, <2>3
  <1>5. ASSUME NEW c \in Channels, DestroyChannel(c) PROVE Dies \/ Closed(c, Owned(c))
    <2>1. CASE \E b \in Owned(c) : buffer[b] = "freed" \/ mr[b] = 0
      BY <1>5, <2>1 DEF DestroyChannel, Abort, Dies
    <2>2. CASE \A b \in Owned(c) : buffer[b] # "freed" /\ mr[b] # 0
      BY <1>5, <2>2 DEF DestroyChannel, Release, Closed, DeregisterMem
    <2>3. QED
      BY <2>1, <2>2
  <1>6. ASSUME NEW c \in Channels, DestroyChannelCrashes(c) PROVE Dies
    BY <1>6 DEF DestroyChannelCrashes, Dies
  <1>7. CASE RepositoryCall
    <2>1. CASE Destroy
      BY <2>1, <1>1, <1>4, <1>5, <1>6 DEF Destroy
    <2>2. CASE \E b \in Buffers : Allocate(b)
      BY <2>2, <1>1
    <2>3. CASE \E b \in Buffers, c \in Channels :
                  \/ owner[b] = None /\ RegisterBuffer(b, c)
                  \/ owner[b] = c /\ DeregisterFromChannel(b, c)
      BY <2>3, <1>1, <1>2, <1>3 DEF PairCall
    <2>4. QED
      BY <1>7, <2>1, <2>2, <2>3 DEF RepositoryCall
  <1>8. CASE OtherCall /\ disciplined' = FALSE
    BY <1>8, <1>1, <1>2, <1>3 DEF OtherCall, PairCall
  <1>9. CASE Undefined /\ disciplined' = FALSE
    <2>1. ASSUME NEW b \in Buffers, DestroyBufferGoesOn(b) PROVE FreedOrphan(b)
      BY <1>9, <2>1 DEF FreedOrphan
    <2>2. ASSUME NEW c \in Channels, DestroyChannelPartly(c)
          PROVE  \E bs : Closed(c, bs)
      <3>1. PICK bs \in SUBSET Owned(c) : Release(c, bs)
        BY <2>2 DEF DestroyChannelPartly
      <3>2. Closed(c, bs)
        BY <1>9, <2>2, <3>1 DEF DestroyChannelPartly, Release, Closed, DeregisterMem
      <3>3. QED
        BY <3>2
    <2>3. QED
      BY <1>1, <1>9, <2>1, <2>2 DEF Undefined
  <1>10. QED
    BY <1>7, <1>8, <1>9 DEF Next

-----------------------------------------------------------------------------
(* Types *)

\* Buffers have names.
LEMMA NameType == ASSUME NEW b \in Buffers PROVE NameOf[b] \in Names
  BY DEF Names

\* A new region has the next number.
LEMMA NewRegion ==
    ASSUME TypeOK, RegisterMem
    PROVE  /\ used' = used + 1 /\ used' \in Mr /\ used' \in 0..MaxMr /\ used' # 0
           /\ regions' = regions \cup {used'}
  BY BufferRegistryAssumption DEF RegisterMem, TypeOK, Mr

\* Every step preserves the types.
LEMMA TypeStep ==
    ASSUME TypeOK, Next
    PROVE  TypeOK'
  <1> USE NameType
  <1>1. disciplined' \in BOOLEAN
    BY CallCases
  <1>2. CASE Dies
    BY <1>1, <1>2 DEF Dies, TypeOK
  <1>3. ASSUME NEW b \in Buffers, Allocate(b) PROVE TypeOK'
    BY <1>1, <1>3 DEF Allocate, TypeOK
  <1>4. ASSUME NEW b \in Buffers, FreedAlone(b) PROVE TypeOK'
    BY <1>1, <1>4 DEF FreedAlone, FreeMemory, TypeOK
  <1>5. ASSUME NEW b \in Buffers, FreedOwned(b) PROVE TypeOK'
    <2>1. owner[b] \in Channels
      BY <1>5 DEF FreedOwned, TypeOK
    <2>2. owning' \in [Channels -> [Names -> Buffers \cup {None}]]
      BY <1>5, <2>1 DEF FreedOwned, TypeOK
    <2>3. QED
      BY <1>1, <1>5, <2>2 DEF FreedOwned, FreeMemory, TypeOK
  <1>6. ASSUME NEW c \in Channels, NEW bs, Closed(c, bs) PROVE TypeOK'
    BY <1>1, <1>6 DEF Closed, TypeOK
  <1>7. ASSUME NEW b \in Buffers, NEW c \in Channels, PairCall(b, c) PROVE TypeOK'
    <2>1. CASE Registered(b, c)
      <3>1. owning' \in [Channels -> [Names -> Buffers \cup {None}]]
        BY <2>1 DEF Registered, TypeOK
      <3>2. RegisterMem
        BY <2>1 DEF Registered, RegisterInChannel
      <3>3. QED
        BY <1>1, <2>1, <3>1, <3>2, NewRegion DEF Registered, RegisterInChannel, TypeOK
    <2>2. CASE Deregistered(b, c)
      <3>1. owning' \in [Channels -> [Names -> Buffers \cup {None}]]
        BY <2>2 DEF Deregistered, TypeOK
      <3>2. QED
        BY <1>1, <2>2, <3>1 DEF Deregistered, TypeOK
    <2>3. CASE RegisterDirectly(b, c)
      <3>1. RegisterMem
        BY <2>3 DEF RegisterDirectly, RegisterInChannel
      <3>2. QED
        BY <1>1, <2>3, <3>1, NewRegion DEF RegisterDirectly, RegisterInChannel, TypeOK
    <2>4. CASE RemoveBuffer(b, c)
      BY <1>1, <2>4 DEF RemoveBuffer, Removed, TypeOK
    <2>5. QED
      BY <1>7, <2>1, <2>2, <2>3, <2>4 DEF PairCall
  <1>8. ASSUME NEW b \in Buffers, FreedOrphan(b) PROVE TypeOK'
    BY <1>1, <1>8 DEF FreedOrphan, DestroyBufferGoesOn, DeregisterMem, FreeMemory, TypeOK
  <1>9. QED
    BY <1>2, <1>3, <1>4, <1>5, <1>6, <1>7, <1>8, CallCases

-----------------------------------------------------------------------------
(* Regions and names, whatever is called *)

\* Every step preserves MrInv: a new region has a number no buffer holds, and a
\* region goes only together with the pointer to it.
LEMMA MrStep ==
    ASSUME TypeOK, MrInv, Next
    PROVE  MrInv'
  <1>1. CASE Dies
    BY <1>1 DEF Dies, MrInv
  <1>2. ASSUME NEW b \in Buffers, Allocate(b) PROVE MrInv'
    BY <1>2 DEF Allocate, MrInv
  <1>3. ASSUME NEW b \in Buffers, FreedAlone(b) PROVE MrInv'
    BY <1>3 DEF FreedAlone, FreeMemory, MrInv, TypeOK
  <1>4. ASSUME NEW b \in Buffers, FreedOwned(b) PROVE MrInv'
    BY <1>4 DEF FreedOwned, FreeMemory, MrInv, TypeOK
  <1>5. ASSUME NEW c \in Channels, NEW bs, Closed(c, bs) PROVE MrInv'
    <2>1. \A x \in Buffers : mr'[x] = IF x \in bs THEN 0 ELSE mr[x]
      BY <1>5 DEF Closed
    <2>2. bs \subseteq Buffers
      BY <1>5 DEF Closed, Owned
    <2>3. \A x \in Buffers : mr'[x] # 0 => mr[x] \notin {mr[y] : y \in bs}
      BY <2>1, <2>2 DEF MrInv
    <2>4. QED
      BY <1>5, <2>1, <2>3 DEF Closed, MrInv, TypeOK
  <1>6. ASSUME NEW b \in Buffers, NEW c \in Channels, PairCall(b, c) PROVE MrInv'
    <2>1. CASE RegisterInChannel(b, c)
      <3>1. used' = used + 1 /\ used' # 0 /\ regions' = regions \cup {used'}
        BY <2>1, NewRegion DEF RegisterInChannel
      <3>2. \A x \in Buffers : mr'[x] = IF x = b THEN used' ELSE mr[x]
        BY <2>1 DEF RegisterInChannel, TypeOK
      <3>3. \A x \in Buffers : mr[x] <= used /\ mr[x] \in Nat /\ used \in Nat
        BY BufferRegistryAssumption DEF MrInv, TypeOK, Mr
      <3>4. QED
        BY <3>1, <3>2, <3>3 DEF MrInv
    <2>2. CASE Deregistered(b, c)
      BY <2>2 DEF Deregistered, MrInv, TypeOK
    <2>3. CASE RemoveBuffer(b, c)
      BY <2>3 DEF RemoveBuffer, MrInv
    <2>4. QED
      BY <1>6, <2>1, <2>2, <2>3 DEF PairCall, Registered, RegisterDirectly
  <1>7. ASSUME NEW b \in Buffers, FreedOrphan(b) PROVE MrInv'
    BY <1>7 DEF FreedOrphan, DestroyBufferGoesOn, DeregisterMem, FreeMemory, MrInv, TypeOK
  <1>8. QED
    BY <1>1, <1>2, <1>3, <1>4, <1>5, <1>6, <1>7, CallCases

\* How an entry of the map of a channel changes: all but RDMAChannel::register_buffer
\* only erase.
LEMMA NamesStep ==
    ASSUME TypeOK, NamesInv, Next
    PROVE  NamesInv'
  <1> USE NameType
  <1>1. CASE UNCHANGED owning
    BY <1>1 DEF NamesInv
  <1>2. ASSUME NEW b \in Buffers, FreedOwned(b) PROVE NamesInv'
    <2>1. owner[b] \in Channels
      BY <1>2 DEF FreedOwned, TypeOK
    <2>2. QED
      BY <1>2, <2>1 DEF FreedOwned, NamesInv, TypeOK
  <1>3. ASSUME NEW c \in Channels, NEW bs, Closed(c, bs) PROVE NamesInv'
    BY <1>3 DEF Closed, NamesInv, TypeOK
  <1>4. ASSUME NEW b \in Buffers, NEW c \in Channels, PairCall(b, c) PROVE NamesInv'
    <2>1. CASE Registered(b, c)
      BY <2>1 DEF Registered, NamesInv, TypeOK
    <2>2. CASE Deregistered(b, c)
      BY <2>2 DEF Deregistered, NamesInv, TypeOK
    <2>3. CASE RemoveBuffer(b, c)
      BY <2>3 DEF RemoveBuffer, Removed, NamesInv, TypeOK
    <2>4. QED
      BY <1>4, <1>1, <2>1, <2>2, <2>3 DEF PairCall, RegisterDirectly
  <1>5. QED
    BY <1>1, <1>2, <1>3, <1>4, CallCases
       DEF Dies, Allocate, FreedAlone, FreedOrphan, DestroyBufferGoesOn

-----------------------------------------------------------------------------
(* Ownership and regions, under the calls the repository makes *)

\* A channel's map holds exactly the buffers that point to the channel.
LEMMA OwnedByOwner ==
    ASSUME NamesInv, OwnershipAgrees, dead = "no", disciplined,
           NEW c \in Channels, NEW b \in Buffers
    PROVE  b \in Owned(c) <=> owner[b] = c
  BY NameType, BufferRegistryAssumption DEF Owned, NamesInv, OwnershipAgrees

\* Every step preserves OwnershipAgrees.
LEMMA OwnershipStep ==
    ASSUME TypeOK, NamesInv, OwnershipAgrees, Next
    PROVE  OwnershipAgrees'
  <1> USE NameType, BufferRegistryAssumption
  <1>1. CASE dead' # "no" \/ ~disciplined'
    BY <1>1 DEF OwnershipAgrees
  <1>2. CASE dead' = "no" /\ disciplined'
    <2>1. disciplined
      BY <1>2, CallCases
    <2>2. CASE Dies
      BY <1>2, <2>2 DEF Dies
    <2>3. ASSUME NEW b \in Buffers, Allocate(b) PROVE OwnershipAgrees'
      BY <2>1, <2>3 DEF Allocate, OwnershipAgrees, TypeOK
    <2>4. ASSUME NEW b \in Buffers, FreedAlone(b) PROVE OwnershipAgrees'
      BY <2>1, <2>4 DEF FreedAlone, FreeMemory, OwnershipAgrees, TypeOK
    <2>5. ASSUME NEW b \in Buffers, FreedOwned(b) PROVE OwnershipAgrees'
      <3>1. owner[b] \in Channels
        BY <2>5 DEF FreedOwned, TypeOK
      <3>2. \A x \in Buffers : owner'[x] = IF x = b THEN None ELSE owner[x]
        BY <2>5 DEF FreedOwned, TypeOK
      <3>3. \A c \in Channels, n \in Names : owning'[c][n] =
                IF c = owner[b] /\ n = NameOf[b] THEN None ELSE owning[c][n]
        BY <2>5, <3>1 DEF FreedOwned, TypeOK
      <3>4. owning[owner[b]][NameOf[b]] = b
        BY <2>1, <2>5, <3>1 DEF OwnershipAgrees, FreedOwned
      <3>5. \A x \in Buffers, c \in Channels :
                owner'[x] = c <=> owning'[c][NameOf[x]] = x
        BY <2>1, <2>5, <3>1, <3>2, <3>3, <3>4 DEF OwnershipAgrees, FreedOwned
      <3>6. \A x \in Buffers : owner'[x] # None =>
                x # b /\ buffer'[x] = buffer[x] /\ block'[x] = block[x] /\ mr'[x] = mr[x]
        BY <2>5, <3>2 DEF FreedOwned, FreeMemory, TypeOK
      <3>7. channel' = channel /\ dead = "no"
        BY <2>5 DEF FreedOwned
      <3>8. QED
        BY <2>1, <3>2, <3>5, <3>6, <3>7 DEF OwnershipAgrees
    <2>6. ASSUME NEW c \in Channels, NEW bs, Closed(c, bs) PROVE OwnershipAgrees'
      <3> bs = Owned(c)
        BY <1>2, <2>6 DEF Closed
      <3>1. dead = "no" /\ UNCHANGED <<buffer, block>>
        BY <2>6 DEF Closed
      <3>2. \A x \in Buffers : /\ owner'[x] = IF owner[x] = c THEN None ELSE owner[x]
                               /\ mr'[x] = IF owner[x] = c THEN 0 ELSE mr[x]
        BY <2>1, <2>6, <3>1, OwnedByOwner DEF Closed
      <3>3. \A d \in Channels, n \in Names :
                owning'[d][n] = IF d = c THEN None ELSE owning[d][n]
        BY <2>6 DEF Closed, TypeOK
      <3>4. \A d \in Channels : d # c => channel'[d] = channel[d]
        BY <2>6 DEF Closed, TypeOK
      <3>5. \A x \in Buffers, d \in Channels :
                owner'[x] = d <=> owning'[d][NameOf[x]] = x
        BY <2>1, <3>1, <3>2, <3>3 DEF OwnershipAgrees
      <3>6. \A x \in Buffers : owner'[x] # None =>
                owner'[x] = owner[x] /\ mr'[x] = mr[x] /\ channel'[owner[x]] = channel[owner[x]]
        BY <3>2, <3>4 DEF TypeOK
      <3>7. QED
        BY <2>1, <3>1, <3>5, <3>6 DEF OwnershipAgrees
    <2>7. ASSUME NEW b \in Buffers, NEW c \in Channels, PairCall(b, c)
          PROVE  OwnershipAgrees'
      <3>1. CASE Registered(b, c) /\ owner[b] = None
        <4>1. RegisterInChannel(b, c) /\ owning[c][NameOf[b]] = None /\ Live(b, c)
          BY <3>1 DEF Registered
        <4>2. \A x \in Buffers : /\ owner'[x] = IF x = b THEN c ELSE owner[x]
                                 /\ mr'[x] = IF x = b THEN used' ELSE mr[x]
                                 /\ block'[x] = IF x = b THEN [owner |-> c, mr |-> used']
                                                ELSE block[x]
          BY <4>1 DEF RegisterInChannel, TypeOK
        <4>3. \A d \in Channels, n \in Names : owning'[d][n] =
                  IF d = c /\ n = NameOf[b] THEN b ELSE owning[d][n]
          BY <3>1 DEF Registered, TypeOK
        <4>4. \A x \in Buffers, d \in Channels :
                  owner'[x] = d <=> owning'[d][NameOf[x]] = x
          BY <2>1, <3>1, <4>1, <4>2, <4>3 DEF OwnershipAgrees, Live
        <4>5. UNCHANGED <<buffer, channel>> /\ dead = "no"
          BY <3>1 DEF Registered, Live
        <4>6. QED
          BY <2>1, <4>1, <4>2, <4>4, <4>5 DEF OwnershipAgrees, Live
      <3>2. CASE Deregistered(b, c) /\ owner[b] = c
        <4>1. \A x \in Buffers : /\ owner'[x] = IF x = b THEN None ELSE owner[x]
                                 /\ mr'[x] = IF x = b THEN 0 ELSE mr[x]
          BY <3>2 DEF Deregistered, TypeOK
        <4>2. \A d \in Channels, n \in Names : owning'[d][n] =
                  IF d = c /\ n = NameOf[b] THEN None ELSE owning[d][n]
          BY <3>2 DEF Deregistered, TypeOK
        <4>3. UNCHANGED <<buffer, channel, block>> /\ dead = "no"
          BY <3>2 DEF Deregistered, Live
        <4>4. \A x \in Buffers, d \in Channels :
                  owner'[x] = d <=> owning'[d][NameOf[x]] = x
          BY <2>1, <3>2, <4>1, <4>2, <4>3 DEF OwnershipAgrees
        <4>5. QED
          BY <2>1, <4>1, <4>3, <4>4 DEF OwnershipAgrees
      <3>3. QED
        BY <1>2, <2>7, <3>1, <3>2 DEF PairCall
    <2>8. QED
      BY <1>2, <2>2, <2>3, <2>4, <2>5, <2>6, <2>7, CallCases DEF FreedOrphan
  <1>3. QED
    BY <1>1, <1>2

\* Every step preserves RegionsMatch.
LEMMA RegionsStep ==
    ASSUME TypeOK, MrInv, MrInv', NamesInv, OwnershipAgrees, RegionsMatch, Next
    PROVE  RegionsMatch'
  <1> USE NameType, BufferRegistryAssumption
  <1>1. CASE dead' # "no" \/ ~disciplined'
    BY <1>1 DEF RegionsMatch
  <1>2. CASE dead' = "no" /\ disciplined'
    <2>1. disciplined
      BY <1>2, CallCases
    <2>2. ASSUME \A m : m \in regions' <=> m \in {mr'[x] : x \in Buffers} \ {0},
                 \A b \in Buffers : mr'[b] # 0 <=> owner'[b] # None
          PROVE  RegionsMatch'
      <3>1. regions' = {mr'[x] : x \in Buffers} \ {0}
        BY <2>2, Zenon
      <3>2. QED
        BY <2>2, <3>1 DEF RegionsMatch, MrInv
    <2>3. CASE Dies
      BY <1>2, <2>3 DEF Dies
    <2>4. ASSUME NEW b \in Buffers, Allocate(b) PROVE RegionsMatch'
      BY <2>1, <2>4 DEF Allocate, RegionsMatch
    <2>5. ASSUME NEW b \in Buffers, FreedAlone(b) PROVE RegionsMatch'
      <3>1. mr[b] = 0 /\ dead = "no"
        BY <2>1, <2>5 DEF FreedAlone, RegionsMatch
      <3>2. mr' = mr
        BY <2>5, <3>1 DEF FreedAlone, FreeMemory, TypeOK
      <3>3. QED
        BY <2>1, <2>5, <3>1, <3>2 DEF FreedAlone, RegionsMatch
    <2>6. ASSUME NEW b \in Buffers, FreedOwned(b) PROVE RegionsMatch'
      <3>1. \A x \in Buffers : /\ owner'[x] = IF x = b THEN None ELSE owner[x]
                               /\ mr'[x] = IF x = b THEN 0 ELSE mr[x]
        BY <2>6 DEF FreedOwned, FreeMemory, TypeOK
      <3>2. regions' = regions \ {mr[b]} /\ dead = "no"
        BY <2>6 DEF FreedOwned
      <3>3. \A m : m \in regions' <=> m \in {mr'[x] : x \in Buffers} \ {0}
        BY <2>1, <2>6, <3>1, <3>2 DEF RegionsMatch
      <3>4. \A x \in Buffers : mr'[x] # 0 <=> owner'[x] # None
        BY <2>1, <3>1, <3>2 DEF RegionsMatch
      <3>5. QED
        BY <2>2, <3>3, <3>4
    <2>7. ASSUME NEW c \in Channels, NEW bs, Closed(c, bs) PROVE RegionsMatch'
      <3> bs = Owned(c)
        BY <1>2, <2>7 DEF Closed
      <3>1. dead = "no"
        BY <2>7 DEF Closed
      <3>2. \A x \in Buffers : /\ owner'[x] = IF owner[x] = c THEN None ELSE owner[x]
                               /\ mr'[x] = IF owner[x] = c THEN 0 ELSE mr[x]
        BY <2>1, <2>7, <3>1, OwnedByOwner DEF Closed
      <3>3. regions' = regions \ {mr[x] : x \in {y \in Buffers : owner[y] = c}}
        <4>1. Owned(c) = {y \in Buffers : owner[y] = c}
          BY <2>1, <3>1, OwnedByOwner DEF Owned
        <4>2. QED
          BY <2>7, <4>1 DEF Closed
      <3>4. \A m : m \in regions' <=> m \in {mr'[x] : x \in Buffers} \ {0}
        BY <2>1, <3>1, <3>2, <3>3 DEF RegionsMatch
      <3>5. \A x \in Buffers : mr'[x] # 0 <=> owner'[x] # None
        BY <2>1, <3>1, <3>2 DEF RegionsMatch
      <3>6. QED
        BY <2>2, <3>4, <3>5
    <2>8. ASSUME NEW b \in Buffers, NEW c \in Channels, PairCall(b, c)
          PROVE  RegionsMatch'
      <3>1. CASE Registered(b, c) /\ owner[b] = None
        <4>1. RegisterInChannel(b, c) /\ dead = "no"
          BY <3>1 DEF Registered, Live
        <4>2. \A x \in Buffers : /\ owner'[x] = IF x = b THEN c ELSE owner[x]
                                 /\ mr'[x] = IF x = b THEN used' ELSE mr[x]
          BY <4>1 DEF RegisterInChannel, TypeOK
        <4>3. used' # 0 /\ regions' = regions \cup {used'}
          BY <4>1, NewRegion DEF RegisterInChannel
        <4>4. mr[b] = 0
          BY <2>1, <3>1, <4>1 DEF RegionsMatch
        <4>5. \A m : m \in regions' <=> m \in {mr'[x] : x \in Buffers} \ {0}
          BY <2>1, <4>1, <4>2, <4>3, <4>4 DEF RegionsMatch
        <4>6. \A x \in Buffers : mr'[x] # 0 <=> owner'[x] # None
          BY <2>1, <4>1, <4>2, <4>3 DEF RegionsMatch
        <4>7. QED
          BY <2>2, <4>5, <4>6
      <3>2. CASE Deregistered(b, c) /\ owner[b] = c
        <4>1. \A x \in Buffers : /\ owner'[x] = IF x = b THEN None ELSE owner[x]
                                 /\ mr'[x] = IF x = b THEN 0 ELSE mr[x]
          BY <3>2 DEF Deregistered, TypeOK
        <4>2. regions' = regions \ {mr[b]} /\ dead = "no"
          BY <3>2 DEF Deregistered, Live
        <4>3. \A m : m \in regions' <=> m \in {mr'[x] : x \in Buffers} \ {0}
          BY <2>1, <4>1, <4>2 DEF RegionsMatch
        <4>4. \A x \in Buffers : mr'[x] # 0 <=> owner'[x] # None
          BY <2>1, <4>1, <4>2 DEF RegionsMatch
        <4>5. QED
          BY <2>2, <4>3, <4>4
      <3>3. QED
        BY <1>2, <2>8, <3>1, <3>2 DEF PairCall
    <2>9. QED
      BY <1>2, <2>3, <2>4, <2>5, <2>6, <2>7, <2>8, CallCases DEF FreedOrphan
  <1>3. QED
    BY <1>1, <1>2

-----------------------------------------------------------------------------
(* The theorems *)

\* The fresh process satisfies the invariant.
LEMMA InitInv == ASSUME Init PROVE IndInv
  BY BufferRegistryAssumption
     DEF Init, IndInv, TypeOK, MrInv, NamesInv, OwnershipAgrees, RegionsMatch, Mr, Names

\* Every step, and stuttering, preserves it.
LEMMA StepInv == ASSUME IndInv, [Next]_vars PROVE IndInv'
  <1>1. CASE Next
    BY <1>1, TypeStep, MrStep, NamesStep, OwnershipStep, RegionsStep DEF IndInv
  <1>2. CASE UNCHANGED vars
    BY <1>2 DEF vars, IndInv, TypeOK, MrInv, NamesInv, OwnershipAgrees, RegionsMatch
  <1>3. QED
    BY <1>1, <1>2

\* The inductive invariant holds throughout.
THEOREM BuffersInductive == Spec => []IndInv
  BY InitInv, StepInv, PTL DEF Spec

\* Buffers, channels, their maps and the regions keep their types under any sequence
\* of calls of the public methods (rdma_buffer.cc, rdma_channel.cc).
THEOREM BuffersTypeCorrect == Spec => []TypeOK
  <1>1. IndInv => TypeOK
    BY DEF IndInv
  <1>2. QED
    BY BuffersInductive, <1>1, PTL

\* Under any sequence of calls no region is deregistered twice, by
\* deregister_from_channel, ~RDMABuffer or ~RDMAChannel (rdma_device.cc:617-636).
THEOREM RegionsKnown == Spec => []RegionKnown
  <1>1. IndInv => RegionKnown
    BY DEF IndInv, MrInv, RegionKnown
  <1>2. QED
    BY BuffersInductive, <1>1, PTL

\* Under the calls the repository makes, destroying either object first, a buffer
\* and its channel agree on who owns whom and point to no destroyed object.
THEOREM OwnershipSafe == Spec => []OwnershipAgrees
  <1>1. IndInv => OwnershipAgrees
    BY DEF IndInv
  <1>2. QED
    BY BuffersInductive, <1>1, PTL

\* Under the calls the repository makes the device neither leaks a region nor loses
\* one that a buffer still refers to.
THEOREM RegionsSafe == Spec => []RegionsMatch
  <1>1. IndInv => RegionsMatch
    BY DEF IndInv
  <1>2. QED
    BY BuffersInductive, <1>1, PTL
=============================================================================
