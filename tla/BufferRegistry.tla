--------------------------- MODULE BufferRegistry ---------------------------
(***************************************************************************)
(* Who owns what between RDMABuffers, the RDMAChannels they are registered *)
(* in and the memory regions of the device, over the life of both objects  *)
(* (src/src/rdma_buffer.cc, rdma_channel.cc, rdma_device.cc:590-636).      *)
(*                                                                         *)
(* The public methods may be called in any order on live objects.  The     *)
(* repository keeps to a discipline: buffers enter a channel by            *)
(* register_buffer, one channel per buffer at a time, and leave it from    *)
(* there; either object may be destroyed first.  The history variable      *)
(* disciplined says whether all calls so far were of that kind and none of *)
(* them went on from undefined behaviour.  A failed CHECK ends the         *)
(* process; undefined behaviour ends it or goes on, with the outcomes of   *)
(* Undefined.                                                              *)
(***************************************************************************)
EXTENDS Naturals, FiniteSets

CONSTANTS
    Buffers,   \* buffer objects
    Channels,  \* channel objects
    NameOf,    \* NameOf[b]: buffer_name
    MaxMr      \* bound on the memory regions registered in a behaviour

Names == {NameOf[b] : b \in Buffers}

None == "none"      \* the null pointer, or no entry in a map

ASSUME BufferRegistryAssumption ==
    /\ None \notin Buffers \cup Channels
    /\ NameOf \in [Buffers -> Names]
    /\ MaxMr \in Nat \ {0}

Mr == 1..MaxMr      \* memory regions, in order of registration; 0 is null

VARIABLES
    buffer,    \* buffer[b]: "new", "live" or "freed"
    channel,   \* channel[c]: "live" or "freed"
    owner,     \* owned_by_channel of buffer b
    mr,        \* mr_ of buffer b
    block,     \* owned_by_channel and mr_ of the blocks of b, all alike
    owning,    \* owning[c]: owning_buffers of channel c, from names to buffers
    regions,   \* memory regions the device knows
    used,      \* number of memory regions registered so far
    dead,      \* "no", "check" or "crash": how the process has ended
    disciplined  \* history: only calls the repository makes, none gone astray

vars == <<buffer, channel, owner, mr, block, owning, regions, used, dead,
          disciplined>>

TypeOK ==
    /\ buffer \in [Buffers -> {"new", "live", "freed"}]
    /\ channel \in [Channels -> {"live", "freed"}]
    /\ owner \in [Buffers -> Channels \cup {None}]
    /\ mr \in [Buffers -> Mr \cup {0}]
    /\ block \in [Buffers -> [owner : Channels \cup {None}, mr : Mr \cup {0}]]
    /\ owning \in [Channels -> [Names -> Buffers \cup {None}]]
    /\ regions \subseteq Mr
    /\ used \in 0..MaxMr
    /\ dead \in {"no", "check", "crash"}
    /\ disciplined \in BOOLEAN

Init ==
    /\ buffer = [b \in Buffers |-> "new"]
    /\ channel = [c \in Channels |-> "live"]
    /\ owner = [b \in Buffers |-> None]
    /\ mr = [b \in Buffers |-> 0]
    /\ block = [b \in Buffers |-> [owner |-> None, mr |-> 0]]
    /\ owning = [c \in Channels |-> [n \in Names |-> None]]
    /\ regions = {}
    /\ used = 0
    /\ dead = "no"
    /\ disciplined = TRUE

-----------------------------------------------------------------------------
Live(b, c) == dead = "no" /\ buffer[b] = "live" /\ channel[c] = "live"

\* A failed CHECK aborts the process.
Abort ==
    /\ dead' = "check"
    /\ UNCHANGED <<buffer, channel, owner, mr, block, owning, regions, used>>

\* allocate_buffer: the blocks copy the null owner and region of the new buffer.
Allocate(b) ==
    /\ dead = "no" /\ buffer[b] = "new"
    /\ buffer' = [buffer EXCEPT ![b] = "live"]
    /\ UNCHANGED <<channel, owner, mr, block, owning, regions, used, dead>>

\* Mutant: the null region is taken for the new one.
RegisterMemNull ==
    /\ used < MaxMr
    /\ used' = used + 1
    /\ regions' = regions \cup {used}

\* real_register_mem: the device knows a new region, number used'.
RegisterMem ==
    /\ used < MaxMr
    /\ used' = used + 1
    /\ regions' = regions \cup {used'}

\* Mutant: the region is not deregistered.
DeregisterMemNot(ms) == UNCHANGED regions

\* real_deregister_mem of the regions in ms.
DeregisterMem(ms) == regions' = regions \ ms

\* RDMABuffer::register_in_channel: whatever owner and region the buffer had are
\* overwritten.
RegisterInChannel(b, c) ==
    /\ RegisterMem
    /\ owner' = [owner EXCEPT ![b] = c]
    /\ mr' = [mr EXCEPT ![b] = used']
    /\ block' = [block EXCEPT ![b] = [owner |-> c, mr |-> used']]

\* Mutant: the name is not checked.
RegisterBufferUnchecked(b, c) ==
    /\ Live(b, c)
    /\ RegisterInChannel(b, c)
    /\ owning' = [owning EXCEPT ![c][NameOf[b]] = b]
    /\ UNCHANGED <<buffer, channel, dead>>

\* RDMAChannel::register_buffer CHECKs that the name is new in this channel.
RegisterBuffer(b, c) ==
    /\ Live(b, c)
    /\ IF owning[c][NameOf[b]] # None THEN Abort
       ELSE /\ RegisterInChannel(b, c)
            /\ owning' = [owning EXCEPT ![c][NameOf[b]] = b]
            /\ UNCHANGED <<buffer, channel, dead>>

\* The public register_in_channel, called directly: the channel is not told.
RegisterDirectly(b, c) ==
    /\ Live(b, c)
    /\ RegisterInChannel(b, c)
    /\ UNCHANGED <<buffer, channel, owning, dead>>

\* RDMAChannel::remove_buffer erases the entry of that name, whoever it belongs to.
Removed(c, b) == [owning EXCEPT ![c][NameOf[b]] = None]

RemoveBuffer(b, c) ==
    /\ Live(b, c)
    /\ owning' = Removed(c, b)
    /\ UNCHANGED <<buffer, channel, owner, mr, block, regions, used, dead>>

\* Mutant: the pointer to the region is kept.
DeregisterFromChannelKeepsMr(b, c) ==
    /\ Live(b, c)
    /\ IF mr[b] = 0 THEN Abort
       ELSE /\ DeregisterMem({mr[b]})
            /\ owning' = Removed(c, b)
            /\ owner' = [owner EXCEPT ![b] = None]
            /\ UNCHANGED <<buffer, channel, mr, block, used, dead>>

\* deregister_from_channel: CHECK, deregister the region, leave the channel's map.
\* The blocks keep their owner and region.
DeregisterFromChannel(b, c) ==
    /\ Live(b, c)
    /\ IF mr[b] = 0 THEN Abort
       ELSE /\ DeregisterMem({mr[b]})
            /\ owning' = Removed(c, b)
            /\ owner' = [owner EXCEPT ![b] = None]
            /\ mr' = [mr EXCEPT ![b] = 0]
            /\ UNCHANGED <<buffer, channel, block, used, dead>>

\* The buffer's own memory is gone: blocks are cleared.
FreeMemory(b) ==
    /\ buffer' = [buffer EXCEPT ![b] = "freed"]
    /\ block' = [block EXCEPT ![b] = [owner |-> None, mr |-> 0]]
    /\ mr' = [mr EXCEPT ![b] = 0]

\* ~RDMABuffer deregisters from its owner first.  Through the pointer to an owner
\* that is gone this is a use after free; a null region fails the CHECK.
DestroyBuffer(b) ==
    /\ dead = "no" /\ buffer[b] = "live"
    /\ IF owner[b] = None
       THEN FreeMemory(b) /\ UNCHANGED <<channel, owner, owning, regions, used, dead>>
       ELSE IF channel[owner[b]] = "freed"
       THEN /\ dead' = "crash"
            /\ UNCHANGED <<buffer, channel, owner, mr, block, owning, regions, used>>
       ELSE IF mr[b] = 0 THEN Abort
       ELSE /\ DeregisterMem({mr[b]})
            /\ owning' = Removed(owner[b], b)
            /\ owner' = [owner EXCEPT ![b] = None]
            /\ FreeMemory(b)
            /\ UNCHANGED <<channel, used, dead>>

\* The other outcome of the use after free: the memory of the channel still holds
\* its old values, the region is deregistered through it and the buffer goes.
DestroyBufferGoesOn(b) ==
    /\ dead = "no" /\ buffer[b] = "live" /\ mr[b] # 0
    /\ owner[b] # None /\ channel[owner[b]] = "freed"
    /\ DeregisterMem({mr[b]})
    /\ owner' = [owner EXCEPT ![b] = None]
    /\ FreeMemory(b)
    /\ UNCHANGED <<channel, owning, used, dead>>

Owned(c) == {b \in Buffers : \E n \in Names : owning[c][n] = b}

\* The channel goes, having deregistered the buffers in bs.
Release(c, bs) ==
    /\ channel' = [channel EXCEPT ![c] = "freed"]
    /\ DeregisterMem({mr[b] : b \in bs})
    /\ owning' = [owning EXCEPT ![c] = [n \in Names |-> None]]
    /\ owner' = [b \in Buffers |-> IF b \in bs THEN None ELSE owner[b]]
    /\ mr' = [b \in Buffers |-> IF b \in bs THEN 0 ELSE mr[b]]
    /\ UNCHANGED <<buffer, block, used, dead>>

\* ~RDMAChannel deregisters every buffer of its map; a freed buffer in it, or one
\* without region, ends the process.
DestroyChannel(c) ==
    /\ dead = "no" /\ channel[c] = "live"
    /\ IF \E b \in Owned(c) : buffer[b] = "freed"
       THEN /\ dead' = "crash"
            /\ UNCHANGED <<buffer, channel, owner, mr, block, owning, regions, used>>
       ELSE IF \E b \in Owned(c) : mr[b] = 0 THEN Abort
       ELSE Release(c, Owned(c))

\* The loop of ~RDMAChannel goes on from a map entry that remove_buffer has just
\* erased: undefined behaviour.  It may end the process,
DestroyChannelCrashes(c) ==
    /\ dead = "no" /\ channel[c] = "live" /\ Owned(c) # {}
    /\ dead' = "crash"
    /\ UNCHANGED <<buffer, channel, owner, mr, block, owning, regions, used>>

\* or the loop stops early or passes over entries, and the channel goes while the
\* other buffers of its map still point to it.
DestroyChannelPartly(c) ==
    /\ dead = "no" /\ channel[c] = "live"
    /\ \E bs \in SUBSET Owned(c) \ {Owned(c)} :
          /\ \A b \in bs : buffer[b] # "freed" /\ mr[b] # 0
          /\ Release(c, bs)

-----------------------------------------------------------------------------
Destroy ==
    \/ \E b \in Buffers : DestroyBuffer(b)
    \/ \E c \in Channels : DestroyChannel(c) \/ DestroyChannelCrashes(c)

\* The calls the repository makes.
RepositoryCall ==
    \/ Destroy
    \/ \E b \in Buffers : Allocate(b)
    \/ \E b \in Buffers, c \in Channels :
          \/ owner[b] = None /\ RegisterBuffer(b, c)
          \/ owner[b] = c /\ DeregisterFromChannel(b, c)

\* The other calls the public methods allow.
OtherCall ==
    \E b \in Buffers, c \in Channels :
        \/ owner[b] # None /\ RegisterBuffer(b, c)
        \/ owner[b] # c /\ DeregisterFromChannel(b, c)
        \/ RegisterDirectly(b, c)
        \/ RemoveBuffer(b, c)

\* Undefined behaviour that goes on.
Undefined ==
    \/ \E b \in Buffers : DestroyBufferGoesOn(b)
    \/ \E c \in Channels : DestroyChannelPartly(c)

Next ==
    \/ RepositoryCall /\ UNCHANGED disciplined
    \/ OtherCall /\ disciplined' = FALSE
    \/ Undefined /\ disciplined' = FALSE

Spec == Init /\ [][Next]_vars

-----------------------------------------------------------------------------
\* The two sides of an ownership agree after every sequence of calls the
\* repository makes: a buffer points to the channel whose map holds it, neither
\* refers to a destroyed object, and the blocks, which are what is sent from and
\* received into, follow their buffer (rdma_buffer.cc:19-53, rdma_channel.cc:30-67).
OwnershipAgrees ==
    dead = "no" /\ disciplined =>
        /\ \A b \in Buffers, c \in Channels :
              owner[b] = c <=> owning[c][NameOf[b]] = b
        /\ \A b \in Buffers : owner[b] # None =>
              /\ buffer[b] = "live" /\ channel[owner[b]] = "live"
              /\ block[b] = [owner |-> owner[b], mr |-> mr[b]]

\* Neither leak nor dangling region: the device knows exactly the regions of the
\* buffers that have an owner, each of them once.
RegionsMatch ==
    dead = "no" /\ disciplined =>
        /\ regions = {mr[b] : b \in Buffers} \ {0}
        /\ \A b \in Buffers : mr[b] # 0 <=> owner[b] # None
        /\ \A a, b \in Buffers : mr[a] = mr[b] /\ mr[a] # 0 => a = b

\* Whatever public methods are called in whatever order, and whatever the destructor
\* of a channel leaves undone when its loop goes astray, a region is deregistered at
\* most once: the region a buffer holds is one the device still knows.
RegionKnown == \A b \in Buffers : mr[b] # 0 => mr[b] \in regions
=============================================================================
