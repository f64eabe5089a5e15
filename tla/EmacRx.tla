------------------------------- MODULE EmacRx -------------------------------
(***************************************************************************)
(* Reception in the Ethernet driver, lpc17xx_40xx_emac.c of                *)
(* WEB_UDP_bare_server (NO_SYS = 1): the EMAC's DMA engine stores frames   *)
(* into the pbufs of a ring of descriptors; lpc_enetif_input(), called in  *)
(* every turn of the main loop, takes one pbuf out, puts a new one in, and *)
(* gives the frame to lwIP.                                                *)
(*                                                                         *)
(* The driver and the DMA engine run concurrently. They share the ring     *)
(* through PRODUCEINDEX, which only the DMA engine moves, and              *)
(* CONSUMEINDEX, which only the driver moves. pbufs come from the heap,    *)
(* which lwIP and the other users share: an allocation may always fail.    *)
(***************************************************************************)
EXTENDS Integers

CONSTANTS
    N,         \* LPC_NUM_BUFF_RXDESCS
    Pbufs,     \* the pbufs the heap has room for
    NULL,      \* no pbuf
    MaxFlen,   \* ENET_ETH_MAX_FLEN
    Fcs,       \* length of the frame check sequence
    SizeMod,   \* 2 to the width of the size field of a descriptor
    LenMod,    \* 2 to the width of pbuf.len
    Lens,      \* lengths of the frames that arrive
    MaxFills   \* bound: descriptors the DMA engine fills

ASSUME RxAssumption ==
    /\ N \in Nat /\ N >= 2
    /\ NULL \notin Pbufs
    /\ MaxFlen \in Nat \ {0} /\ Fcs \in Nat
    /\ SizeMod \in Nat /\ MaxFlen <= SizeMod
    /\ LenMod \in Nat /\ MaxFlen < LenMod
    /\ Lens \subseteq 1 .. MaxFlen
    /\ MaxFills \in Nat

VARIABLES
    produce,   \* RX.PRODUCEINDEX
    consume,   \* RX.CONSUMEINDEX
    overrun,   \* ENET_INT_RXOVERRUN in the interrupt status
    prxd,      \* the descriptors: Packet and the size in Control
    prxs,      \* the statuses: the length stored and whether there was an error
    rxb,       \* the pbuf queued with each descriptor
    fill,      \* rx_fill_desc_index
    free,      \* rx_free_descs
    plen,      \* pbuf.len
    held,      \* the pbufs that are the driver's; lwIP or the heap has the others
    pc,        \* where the driver is
    hand,      \* the pbuf taken out of the ring
    queued,    \* whether lpc_rx_queue has queued a pbuf
    left,      \* what the DMA engine has still to store of a frame; 0 between frames
    frag,      \* whether it has stored a part of it
    mem,       \* history: what a pbuf of the driver holds, the number of its fill
               \* and whether it is a whole frame
    filled,    \* history: descriptors filled
    last,      \* history: the fill that lwIP was given last
    requeued,  \* history: a pbuf was put back for want of a new one
    starved    \* history: a setup of the ring left two descriptors or more without
               \* a pbuf

ringVars == <<rxb, fill, free, prxd, prxs>>
dmaVars == <<produce, overrun, left, frag, mem, filled>>
vars == <<ringVars, dmaVars, consume, plen, held, pc, hand, queued, last, requeued, starved>>

Desc == 0 .. N - 1

TypeOK ==
    /\ produce \in Desc /\ consume \in Desc
    /\ overrun \in BOOLEAN
    /\ prxd \in [Desc -> [buf : Pbufs \cup {NULL}, size : 1 .. SizeMod]]
    /\ prxs \in [Desc -> [len : Nat, err : BOOLEAN]]
    /\ rxb \in [Desc -> Pbufs \cup {NULL}]
    /\ fill \in Desc /\ free \in 0 .. N
    /\ plen \in [Pbufs -> 0 .. LenMod - 1]
    /\ held \subseteq Pbufs
    /\ pc \in {"setup", "loop", "queue", "consume", "input", "crash"}
    /\ hand \in Pbufs \cup {NULL}
    /\ queued \in BOOLEAN
    /\ left \in Nat /\ frag \in BOOLEAN
    /\ mem \in [Pbufs -> [fill : Nat, whole : BOOLEAN]]
    /\ filled \in Nat /\ last \in Nat
    /\ requeued \in BOOLEAN /\ starved \in BOOLEAN

\* A status that no frame has been received for (0xFFFFFFFF) has all error bits set.
Stale == [len |-> SizeMod, err |-> TRUE]

Blank == [fill |-> 0, whole |-> FALSE]

\* lpc_rx_setup, called from low_level_init, up to the call of lpc_rx_queue. The
\* driver's data are zero; reception is not enabled before the end of the setup.
Init ==
    /\ produce = 0 /\ consume = 0 /\ overrun = FALSE
    /\ prxd = [i \in Desc |-> [buf |-> NULL, size |-> 1]]
    /\ prxs = [i \in Desc |-> [len |-> 0, err |-> FALSE]]
    /\ rxb = [i \in Desc |-> NULL]
    /\ fill = 0 /\ free = N
    /\ plen = [b \in Pbufs |-> 0]
    /\ held = {}
    /\ pc = "setup" /\ hand = NULL /\ queued = FALSE
    /\ left = 0 /\ frag = FALSE
    /\ mem = [b \in Pbufs |-> Blank]
    /\ filled = 0 /\ last = 0 /\ requeued = FALSE /\ starved = FALSE

-----------------------------------------------------------------------------
\* Mutant: the index wraps one too late.
IncPastEnd(i) == IF i + 1 > N THEN 0 ELSE i + 1

\* Chip_ENET_IncRXConsumeIndex, and the wrap in lpc_rxqueue_pbuf
Inc(i) == IF i + 1 >= N THEN 0 ELSE i + 1

\* How far descriptor i lies behind descriptor c.
Dist(c, i) == IF i >= c THEN i - c ELSE i + N - c

Least(a, b) == IF a <= b THEN a ELSE b

\* ENET_RCTRL_SIZE: the size of the buffer the DMA engine is told.
RctrlSize(len) == ((len - 1) % SizeMod) + 1

\* Mutant: the old status stays in place.
QueueKeepsStatus(ring, b, len) ==
    /\ rxb' = [ring EXCEPT ![fill] = b]
    /\ prxd' = [prxd EXCEPT ![fill] = [buf |-> b, size |-> RctrlSize(len)]]
    /\ prxs' = prxs
    /\ fill' = Inc(fill)

\* lpc_rxqueue_pbuf: b, of length len, goes to the next descriptor of ring.
lpc_rxqueue_pbuf(ring, b, len) ==
    /\ rxb' = [ring EXCEPT ![fill] = b]
    /\ prxd' = [prxd EXCEPT ![fill] = [buf |-> b, size |-> RctrlSize(len)]]
    /\ prxs' = [prxs EXCEPT ![fill] = Stale]
    /\ fill' = Inc(fill)

\* The pbufs of bs leave the driver. What it knew of them is forgotten.
Release(bs) ==
    /\ held' = held \ bs
    /\ plen' = [b \in Pbufs |-> IF b \in bs THEN 0 ELSE plen[b]]
    /\ mem' = [b \in Pbufs |-> IF b \in bs THEN Blank ELSE mem[b]]

-----------------------------------------------------------------------------
\* Mutant: rx_fill_desc_index is not reset.
OverrunKeepsFill ==
    /\ pc = "loop" /\ overrun
    /\ overrun' = FALSE /\ left' = 0 /\ frag' = FALSE
    /\ Release({rxb[i] : i \in Desc})
    /\ rxb' = [i \in Desc |-> NULL]
    /\ consume' = 0 /\ produce' \in {0, produce}
    /\ free' = N
    /\ pc' = "setup"
    /\ UNCHANGED <<fill, prxd, prxs, hand, queued, filled, last, requeued, starved>>

\* lpc_low_level_input, when an overrun is reported: reception is disabled, all queued
\* pbufs are freed and the ring is set up again. Whether the reset of the receive
\* logic clears PRODUCEINDEX is the hardware's affair.
Overrun ==
    /\ pc = "loop" /\ overrun
    /\ overrun' = FALSE /\ left' = 0 /\ frag' = FALSE
    /\ Release({rxb[i] : i \in Desc})
    /\ rxb' = [i \in Desc |-> NULL]
    /\ consume' = 0 /\ produce' \in {0, produce}
    /\ fill' = 0 /\ free' = N
    /\ pc' = "setup"
    /\ UNCHANGED <<prxd, prxs, hand, queued, filled, last, requeued, starved>>

\* One turn of the loop of lpc_rx_queue: a pbuf of the maximum size is allocated and
\* queued.
Allocate ==
    /\ pc \in {"setup", "queue"} /\ free > 0
    /\ \E b \in Pbufs \ held :
          /\ held' = held \cup {b}
          /\ plen' = [plen EXCEPT ![b] = MaxFlen]
          /\ lpc_rxqueue_pbuf(rxb, b, MaxFlen)
    /\ free' = free - 1
    /\ queued' = TRUE
    /\ UNCHANGED <<dmaVars, consume, pc, hand, last, requeued, starved>>

\* lpc_rx_queue returns, with the ring full or no memory for another pbuf, to
\* lpc_rx_setup ...
SetupDone ==
    /\ pc = "setup"
    /\ pc' = "loop" /\ queued' = FALSE
    /\ starved' = (starved \/ free > 1)
    /\ UNCHANGED <<ringVars, dmaVars, consume, plen, held, hand, last, requeued>>

\* ... or to lpc_low_level_input, which keeps the frame when at least one pbuf was queued,
Keep ==
    /\ pc = "queue" /\ queued
    /\ pc' = "consume" /\ queued' = FALSE
    /\ UNCHANGED <<ringVars, dmaVars, consume, plen, held, hand, last, requeued, starved>>

\* Mutant: the pbuf is put back but also given to lwIP.
RequeueAndKeep ==
    /\ pc = "queue" /\ ~queued
    /\ lpc_rxqueue_pbuf(rxb, hand, plen[hand])
    /\ free' = free - 1
    /\ requeued' = TRUE
    /\ pc' = "consume"
    /\ UNCHANGED <<dmaVars, consume, plen, held, hand, queued, last, starved>>

\* and drops it, putting its pbuf back, when there was none.
Requeue ==
    /\ pc = "queue" /\ ~queued
    /\ lpc_rxqueue_pbuf(rxb, hand, plen[hand])
    /\ free' = free - 1
    /\ hand' = NULL
    /\ requeued' = TRUE
    /\ pc' = "consume"
    /\ UNCHANGED <<dmaVars, consume, plen, held, queued, last, starved>>

\* Mutant: the length of the bad frame is set before its pbuf goes back.
DropBadShrinks ==
    /\ pc = "loop" /\ ~overrun /\ consume # produce
    /\ prxs[consume].err /\ rxb[consume] # NULL
    /\ lpc_rxqueue_pbuf([rxb EXCEPT ![consume] = NULL], rxb[consume],
                        (prxs[consume].len - Fcs) % LenMod)
    /\ pc' = "consume"
    /\ UNCHANGED <<dmaVars, consume, free, plen, held, hand, queued, last, requeued, starved>>

\* lpc_low_level_input: a frame with an error is dropped, its pbuf goes back to the ring.
DropBad ==
    /\ pc = "loop" /\ ~overrun /\ consume # produce
    /\ prxs[consume].err /\ rxb[consume] # NULL
    /\ lpc_rxqueue_pbuf([rxb EXCEPT ![consume] = NULL], rxb[consume], plen[rxb[consume]])
    /\ pc' = "consume"
    /\ UNCHANGED <<dmaVars, consume, free, plen, held, hand, queued, last, requeued, starved>>

\* A frame without an error: its pbuf is taken out of the ring, its length set.
Take ==
    /\ pc = "loop" /\ ~overrun /\ consume # produce
    /\ ~prxs[consume].err /\ rxb[consume] # NULL
    /\ hand' = rxb[consume]
    /\ plen' = [plen EXCEPT ![rxb[consume]] = (prxs[consume].len - Fcs) % LenMod]
    /\ rxb' = [rxb EXCEPT ![consume] = NULL]
    /\ free' = free + 1
    /\ pc' = "queue"
    /\ UNCHANGED <<dmaVars, consume, prxd, prxs, fill, held, queued, last, requeued, starved>>

\* A descriptor was filled that no pbuf is queued with: a NULL pointer is used, and the
\* model ends.
Crash ==
    /\ pc = "loop" /\ ~overrun /\ consume # produce
    /\ rxb[consume] = NULL
    /\ pc' = "crash"
    /\ UNCHANGED <<ringVars, dmaVars, consume, plen, held, hand, queued, last, requeued, starved>>

\* Mutant: a dropped frame does not move CONSUMEINDEX.
ConsumeKept ==
    /\ pc = "consume"
    /\ consume' = IF hand = NULL THEN consume ELSE Inc(consume)
    /\ pc' = IF hand = NULL THEN "loop" ELSE "input"
    /\ UNCHANGED <<ringVars, dmaVars, plen, held, hand, queued, last, requeued, starved>>

\* The end of lpc_low_level_input.
Consume ==
    /\ pc = "consume"
    /\ consume' = Inc(consume)
    /\ pc' = IF hand = NULL THEN "loop" ELSE "input"
    /\ UNCHANGED <<ringVars, dmaVars, plen, held, hand, queued, last, requeued, starved>>

\* lpc_enetif_input: lwIP gets the pbuf, or it is freed for its Ethernet type.
Input ==
    /\ pc = "input"
    /\ Release({hand})
    /\ last' = mem[hand].fill
    /\ hand' = NULL
    /\ pc' = "loop"
    /\ UNCHANGED <<ringVars, produce, overrun, left, frag, filled, consume, queued, requeued,
                   starved>>

-----------------------------------------------------------------------------
\* The DMA engine, while reception is enabled. It keeps one descriptor free.

Enabled == pc # "setup"
Full == Inc(produce) = consume

Arrive ==
    /\ Enabled /\ left = 0 /\ filled < MaxFills
    /\ left' \in Lens
    /\ UNCHANGED <<produce, overrun, frag, mem, filled, ringVars, consume, plen, held, pc,
                   hand, queued, last, requeued, starved>>

\* The next descriptor is filled with as much of the frame as its size allows.
Fill ==
    LET d == prxd[produce]
        n == Least(left, d.size)
    IN  /\ Enabled /\ left > 0 /\ ~Full
        /\ \E bad \in BOOLEAN : prxs' = [prxs EXCEPT ![produce] = [len |-> n, err |-> bad]]
        /\ mem' = IF d.buf \notin held THEN mem
                  ELSE [mem EXCEPT ![d.buf] = [fill |-> filled + 1,
                                               whole |-> ~frag /\ n = left]]
        /\ filled' = filled + 1
        /\ left' = left - n
        /\ frag' = (n < left)
        /\ produce' = Inc(produce)
        /\ UNCHANGED <<overrun, rxb, fill, free, prxd, consume, plen, held, pc, hand,
                       queued, last, requeued, starved>>

\* There is no descriptor for the rest of the frame, which may be a fatal overrun.
Lose ==
    /\ Enabled /\ left > 0 /\ Full
    /\ left' = 0 /\ frag' = FALSE
    /\ overrun' \in {overrun, TRUE}
    /\ UNCHANGED <<produce, mem, filled, ringVars, consume, plen, held, pc, hand, queued,
                   last, requeued, starved>>

-----------------------------------------------------------------------------
Driver ==
    \/ Overrun \/ Allocate \/ SetupDone \/ Keep \/ Requeue
    \/ DropBad \/ Take \/ Crash \/ Consume \/ Input

Dma == Arrive \/ Fill \/ Lose

Next == Driver \/ Dma

Spec == Init /\ [][Next]_vars

\* Every turn of the main loop calls lpc_enetif_input, which runs to its end.
LiveSpec == Spec /\ WF_vars(Driver)

-----------------------------------------------------------------------------
\* No pbuf is lost or used twice: the driver holds exactly the pbufs of the ring and the
\* one in its hand, through allocation failures, dropped frames and overruns.
InRing(b) == \E i \in Desc : rxb[i] = b

OwnedOnce ==
    /\ \A b \in Pbufs : b \in held <=> b = hand \/ InRing(b)
    /\ \A i, j \in Desc : rxb[i] # NULL /\ rxb[i] = rxb[j] => i = j
    /\ hand # NULL => ~InRing(hand)

\* The DMA engine only writes to pbufs of the ring, as long as the last setup of the
\* ring found memory for all descriptors but one: a descriptor without a pbuf still
\* points to memory that was freed.
Writable(i) == Dist(produce, i) < Dist(Inc(produce), consume)

Supplied == free <= (IF pc = "queue" THEN 2 ELSE 1)

DmaInRing == Enabled /\ Supplied => \A i \in Desc : Writable(i) => rxb[i] # NULL /\ prxd[i].buf = rxb[i]

\* What lwIP is given was received after the pbuf was queued, later than what it was
\* given before: neither garbage nor an old frame, however rings were reset. A starved
\* ring has descriptors that still point to the pbuf in the driver's hand.
InOrder == pc = "input" /\ ~starved => mem[hand].fill > last

\* "full packet send to tcpip_thread to process" (lpc17xx_40xx_emac.c, lpc_enetif_input):
\* what lwIP is given is a whole frame, if setups of the ring found memory.
WholeFrames == pc = "input" /\ ~starved => mem[hand].whole

\* It is, and every queued buffer is announced in its full size, as long as no pbuf had
\* to be put back.
BuffersWhole ==
    \/ requeued \/ starved
    \/ /\ WholeFrames
       /\ \A i \in Desc : rxb[i] # NULL => prxd[i].size = MaxFlen

\* Received frames do not stay in the ring, with or without memory for new pbufs, once
\* the overruns end.
RingDrains ==
    <>[]~overrun =>
        (consume # produce ~> (consume = produce \/ (pc = "crash" /\ free = N)))

\* The driver uses a NULL pointer only when a setup of the ring found no memory at all.
CrashOnlyEmpty == pc = "crash" => free = N
=============================================================================
