------------------------------- MODULE EmacTx -------------------------------
(***************************************************************************)
(* Transmission in the Ethernet driver, lpc17xx_40xx_emac.c of             *)
(* WEB_UDP_bare_server (NO_SYS = 1): lpc_low_level_output() queues the     *)
(* pbufs of a frame on a ring of descriptors, the EMAC's DMA engine sends  *)
(* them, and the main loop calls lpc_tx_reclaim() to free what was sent.   *)
(*                                                                         *)
(* The driver and the DMA engine run concurrently. They share the ring     *)
(* through PRODUCEINDEX, which only the driver moves, and CONSUMEINDEX,    *)
(* which only the DMA engine moves.                                        *)
(***************************************************************************)
EXTENDS Integers

CONSTANTS
    N,          \* LPC_NUM_BUFF_TXDESCS
    MaxParts,   \* most pbufs lwIP chains to one frame
    MaxFrames   \* bound: frames output in a behaviour

\* A chain of more than N - 1 DMA-safe pbufs would wait forever.
ASSUME TxAssumption ==
    /\ N \in Nat /\ N >= 2
    /\ MaxParts \in 1 .. N - 1
    /\ MaxFrames \in Nat

NULL == 0

VARIABLES
    produce,  \* TX.PRODUCEINDEX
    consume,  \* TX.CONSUMEINDEX
    last,     \* lpc_last_tx_idx
    txb,      \* the pbuf to free with each descriptor
    ptxd,     \* the descriptors: the frame, and the descriptor's number in all
    held,     \* the frames whose pbuf the driver holds a reference to
    pc,       \* where the driver is: main loop, waiting for or filling descriptors
    frame,    \* the frame being output: its number
    dn,       \* descriptors it still needs
    put,      \* history: descriptors filled so far
    sent,     \* history: descriptors the DMA engine has sent so far
    crowded   \* history: a frame was output that the ring, counting the
              \* descriptors not yet reclaimed, had no room for

ringVars == <<produce, consume, last, txb, ptxd>>
vars == <<ringVars, held, pc, frame, dn, put, sent, crowded>>

Desc == 0 .. N - 1

TypeOK ==
    /\ produce \in Desc /\ consume \in Desc /\ last \in Desc
    /\ txb \in [Desc -> Nat]
    /\ ptxd \in [Desc -> [frame : Nat, number : Nat]]
    /\ held \subseteq Nat \ {NULL}
    /\ pc \in {"loop", "wait", "fill"}
    /\ frame \in Nat
    /\ dn \in 0 .. MaxParts
    /\ put \in Nat /\ sent \in Nat
    /\ crowded \in BOOLEAN

\* lpc_tx_setup
Init ==
    /\ produce = 0 /\ consume = 0 /\ last = 0
    /\ txb = [i \in Desc |-> NULL]
    /\ ptxd = [i \in Desc |-> [frame |-> NULL, number |-> 0]]
    /\ held = {}
    /\ pc = "loop" /\ frame = 0 /\ dn = 0
    /\ put = 0 /\ sent = 0 /\ crowded = FALSE

-----------------------------------------------------------------------------
\* Mutant: the index runs one past the ring.
IncLate(i) == IF i + 1 > N THEN 0 ELSE i + 1

\* Chip_ENET_IncTXProduceIndex
Inc(i) == IF i + 1 > N - 1 THEN 0 ELSE i + 1

\* Chip_ENET_GetFillDescNum: the descriptors from index c to before index p.
FillDescNum(p, c) == IF c > p THEN p + N - c ELSE p - c

\* Mutant: the slot that keeps a full ring apart from an empty one is used.
AllDescNum(p, c) == N - FillDescNum(p, c)

\* Chip_ENET_GetFreeDescNum
FreeDescNum(p, c) == N - 1 - FillDescNum(p, c)

lpc_tx_ready == FreeDescNum(produce, consume)

\* lpc_low_level_output is called with a chain of n pbufs. When one of them is not in
\* memory the DMA engine can read, it is copied to a bounce buffer, or dropped when
\* there is no memory for that.
Queue(n) ==
    /\ dn' = n /\ pc' = "wait"
    /\ crowded' = (crowded \/ FillDescNum(produce, last) + n > N - 1)

Output ==
    /\ pc = "loop" /\ frame < MaxFrames
    /\ frame' = frame + 1
    /\ \/ \E n \in 1 .. MaxParts : Queue(n) /\ UNCHANGED held
       \/ Queue(1) /\ held' = held \cup {frame + 1}
       \/ UNCHANGED <<held, dn, pc, crowded>>
    /\ UNCHANGED <<ringVars, put, sent>>

\* Mutant: one descriptor more than needed is waited for.
WaitForMore ==
    /\ pc = "wait" /\ dn < lpc_tx_ready
    /\ pc' = "fill"
    /\ held' = held \cup {frame}
    /\ UNCHANGED <<ringVars, frame, dn, put, sent, crowded>>

\* The wait for descriptors ends; pbuf_ref keeps the frame's pbufs.
Ready ==
    /\ pc = "wait" /\ dn <= lpc_tx_ready
    /\ pc' = "fill"
    /\ held' = held \cup {frame}
    /\ UNCHANGED <<ringVars, frame, dn, put, sent, crowded>>

\* One turn of the loop over the pbufs: the descriptor is filled and given to the DMA
\* engine; the pbuf to free goes with the last descriptor of the frame.
FillDescriptor ==
    /\ pc = "fill"
    /\ ptxd' = [ptxd EXCEPT ![produce] = [frame |-> frame, number |-> put]]
    /\ txb' = [txb EXCEPT ![produce] = IF dn = 1 THEN frame ELSE NULL]
    /\ produce' = Inc(produce)
    /\ dn' = dn - 1
    /\ put' = put + 1
    /\ pc' = IF dn = 1 THEN "loop" ELSE "fill"
    /\ UNCHANGED <<consume, last, held, frame, sent, crowded>>

\* The DMA engine sends the next descriptor.
Transmit ==
    /\ consume # produce
    /\ consume' = Inc(consume)
    /\ sent' = sent + 1
    /\ UNCHANGED <<produce, last, txb, ptxd, held, pc, frame, dn, put, crowded>>

\* lpc_tx_reclaim, called from the main loop: frees the pbufs from lpc_last_tx_idx to
\* the CONSUMEINDEX read at the start.
ToReclaim(c) == {i \in Desc : FillDescNum(i, last) < FillDescNum(c, last)}

\* Mutant: everything that was queued is freed.
ReclaimQueued ==
    /\ pc = "loop" /\ last # consume
    /\ held' = held \ {txb[i] : i \in ToReclaim(produce)}
    /\ txb' = [i \in Desc |-> IF i \in ToReclaim(produce) THEN NULL ELSE txb[i]]
    /\ last' = produce
    /\ UNCHANGED <<produce, consume, ptxd, pc, frame, dn, put, sent, crowded>>

\* Mutant: the loop ends at a descriptor without a pbuf.
ReclaimHeads ==
    /\ pc = "loop" /\ last # consume /\ txb[last] # NULL
    /\ held' = held \ {txb[i] : i \in ToReclaim(consume)}
    /\ txb' = [i \in Desc |-> IF i \in ToReclaim(consume) THEN NULL ELSE txb[i]]
    /\ last' = consume
    /\ UNCHANGED <<produce, consume, ptxd, pc, frame, dn, put, sent, crowded>>

Reclaim ==
    /\ pc = "loop" /\ last # consume
    /\ held' = held \ {txb[i] : i \in ToReclaim(consume)}
    /\ txb' = [i \in Desc |-> IF i \in ToReclaim(consume) THEN NULL ELSE txb[i]]
    /\ last' = consume
    /\ UNCHANGED <<produce, consume, ptxd, pc, frame, dn, put, sent, crowded>>

-----------------------------------------------------------------------------
Next == Output \/ Ready \/ FillDescriptor \/ Reclaim \/ Transmit

Spec == Init /\ [][Next]_vars

\* The DMA engine keeps sending, a call of lpc_low_level_output runs to its end, and
\* the main loop reclaims in every turn, however many frames it outputs.
Fairness ==
    /\ WF_vars(Transmit)
    /\ WF_vars(Ready) /\ WF_vars(FillDescriptor)
    /\ SF_vars(Reclaim)

LiveSpec == Spec /\ Fairness

-----------------------------------------------------------------------------
Pending(i) == FillDescNum(i, consume) < FillDescNum(produce, consume)

\* The DMA engine sends exactly the descriptors that were filled, each once and in
\* order: the driver never overwrites one that was not sent, however fast lwIP
\* outputs frames and however slow the engine is (the wait for lpc_tx_ready).
InOrder == consume # produce => ptxd[consume].number = sent

\* "The driver will free it once it's been transmitted"
\* (lpc17xx_40xx_emac.c:484): no pbuf is freed while the DMA engine still has to read
\* it.
KeptUntilSent == \A i \in Desc : Pending(i) => ptxd[i].frame \in held

\* It is so as long as the ring has room for every frame without waiting for
\* descriptors to be reclaimed.
KeptUnlessCrowded == crowded \/ KeptUntilSent

\* A call of lpc_low_level_output that waits for descriptors gets them.
OutputReturns == pc = "wait" ~> pc = "loop"

\* Every pbuf the driver took is given back, on the same condition: none is forgotten
\* in the ring.
AllFreed == \A f \in 1 .. MaxFrames : f \in held ~> f \notin held \/ crowded

-----------------------------------------------------------------------------
(***************************************************************************)
(* The inductive invariants behind InOrder and KeptUnlessCrowded.          *)
(***************************************************************************)

\* The driver only fills descriptors it has waited for; what was filled and not sent
\* is what lies between the two indexes, numbered from sent on.
OrderInv ==
    /\ pc = "loop" <=> dn = 0
    /\ pc # "loop" => frame # NULL
    /\ pc = "fill" => dn <= FreeDescNum(produce, consume)
    /\ put - sent = FillDescNum(produce, consume)
    /\ \A i \in Desc : Pending(i) => ptxd[i].number = sent + FillDescNum(i, consume)

\* The descriptors filled since the last reclaimed one.
Unreclaimed(i) == FillDescNum(i, last) < FillDescNum(produce, last)

\* While there is room, the three indexes are in the order last, consume, produce,
\* and the pbuf of a frame hangs on the last of the frame's descriptors.
KeptInv ==
    /\ FillDescNum(produce, last) + dn <= N - 1
    /\ FillDescNum(consume, last) <= FillDescNum(produce, last)
    /\ pc = "fill" => frame \in held
    /\ \A i \in Desc : Unreclaimed(i) =>
           /\ ptxd[i].frame <= frame
           /\ txb[i] # NULL => txb[i] = ptxd[i].frame
           /\ txb[i] # NULL /\ pc # "loop" => ptxd[i].frame < frame
    /\ \A i, j \in Desc :
           (/\ Unreclaimed(i) /\ Unreclaimed(j) /\ txb[i] # NULL
            /\ FillDescNum(i, last) < FillDescNum(j, last))
               => ptxd[i].frame < ptxd[j].frame
    /\ KeptUntilSent
=============================================================================
