---------------------------- MODULE EmacRx_proofs ----------------------------
(***************************************************************************)
(* Theorems about reception, for every size of ring and number of pbufs.   *)
(*                                                                         *)
(* The argument is the shape of the ring (RingInv): the descriptors with a *)
(* pbuf are an arc, as long as rx_free_descs says, that begins where the   *)
(* driver consumes and ends where it fills.                                *)
(***************************************************************************)
EXTENDS EmacRx, TLAPS

\* ring has pbufs in the n descriptors from s on, and f is the one behind them.
Arc(ring, s, n, f) ==
    /\ \A i \in Desc : ring[i] # NULL <=> Dist(s, i) < n
    /\ f = IF s + n < N THEN s + n ELSE s + n - N

\* The descriptor whose pbuf the driver has taken is not in the arc any more.
Start == IF pc \in {"queue", "consume"} THEN Inc(consume) ELSE consume

RingInv ==
    /\ Arc(rxb, Start, N - free, fill)
    /\ \A i \in Desc : rxb[i] # NULL => prxd[i].buf = rxb[i]

HandInv ==
    /\ pc \in {"queue", "input"} => hand # NULL
    /\ pc \in {"setup", "loop", "crash"} => hand = NULL
    /\ pc = "queue" /\ ~queued => free > 0
    /\ pc \in {"queue", "consume"} => consume # produce

Inv == TypeOK /\ RingInv /\ HandInv /\ OwnedOnce /\ CrashOnlyEmpty

-----------------------------------------------------------------------------
\* The ring.

LEMMA Indexes ==
    /\ N \in Nat /\ N >= 2 /\ 0 \in Desc /\ Desc \subseteq Nat
    /\ \A i \in Desc : Inc(i) \in Desc /\ \A j \in Desc : Dist(i, j) \in 0 .. N - 1
BY RxAssumption DEF Desc, Inc, Dist

LEMMA ArcRemove ==
    ASSUME NEW ring \in [Desc -> Pbufs \cup {NULL}], NEW s \in Desc, NEW n \in 1 .. N, NEW f,
           Arc(ring, s, n, f)
    PROVE  /\ ring[s] # NULL
           /\ Arc([ring EXCEPT ![s] = NULL], Inc(s), n - 1, f)
<1>1. N \in Nat /\ N >= 2 /\ s \in Nat /\ s < N /\ n \in Nat
    BY Indexes DEF Desc
<1>2. ring[s] # NULL
    BY <1>1 DEF Arc, Dist
<1>3. ASSUME NEW i \in Desc
      PROVE  [ring EXCEPT ![s] = NULL][i] # NULL <=> Dist(Inc(s), i) < n - 1
    <2>1. i \in Nat /\ i < N
        BY <1>1 DEF Desc
    <2>2. CASE i = s
        BY <1>1, <2>1, <2>2 DEF Dist, Inc
    <2>3. CASE i # s
        <3>1. Dist(Inc(s), i) = Dist(s, i) - 1
            BY <1>1, <2>1, <2>3 DEF Dist, Inc
        <3>2. Dist(s, i) \in Int
            BY Indexes
        <3> QED BY <1>1, <2>3, <3>1, <3>2 DEF Arc
    <2> QED BY <2>2, <2>3
<1>4. f = IF Inc(s) + (n - 1) < N THEN Inc(s) + (n - 1) ELSE Inc(s) + (n - 1) - N
    BY <1>1 DEF Arc, Inc
<1> QED BY <1>2, <1>3, <1>4 DEF Arc

LEMMA ArcAdd ==
    ASSUME NEW ring \in [Desc -> Pbufs \cup {NULL}], NEW s \in Desc, NEW n \in 0 .. N - 1, NEW f,
           NEW b \in Pbufs, Arc(ring, s, n, f)
    PROVE  /\ f \in Desc /\ ring[f] = NULL
           /\ Arc([ring EXCEPT ![f] = b], s, n + 1, Inc(f))
<1>1. /\ N \in Nat /\ N >= 2 /\ s \in Nat /\ s < N /\ n \in Nat /\ n < N
      /\ f = IF s + n < N THEN s + n ELSE s + n - N
    BY Indexes DEF Desc, Arc
<1>2. f \in Desc /\ f \in Nat /\ Dist(s, f) = n
    BY <1>1 DEF Desc, Dist
<1>3. ring[f] = NULL
    BY <1>1, <1>2 DEF Arc
<1>4. ASSUME NEW i \in Desc PROVE [ring EXCEPT ![f] = b][i] # NULL <=> Dist(s, i) < n + 1
    <2>1. i \in Nat /\ i < N /\ Dist(s, i) \in Int
        BY <1>1, Indexes DEF Desc
    <2>2. CASE i = f
        BY <1>1, <1>2, <2>2, RxAssumption
    <2>3. CASE i # f
        <3>1. Dist(s, i) # n
            BY <1>1, <2>1, <2>3 DEF Dist
        <3> QED BY <1>1, <2>1, <2>3, <3>1 DEF Arc
    <2> QED BY <2>2, <2>3
<1>5. Inc(f) = IF s + (n + 1) < N THEN s + (n + 1) ELSE s + (n + 1) - N
    BY <1>1 DEF Inc
<1> QED BY <1>2, <1>3, <1>4, <1>5 DEF Arc

-----------------------------------------------------------------------------
\* Types.

LEMMA SizeType == ASSUME NEW len \in Int PROVE RctrlSize(len) \in 1 .. SizeMod
<1>1. (len - 1) % SizeMod \in 0 .. SizeMod - 1
    BY RxAssumption
<1> QED BY <1>1, RxAssumption DEF RctrlSize

LEMMA LengthType == ASSUME NEW len \in Int PROVE len % LenMod \in 0 .. LenMod - 1
BY RxAssumption

LEMMA QueueType ==
    ASSUME TypeOK, NEW ring \in [Desc -> Pbufs \cup {NULL}], NEW b \in Pbufs, NEW len \in Int,
           lpc_rxqueue_pbuf(ring, b, len)
    PROVE  /\ rxb' \in [Desc -> Pbufs \cup {NULL}] /\ fill' \in Desc
           /\ prxd' \in [Desc -> [buf : Pbufs \cup {NULL}, size : 1 .. SizeMod]]
           /\ prxs' \in [Desc -> [len : Nat, err : BOOLEAN]]
<1>1. Stale \in [len : Nat, err : BOOLEAN]
    BY RxAssumption DEF Stale
<1>2. [buf |-> b, size |-> RctrlSize(len)] \in [buf : Pbufs \cup {NULL}, size : 1 .. SizeMod]
    BY SizeType
<1> QED BY <1>1, <1>2, Indexes DEF lpc_rxqueue_pbuf, TypeOK

LEMMA ReleaseType ==
    ASSUME TypeOK, NEW bs, Release(bs)
    PROVE  /\ held' \subseteq Pbufs /\ plen' \in [Pbufs -> 0 .. LenMod - 1]
           /\ mem' \in [Pbufs -> [fill : Nat, whole : BOOLEAN]]
<1>1. Blank \in [fill : Nat, whole : BOOLEAN] /\ 0 \in 0 .. LenMod - 1
    BY RxAssumption DEF Blank
<1> QED BY <1>1 DEF Release, TypeOK

\* What the driver has in its hand, and that there is room in the ring.
LEMMA DriverFacts ==
    ASSUME Inv
    PROVE  /\ pc = "queue" /\ ~queued => hand \in Pbufs /\ plen[hand] \in Int /\ free \in 1 .. N
           /\ pc \in {"loop"} /\ rxb[consume] # NULL =>
                 /\ rxb[consume] \in Pbufs /\ plen[rxb[consume]] \in Int /\ free \in 0 .. N - 1
<1>1. rxb[consume] # NULL => rxb[consume] \in Pbufs /\ plen[rxb[consume]] \in Int
    BY DEF Inv, TypeOK
<1>2. hand # NULL => hand \in Pbufs /\ plen[hand] \in Int
    BY DEF Inv, TypeOK
<1>3. pc = "loop" /\ rxb[consume] # NULL => free < N
    <2> HAVE pc = "loop" /\ rxb[consume] # NULL
    <2>1. Start = consume /\ consume \in Desc /\ Dist(consume, consume) = 0
        BY Indexes DEF Start, Dist, Inv, TypeOK
    <2>2. 0 < N - free
        BY <2>1 DEF Inv, RingInv, Arc
    <2> QED BY <2>2, Indexes DEF Inv, TypeOK
<1> QED BY <1>1, <1>2, <1>3, Indexes DEF Inv, HandInv, TypeOK

LEMMA DriverType == ASSUME Inv, Driver PROVE TypeOK'
<1>0. TypeOK
    BY DEF Inv
<1>1. CASE Overrun
    <2>1. /\ held' \subseteq Pbufs /\ plen' \in [Pbufs -> 0 .. LenMod - 1]
          /\ mem' \in [Pbufs -> [fill : Nat, whole : BOOLEAN]]
        BY <1>0, <1>1, ReleaseType DEF Overrun
    <2>2. rxb' \in [Desc -> Pbufs \cup {NULL}]
        BY <1>1 DEF Overrun
    <2>3. produce' \in Desc /\ consume' \in Desc /\ fill' \in Desc /\ free' \in 0 .. N
        BY <1>0, <1>1, Indexes DEF Overrun, TypeOK
    <2>4. left' \in Nat /\ frag' = FALSE /\ overrun' = FALSE /\ pc' = "setup"
        BY <1>1 DEF Overrun
    <2> QED BY <1>0, <1>1, <2>1, <2>2, <2>3, <2>4 DEF Overrun, TypeOK
<1>2. CASE Allocate
    <2>1. PICK b \in Pbufs \ held : /\ held' = held \cup {b}
                                    /\ plen' = [plen EXCEPT ![b] = MaxFlen]
                                    /\ lpc_rxqueue_pbuf(rxb, b, MaxFlen)
        BY <1>2 DEF Allocate
    <2>2. MaxFlen \in 0 .. LenMod - 1 /\ MaxFlen \in Int
        BY RxAssumption
    <2>3. rxb \in [Desc -> Pbufs \cup {NULL}]
        BY <1>0 DEF TypeOK
    <2>4. /\ rxb' \in [Desc -> Pbufs \cup {NULL}] /\ fill' \in Desc
          /\ prxd' \in [Desc -> [buf : Pbufs \cup {NULL}, size : 1 .. SizeMod]]
          /\ prxs' \in [Desc -> [len : Nat, err : BOOLEAN]]
        BY <1>0, <2>1, <2>2, <2>3, QueueType
    <2>5. free' \in 0 .. N
        BY <1>0, <1>2, Indexes DEF Allocate, TypeOK
    <2> QED BY <1>0, <1>2, <2>1, <2>2, <2>4, <2>5 DEF Allocate, dmaVars, TypeOK
<1>3. CASE SetupDone \/ Keep \/ Crash
    BY <1>0, <1>3 DEF SetupDone, Keep, Crash, ringVars, dmaVars, TypeOK
<1>4. CASE Requeue
    <2>1. hand \in Pbufs /\ plen[hand] \in Int /\ free \in 1 .. N
        BY <1>4, DriverFacts DEF Requeue
    <2>2. rxb \in [Desc -> Pbufs \cup {NULL}]
        BY <1>0 DEF TypeOK
    <2>3. /\ rxb' \in [Desc -> Pbufs \cup {NULL}] /\ fill' \in Desc
          /\ prxd' \in [Desc -> [buf : Pbufs \cup {NULL}, size : 1 .. SizeMod]]
          /\ prxs' \in [Desc -> [len : Nat, err : BOOLEAN]]
        BY <1>0, <1>4, <2>1, <2>2, QueueType DEF Requeue
    <2>4. free' \in 0 .. N
        BY <1>4, <2>1, Indexes DEF Requeue
    <2> QED BY <1>0, <1>4, <2>3, <2>4 DEF Requeue, dmaVars, TypeOK
<1>5. CASE DropBad
    <2>1. rxb[consume] \in Pbufs /\ plen[rxb[consume]] \in Int
        BY <1>5, DriverFacts DEF DropBad
    <2>2. [rxb EXCEPT ![consume] = NULL] \in [Desc -> Pbufs \cup {NULL}]
        BY <1>0 DEF TypeOK
    <2>3. /\ rxb' \in [Desc -> Pbufs \cup {NULL}] /\ fill' \in Desc
          /\ prxd' \in [Desc -> [buf : Pbufs \cup {NULL}, size : 1 .. SizeMod]]
          /\ prxs' \in [Desc -> [len : Nat, err : BOOLEAN]]
        BY <1>0, <1>5, <2>1, <2>2, QueueType DEF DropBad
    <2> QED BY <1>0, <1>5, <2>3 DEF DropBad, dmaVars, TypeOK
<1>6. CASE Take
    <2>1. rxb[consume] \in Pbufs /\ free \in 0 .. N - 1
        BY <1>6, DriverFacts DEF Take
    <2>2. (prxs[consume].len - Fcs) % LenMod \in 0 .. LenMod - 1
        <3>1. prxs[consume].len - Fcs \in Int
            BY <1>0, RxAssumption DEF TypeOK
        <3> QED BY <3>1, LengthType
    <2>3. free' \in 0 .. N
        BY <1>6, <2>1, Indexes DEF Take
    <2>4. plen' \in [Pbufs -> 0 .. LenMod - 1] /\ rxb' \in [Desc -> Pbufs \cup {NULL}]
        BY <1>0, <1>6, <2>1, <2>2 DEF Take, TypeOK
    <2> QED BY <1>0, <1>6, <2>1, <2>3, <2>4 DEF Take, dmaVars, TypeOK
<1>7. CASE Consume
    BY <1>0, <1>7, Indexes DEF Consume, ringVars, dmaVars, TypeOK
<1>8. CASE Input
    <2>1. hand \in Pbufs
        BY <1>8 DEF Input, Inv, HandInv, TypeOK
    <2> QED BY <1>0, <1>8, <2>1, ReleaseType DEF Input, ringVars, TypeOK
<1> QED BY <1>1, <1>2, <1>3, <1>4, <1>5, <1>6, <1>7, <1>8 DEF Driver

LEMMA DmaType == ASSUME TypeOK, Dma PROVE TypeOK'
<1>1. CASE Arrive
    <2>1. left' \in Nat
        BY <1>1, RxAssumption DEF Arrive
    <2> QED BY <1>1, <2>1 DEF Arrive, ringVars, TypeOK
<1>2. CASE Fill
    <2> DEFINE d == prxd[produce]
    <2> DEFINE n == Least(left, d.size)
    <2>1. d.size \in Nat /\ d.size > 0 /\ n \in Nat /\ left - n \in Nat
        BY RxAssumption DEF TypeOK, Least
    <2>2. prxs' \in [Desc -> [len : Nat, err : BOOLEAN]]
        BY <1>2, <2>1 DEF Fill, TypeOK
    <2>3. mem' \in [Pbufs -> [fill : Nat, whole : BOOLEAN]]
        <3> DEFINE r == [fill |-> filled + 1, whole |-> ~frag /\ n = left]
        <3>1. mem' = mem \/ mem' = [mem EXCEPT ![d.buf] = r]
            BY <1>2 DEF Fill
        <3>2. r \in [fill : Nat, whole : BOOLEAN]
            BY DEF TypeOK
        <3> HIDE DEF r
        <3> QED BY <3>1, <3>2 DEF TypeOK
    <2>4. filled' \in Nat /\ left' \in Nat /\ frag' \in BOOLEAN /\ produce' \in Desc
        BY <1>2, <2>1, Indexes DEF Fill, TypeOK
    <2> QED BY <1>2, <2>2, <2>3, <2>4 DEF Fill, TypeOK
<1>3. CASE Lose
    BY <1>3 DEF Lose, ringVars, TypeOK
<1> QED BY <1>1, <1>2, <1>3 DEF Dma

-----------------------------------------------------------------------------
\* The shape of the ring is kept.

\* The arc, where the driver works on it.
LEMMA RingFacts ==
    ASSUME Inv
    PROVE  /\ rxb \in [Desc -> Pbufs \cup {NULL}] /\ consume \in Desc /\ free \in 0 .. N
           /\ N \in Nat /\ Inc(consume) \in Desc /\ Start \in Desc
           /\ Arc(rxb, Start, N - free, fill)
           /\ pc = "loop" => Start = consume /\ hand = NULL
           /\ pc = "loop" /\ rxb[consume] # NULL => free < N
BY Indexes, DriverFacts DEF Inv, TypeOK, RingInv, HandInv, Start

\* Putting b in the ring from which old was, or was not, taken before.
LEMMA QueueKeepsBufs ==
    ASSUME Inv, NEW ring \in [Desc -> Pbufs \cup {NULL}], NEW b, NEW len,
           \A i \in Desc : ring[i] # NULL => ring[i] = rxb[i],
           lpc_rxqueue_pbuf(ring, b, len)
    PROVE  \A i \in Desc : rxb'[i] # NULL => prxd'[i].buf = rxb'[i]
<1> TAKE i \in Desc
<1>1. CASE i = fill
    BY <1>1 DEF lpc_rxqueue_pbuf, Inv, TypeOK
<1>2. CASE i # fill
    BY <1>2 DEF lpc_rxqueue_pbuf, Inv, TypeOK, RingInv
<1> QED BY <1>1, <1>2

LEMMA DriverRing == ASSUME Inv, Driver PROVE RingInv' /\ HandInv' /\ CrashOnlyEmpty'
<1>0. /\ rxb \in [Desc -> Pbufs \cup {NULL}] /\ consume \in Desc /\ free \in 0 .. N
      /\ N \in Nat /\ Inc(consume) \in Desc /\ Start \in Desc
      /\ Arc(rxb, Start, N - free, fill) /\ NULL \notin Pbufs
      /\ \A i \in Desc : rxb[i] # NULL => prxd[i].buf = rxb[i]
    BY RingFacts, RxAssumption DEF Inv, RingInv
<1>1. CASE Overrun
    <2>1. rxb' = [i \in Desc |-> NULL] /\ fill' = 0 /\ free' = N /\ Start' = 0 /\ pc' = "setup"
          /\ hand' = NULL
        BY <1>1 DEF Overrun, Start, Inv, HandInv
    <2>2. \A i \in Desc : ~(Dist(0, i) < N - N)
        BY Indexes
    <2>3. Arc(rxb', Start', N - free', fill')
        BY <1>0, <2>1, <2>2, Indexes DEF Arc
    <2> QED BY <2>1, <2>3 DEF RingInv, HandInv, CrashOnlyEmpty
<1>2. CASE Allocate
    <2>1. PICK b \in Pbufs \ held : lpc_rxqueue_pbuf(rxb, b, MaxFlen)
        BY <1>2 DEF Allocate
    <2>2. free' = free - 1 /\ free > 0 /\ Start' = Start /\ pc' = pc /\ hand' = hand /\ queued'
          /\ pc \in {"setup", "queue"} /\ consume' = consume /\ produce' = produce
        BY <1>2 DEF Allocate, Start, dmaVars
    <2>3. rxb' = [rxb EXCEPT ![fill] = b] /\ fill' = Inc(fill)
        BY <2>1 DEF lpc_rxqueue_pbuf
    <2>4. Arc(rxb', Start, (N - free) + 1, fill')
        <3>1. N - free \in 0 .. N - 1
            BY <1>0, <2>2
        <3> QED BY <1>0, <2>3, <3>1, ArcAdd
    <2>5. (N - free) + 1 = N - free'
        BY <1>0, <2>2
    <2>6. \A i \in Desc : rxb'[i] # NULL => prxd'[i].buf = rxb'[i]
        BY <1>0, <2>1, QueueKeepsBufs
    <2> QED BY <2>2, <2>4, <2>5, <2>6 DEF Inv, RingInv, HandInv, CrashOnlyEmpty
<1>3. CASE SetupDone
    <2>1. Start' = Start
        BY <1>3 DEF SetupDone, Start
    <2> QED BY <1>3, <2>1 DEF SetupDone, ringVars, Inv, RingInv, HandInv, CrashOnlyEmpty
<1>4. CASE Keep
    <2>1. Start' = Start
        BY <1>4 DEF Keep, Start
    <2> QED BY <1>4, <2>1 DEF Keep, ringVars, dmaVars, Inv, RingInv, HandInv,
           CrashOnlyEmpty
<1>5. CASE Requeue
    <2>1. hand \in Pbufs /\ free \in 1 .. N
        BY <1>5, DriverFacts DEF Requeue
    <2>2. free' = free - 1 /\ Start' = Start /\ pc' = "consume" /\ hand' = NULL
          /\ lpc_rxqueue_pbuf(rxb, hand, plen[hand])
          /\ consume' # produce'
        BY <1>5 DEF Requeue, Start, dmaVars, Inv, HandInv
    <2>3. rxb' = [rxb EXCEPT ![fill] = hand] /\ fill' = Inc(fill)
        BY <2>2 DEF lpc_rxqueue_pbuf
    <2>4. Arc(rxb', Start, (N - free) + 1, fill')
        <3>1. N - free \in 0 .. N - 1
            BY <1>0, <2>1
        <3> QED BY <1>0, <2>1, <2>3, <3>1, ArcAdd
    <2>5. (N - free) + 1 = N - free'
        BY <1>0, <2>2
    <2>6. \A i \in Desc : rxb'[i] # NULL => prxd'[i].buf = rxb'[i]
        BY <1>0, <2>2, QueueKeepsBufs
    <2> QED BY <2>2, <2>4, <2>5, <2>6 DEF RingInv, HandInv, CrashOnlyEmpty
<1>6. CASE DropBad
    <2> DEFINE ring == [rxb EXCEPT ![consume] = NULL]
    <2>1. rxb[consume] \in Pbufs /\ free \in 0 .. N - 1 /\ Start = consume /\ hand = NULL
        BY <1>6, DriverFacts, RingFacts DEF DropBad
    <2>2. Start' = Inc(consume) /\ free' = free /\ pc' = "consume" /\ hand' = NULL
          /\ lpc_rxqueue_pbuf(ring, rxb[consume], plen[rxb[consume]])
          /\ consume' # produce'
        BY <1>6, <2>1 DEF DropBad, Start, dmaVars
    <2>3. ring \in [Desc -> Pbufs \cup {NULL}] /\ \A i \in Desc : ring[i] # NULL => ring[i] = rxb[i]
        BY <1>0
    <2>4. Arc(ring, Inc(consume), (N - free) - 1, fill)
        <3>1. N - free \in 1 .. N /\ Arc(rxb, consume, N - free, fill)
            BY <1>0, <2>1
        <3> QED BY <1>0, <3>1, ArcRemove
    <2>5. rxb' = [ring EXCEPT ![fill] = rxb[consume]] /\ fill' = Inc(fill)
        BY <2>2 DEF lpc_rxqueue_pbuf
    <2>6. \A i \in Desc : rxb'[i] # NULL => prxd'[i].buf = rxb'[i]
        BY <2>2, <2>3, QueueKeepsBufs
    <2> HIDE DEF ring
    <2>7. Arc(rxb', Inc(consume), ((N - free) - 1) + 1, fill')
        <3>1. (N - free) - 1 \in 0 .. N - 1
            BY <1>0, <2>1
        <3> QED BY <1>0, <2>1, <2>3, <2>4, <2>5, <3>1, ArcAdd
    <2>8. ((N - free) - 1) + 1 = N - free'
        BY <1>0, <2>2
    <2> QED BY <2>2, <2>6, <2>7, <2>8 DEF RingInv, HandInv, CrashOnlyEmpty
<1>7. CASE Take
    <2>1. rxb[consume] \in Pbufs /\ free \in 0 .. N - 1 /\ Start = consume
        BY <1>7, DriverFacts, RingFacts DEF Take
    <2>2. Start' = Inc(consume) /\ free' = free + 1 /\ pc' = "queue" /\ hand' = rxb[consume]
          /\ rxb' = [rxb EXCEPT ![consume] = NULL] /\ fill' = fill /\ prxd' = prxd
          /\ consume' # produce'
        BY <1>7 DEF Take, Start, dmaVars
    <2>3. Arc(rxb', Inc(consume), (N - free) - 1, fill)
        <3>1. N - free \in 1 .. N /\ Arc(rxb, consume, N - free, fill)
            BY <1>0, <2>1
        <3> QED BY <1>0, <2>2, <3>1, ArcRemove
    <2>4. (N - free) - 1 = N - free' /\ free' > 0
        BY <1>0, <2>2
    <2>5. \A i \in Desc : rxb'[i] # NULL => prxd'[i].buf = rxb'[i]
        BY <1>0, <2>2
    <2> QED BY <1>0, <2>1, <2>2, <2>3, <2>4, <2>5 DEF RingInv, HandInv, CrashOnlyEmpty
<1>8. CASE Crash
    <2>1. Start' = Start /\ Start = consume /\ hand' = NULL /\ pc' = "crash" /\ free' = free
          /\ rxb[consume] = NULL
        BY <1>8, RingFacts DEF Crash, ringVars, Start
    <2>2. free = N
        <3>1. Dist(consume, consume) = 0
            BY <1>0, Indexes DEF Dist
        <3> QED BY <1>0, <2>1, <3>1 DEF Arc
    <2> QED BY <1>8, <2>1, <2>2 DEF Crash, ringVars, Inv, RingInv, HandInv, CrashOnlyEmpty
<1>9. CASE Consume
    <2>1. Start' = Start /\ hand' = hand
        BY <1>9 DEF Consume, Start
    <2> QED BY <1>9, <2>1 DEF Consume, ringVars, Inv, RingInv, HandInv, CrashOnlyEmpty
<1>10. CASE Input
    <2>1. Start' = Start
        BY <1>10 DEF Input, Start
    <2> QED BY <1>10, <2>1 DEF Input, ringVars, Inv, RingInv, HandInv, CrashOnlyEmpty
<1> QED BY <1>1, <1>2, <1>3, <1>4, <1>5, <1>6, <1>7, <1>8, <1>9, <1>10 DEF Driver

\* Neither the ring nor the driver is where the DMA engine writes.
LEMMA DmaKeeps ==
    ASSUME Dma
    PROVE  /\ UNCHANGED <<rxb, fill, free, prxd, consume, plen, held, pc, hand, queued, last,
                          requeued, starved>>
           /\ produce' = produce \/ produce' # consume
BY DEF Dma, Arrive, Fill, Lose, Full, ringVars

-----------------------------------------------------------------------------
\* Every pbuf has one owner.

LEMMA DriverOwns == ASSUME Inv, Driver PROVE OwnedOnce'
<1>0. /\ rxb \in [Desc -> Pbufs \cup {NULL}] /\ consume \in Desc /\ fill \in Desc
      /\ held \subseteq Pbufs /\ hand \in Pbufs \cup {NULL} /\ NULL \notin Pbufs
    BY RxAssumption DEF Inv, TypeOK
<1>1. /\ \A b \in Pbufs : b \in held <=> b = hand \/ InRing(b)
      /\ \A i, j \in Desc : rxb[i] # NULL /\ rxb[i] = rxb[j] => i = j
      /\ hand # NULL => ~InRing(hand)
    BY DEF Inv, OwnedOnce
<1>2. CASE Overrun
    <2>1. hand = NULL /\ hand' = NULL /\ rxb' = [i \in Desc |-> NULL]
          /\ held' = held \ {rxb[i] : i \in Desc}
        BY <1>2 DEF Overrun, Release, Inv, HandInv
    <2>2. \A b \in Pbufs : b \notin held'
        BY <1>0, <1>1, <2>1 DEF InRing
    <2> QED BY <1>0, <2>1, <2>2 DEF OwnedOnce, InRing
<1>3. CASE Allocate
    <2>1. PICK b \in Pbufs \ held : held' = held \cup {b} /\ lpc_rxqueue_pbuf(rxb, b, MaxFlen)
        BY <1>3 DEF Allocate
    <2>2. rxb' = [rxb EXCEPT ![fill] = b] /\ hand' = hand /\ b # hand /\ ~InRing(b)
        BY <1>1, <1>3, <2>1 DEF Allocate, lpc_rxqueue_pbuf
    <2>3. rxb[fill] = NULL
        <3>1. N - free \in 0 .. N - 1
            BY <1>3, RingFacts DEF Allocate
        <3> QED BY <1>0, <2>1, <3>1, RingFacts, ArcAdd
    <2>4. \A c \in Pbufs : InRing(c)' <=> c = b \/ InRing(c)
        BY <1>0, <2>1, <2>2, <2>3 DEF InRing
    <2>5. \A i, j \in Desc : rxb'[i] # NULL /\ rxb'[i] = rxb'[j] => i = j
        BY <1>0, <1>1, <2>2 DEF InRing
    <2> QED BY <1>0, <1>1, <2>1, <2>2, <2>4, <2>5 DEF OwnedOnce
<1>4. CASE SetupDone \/ Keep \/ Crash \/ Consume
    BY <1>4 DEF SetupDone, Keep, Crash, Consume, ringVars, Inv, OwnedOnce, InRing
<1>5. CASE Requeue
    <2>1. hand \in Pbufs /\ free \in 1 .. N
        BY <1>5, DriverFacts DEF Requeue
    <2>2. rxb' = [rxb EXCEPT ![fill] = hand] /\ hand' = NULL /\ held' = held /\ ~InRing(hand)
        BY <1>0, <1>1, <1>5, <2>1 DEF Requeue, lpc_rxqueue_pbuf
    <2>3. rxb[fill] = NULL
        <3>1. N - free \in 0 .. N - 1
            BY <2>1, RingFacts
        <3> QED BY <1>0, <2>1, <3>1, RingFacts, ArcAdd
    <2>4. \A c \in Pbufs : InRing(c)' <=> c = hand \/ InRing(c)
        BY <1>0, <2>1, <2>2, <2>3 DEF InRing
    <2>5. \A i, j \in Desc : rxb'[i] # NULL /\ rxb'[i] = rxb'[j] => i = j
        BY <1>0, <1>1, <2>2 DEF InRing
    <2> QED BY <1>0, <1>1, <2>1, <2>2, <2>4, <2>5 DEF OwnedOnce
<1>6. CASE DropBad
    <2> DEFINE b == rxb[consume]
    <2> DEFINE ring == [rxb EXCEPT ![consume] = NULL]
    <2>1. b \in Pbufs /\ free \in 0 .. N - 1 /\ Start = consume /\ hand = NULL
        BY <1>6, DriverFacts, RingFacts DEF DropBad
    <2>2. rxb' = [ring EXCEPT ![fill] = b] /\ hand' = NULL /\ held' = held
        BY <1>6, <2>1 DEF DropBad, lpc_rxqueue_pbuf
    <2>3. ring[fill] = NULL
        <3>1. ring \in [Desc -> Pbufs \cup {NULL}]
            BY <1>0
        <3>2. Arc(ring, Inc(consume), (N - free) - 1, fill)
            <4>1. N - free \in 1 .. N /\ Arc(rxb, consume, N - free, fill)
                BY <2>1, RingFacts
            <4> QED BY <1>0, <4>1, ArcRemove
        <3>3. (N - free) - 1 \in 0 .. N - 1 /\ Inc(consume) \in Desc
            BY <2>1, RingFacts
        <3> HIDE DEF ring
        <3> QED BY <2>1, <3>1, <3>2, <3>3, ArcAdd
    <2>4. \A i \in Desc : rxb'[i] = IF i = fill THEN b ELSE IF i = consume THEN NULL ELSE rxb[i]
        BY <1>0, <2>2
    <2>5. \A i \in Desc : i # consume => rxb[i] # b
        BY <1>0, <1>1, <2>1
    <2>6. rxb[fill] = NULL \/ fill = consume
        BY <1>0, <2>3
    <2> HIDE DEF b
    <2>7. \A c \in Pbufs : InRing(c)' <=> InRing(c)
        BY <1>0, <2>1, <2>4, <2>5, <2>6 DEF InRing, b
    <2>8. \A i, j \in Desc : rxb'[i] # NULL /\ rxb'[i] = rxb'[j] => i = j
        BY <1>0, <1>1, <2>1, <2>4, <2>5
    <2> QED BY <1>1, <2>1, <2>2, <2>7, <2>8 DEF OwnedOnce
<1>7. CASE Take
    <2>1. rxb[consume] \in Pbufs /\ hand = NULL
        BY <1>7, DriverFacts, RingFacts DEF Take
    <2>2. rxb' = [rxb EXCEPT ![consume] = NULL] /\ hand' = rxb[consume] /\ held' = held
        BY <1>7 DEF Take
    <2>3. \A c \in Pbufs : InRing(c)' <=> InRing(c) /\ c # rxb[consume]
        BY <1>0, <1>1, <2>1, <2>2 DEF InRing
    <2>4. \A i, j \in Desc : rxb'[i] # NULL /\ rxb'[i] = rxb'[j] => i = j
        BY <1>0, <1>1, <2>2
    <2>5. InRing(rxb[consume])
        BY <1>0 DEF InRing
    <2> QED BY <1>0, <1>1, <2>1, <2>2, <2>3, <2>4, <2>5 DEF OwnedOnce
<1>8. CASE Input
    <2>1. held' = held \ {hand} /\ hand' = NULL /\ rxb' = rxb /\ hand # NULL
        BY <1>8 DEF Input, Release, ringVars, Inv, HandInv
    <2>2. \A c : InRing(c)' <=> InRing(c)
        BY <2>1 DEF InRing
    <2> QED BY <1>0, <1>1, <2>1, <2>2 DEF OwnedOnce
<1> QED BY <1>2, <1>3, <1>4, <1>5, <1>6, <1>7, <1>8 DEF Driver

-----------------------------------------------------------------------------
LEMMA InvInit == Init => Inv
<1> SUFFICES ASSUME Init PROVE Inv
    OBVIOUS
<1>1. TypeOK
    <2>1. prxd \in [Desc -> [buf : Pbufs \cup {NULL}, size : 1 .. SizeMod]]
        BY RxAssumption DEF Init
    <2>2. prxs \in [Desc -> [len : Nat, err : BOOLEAN]]
        BY DEF Init
    <2>3. mem \in [Pbufs -> [fill : Nat, whole : BOOLEAN]]
        BY DEF Init, Blank
    <2>4. plen \in [Pbufs -> 0 .. LenMod - 1]
        BY RxAssumption DEF Init
    <2>5. produce \in Desc /\ consume \in Desc /\ fill \in Desc /\ free \in 0 .. N
        BY Indexes DEF Init
    <2> QED BY <2>1, <2>2, <2>3, <2>4, <2>5 DEF Init, TypeOK
<1>2. RingInv
    <2>1. \A i \in Desc : ~(Dist(0, i) < N - N)
        BY Indexes
    <2> QED BY <2>1, Indexes DEF Init, RingInv, Arc, Start
<1>3. HandInv /\ OwnedOnce /\ CrashOnlyEmpty
    BY RxAssumption DEF Init, HandInv, OwnedOnce, InRing, CrashOnlyEmpty
<1> QED BY <1>1, <1>2, <1>3 DEF Inv

LEMMA InvNext == Inv /\ [Next]_vars => Inv'
<1> SUFFICES ASSUME Inv, [Next]_vars PROVE Inv'
    OBVIOUS
<1>1. CASE Driver
    BY <1>1, DriverType, DriverRing, DriverOwns DEF Inv
<1>2. ASSUME UNCHANGED <<rxb, fill, free, prxd, consume, plen, held, pc, hand, queued>>,
             produce' = produce \/ produce' # consume
      PROVE  RingInv' /\ HandInv' /\ OwnedOnce' /\ CrashOnlyEmpty'
    BY <1>2 DEF Inv, RingInv, Start, HandInv, OwnedOnce, InRing, CrashOnlyEmpty
<1>3. CASE Dma
    BY <1>2, <1>3, DmaType, DmaKeeps DEF Inv
<1>4. CASE UNCHANGED vars
    BY <1>2, <1>4 DEF vars, ringVars, dmaVars, Inv, TypeOK
<1> QED BY <1>1, <1>3, <1>4 DEF Next

\* THEOREM: every variable of the driver and of the DMA engine stays in its type; the
\* indexes in the ring.
THEOREM TypeCorrect == Spec => []TypeOK
<1>1. Inv => TypeOK
    BY DEF Inv
<1> QED BY <1>1, InvInit, InvNext, PTL DEF Spec

\* THEOREM: through failed allocations, dropped frames and overruns, the driver has
\* exactly the pbufs of the ring and the one in its hand, each once.
THEOREM PbufsOwnedOnce == Spec => []OwnedOnce
<1>1. Inv => OwnedOnce
    BY DEF Inv
<1> QED BY <1>1, InvInit, InvNext, PTL DEF Spec

\* THEOREM: lpc_low_level_input uses a NULL pbuf only when a setup of the ring found no
\* memory at all.
THEOREM NullOnlyWithoutMemory == Spec => []CrashOnlyEmpty
<1>1. Inv => CrashOnlyEmpty
    BY DEF Inv
<1> QED BY <1>1, InvInit, InvNext, PTL DEF Spec

\* The descriptors the DMA engine may write are in the arc.
LEMMA RingSafe == Inv => DmaInRing
<1> SUFFICES ASSUME Inv, Enabled, Supplied, NEW i \in Desc, Writable(i)
             PROVE  rxb[i] # NULL /\ prxd[i].buf = rxb[i]
    BY DEF DmaInRing
<1>1. /\ N \in Nat /\ N >= 2 /\ i \in Nat /\ i < N /\ produce \in Nat /\ produce < N
      /\ consume \in Nat /\ consume < N /\ free \in Nat
    BY Indexes DEF Inv, TypeOK, Desc
<1>2. CASE pc \in {"queue", "consume"}
    <2>0. consume # produce
        BY <1>2 DEF Inv, HandInv
    <2>1. i # consume
        BY <1>1, <2>0 DEF Writable, Dist, Inc
    <2>2. Dist(Inc(consume), i) < N - 2
        BY <1>1, <2>0 DEF Writable, Dist, Inc
    <2>3. Dist(Inc(consume), i) < N - 1
        BY <1>1, <2>1 DEF Dist, Inc
    <2>4. Dist(Inc(consume), i) < N - free
        <3>1. Dist(Inc(consume), i) \in Int
            BY <1>1 DEF Dist, Inc
        <3> QED BY <1>1, <1>2, <2>2, <2>3, <3>1 DEF Supplied
    <2> QED BY <1>2, <2>4 DEF Inv, RingInv, Arc, Start
<1>3. CASE pc \notin {"queue", "consume"}
    <2>1. Dist(consume, i) < N - 1
        BY <1>1 DEF Writable, Dist, Inc
    <2>2. Dist(consume, i) < N - free
        BY <1>1, <1>3, <2>1 DEF Supplied, Dist
    <2> QED BY <1>3, <2>2 DEF Inv, RingInv, Arc, Start
<1> QED BY <1>2, <1>3

\* THEOREM: as long as at most one descriptor has no pbuf, the DMA engine, which keeps one
\* descriptor back, only writes to pbufs that are queued.
THEOREM DmaStaysInRing == Spec => []DmaInRing
<1> QED BY RingSafe, InvInit, InvNext, PTL DEF Spec

-----------------------------------------------------------------------------
(***************************************************************************)
(* The frames. Good descriptors are those that hold a frame the driver     *)
(* will take; their fills are later than what lwIP was given, and ordered. *)
(* The invariant needs a supplied ring: otherwise the DMA engine may write *)
(* into the pbuf in the driver's hand.                                     *)
(***************************************************************************)
Pending(i) == Dist(Start, i) < Dist(Start, produce)

Good(i) == Pending(i) /\ rxb[i] # NULL /\ ~prxs[i].err

SupplyInv ==
    /\ pc # "setup" /\ ~starved => free <= (IF pc = "queue" /\ ~queued THEN 2 ELSE 1)
    /\ pc \notin {"setup", "queue"} => ~queued

OrderInv ==
    ~starved =>
        /\ last <= filled
        /\ \A i \in Desc : Good(i) => last < mem[rxb[i]].fill /\ mem[rxb[i]].fill <= filled
        /\ \A i, j \in Desc : Good(i) /\ Good(j) /\ Dist(Start, i) < Dist(Start, j)
                                  => mem[rxb[i]].fill < mem[rxb[j]].fill
        /\ hand # NULL =>
               /\ last < mem[hand].fill /\ mem[hand].fill <= filled
               /\ \A i \in Desc : Good(i) => mem[hand].fill < mem[rxb[i]].fill

WholeInv ==
    \/ requeued \/ starved
    \/ /\ frag = FALSE /\ left <= MaxFlen
       /\ \A i \in Desc : rxb[i] # NULL => prxd[i].size = MaxFlen /\ plen[rxb[i]] = MaxFlen
       /\ \A i \in Desc : Good(i) => mem[rxb[i]].whole
       /\ hand # NULL => mem[hand].whole

LEMMA SupplyNext == ASSUME Inv, SupplyInv, [Next]_vars PROVE SupplyInv'
<1>0. free \in Nat /\ free' \in Nat
    BY InvNext, Indexes DEF Inv, TypeOK
<1>1. CASE Overrun
    BY <1>1 DEF Overrun, SupplyInv
<1>7. CASE SetupDone
    <2>1. free' = free /\ pc' = "loop" /\ ~queued' /\ (free > 1 => starved')
        BY <1>7 DEF SetupDone, ringVars
    <2> QED BY <1>0, <2>1 DEF SupplyInv
<1>2. CASE Allocate
    BY <1>0, <1>2 DEF Allocate, SupplyInv
<1>3. CASE Keep \/ Requeue
    BY <1>0, <1>3 DEF Keep, Requeue, ringVars, SupplyInv
<1>4. CASE DropBad
    BY <1>4 DEF DropBad, SupplyInv
<1>8. CASE Take
    <2>1. /\ pc = "loop" /\ pc' = "queue" /\ free' = free + 1 /\ queued' = queued
          /\ starved' = starved
        BY <1>8 DEF Take
    <2> QED BY <1>0, <2>1 DEF SupplyInv
<1>5. CASE Crash \/ Consume \/ Input
    BY <1>0, <1>5 DEF Crash, Consume, Input, ringVars, SupplyInv
<1>6. CASE Dma \/ UNCHANGED vars
    BY <1>6, DmaKeeps DEF vars, ringVars, SupplyInv
<1> QED BY <1>1, <1>2, <1>3, <1>4, <1>5, <1>6, <1>7, <1>8 DEF Next, Driver

\* A step of the driver that adds no good descriptor.
LEMMA SameFrames ==
    ASSUME OrderInv, WholeInv, UNCHANGED <<filled, last, mem, hand, left, frag>>,
           \A i \in Desc : Good(i)' => Good(i) /\ rxb'[i] = rxb[i],
           \A i, j \in Desc : Good(i)' /\ Good(j)' /\ Dist(Start', i) < Dist(Start', j)
                                  => Dist(Start, i) < Dist(Start, j),
           starved => starved', requeued => requeued',
           requeued' \/ starved' \/
           \A i \in Desc : rxb'[i] # NULL => prxd'[i].size = MaxFlen /\ plen'[rxb'[i]] = MaxFlen
    PROVE  OrderInv' /\ WholeInv'
<1>1. OrderInv'
    BY DEF OrderInv
<1>2. WholeInv'
    BY DEF WholeInv
<1> QED BY <1>1, <1>2

\* The descriptor behind the one consumed is the first pending one afterwards.
LEMMA PendingNext ==
    ASSUME Inv, pc = "loop", consume # produce, Start' = Inc(consume), produce' = produce
    PROVE  /\ \A i \in Desc : Pending(i)' => Pending(i) /\ i # consume
           /\ \A i, j \in Desc : Pending(i)' /\ Pending(j)' /\ Dist(Start', i) < Dist(Start', j)
                                     => Dist(Start, i) < Dist(Start, j)
           /\ Pending(consume)
           /\ \A i \in Desc : i # consume => Dist(Start, consume) < Dist(Start, i)
<1>1. /\ N \in Nat /\ N >= 2 /\ consume \in Nat /\ consume < N /\ produce \in Nat /\ produce < N
      /\ Start = consume /\ consume \in Desc
    <2>1. consume \in Desc /\ produce \in Desc /\ Start = consume
        BY RingFacts DEF Inv, TypeOK
    <2>2. N \in Nat /\ N >= 2
        BY Indexes
    <2> QED BY <2>1, <2>2 DEF Desc
<1>2. ASSUME NEW i \in Desc, Pending(i)' PROVE Pending(i) /\ i # consume
    BY <1>1, <1>2 DEF Pending, Dist, Inc, Desc
<1>3. ASSUME NEW i \in Desc, NEW j \in Desc, Pending(i)', Pending(j)',
             Dist(Start', i) < Dist(Start', j)
      PROVE  Dist(Start, i) < Dist(Start, j)
    <2>1. i # consume /\ j # consume
        BY <1>2, <1>3
    <2> QED BY <1>1, <1>3, <2>1 DEF Dist, Inc, Desc
<1>4. Pending(consume)
    BY <1>1 DEF Pending, Dist
<1>5. \A i \in Desc : i # consume => Dist(Start, consume) < Dist(Start, i)
    BY <1>1 DEF Dist, Desc
<1> QED BY <1>2, <1>3, <1>4, <1>5

LEMMA FullSize == RctrlSize(MaxFlen) = MaxFlen
<1>1. (MaxFlen - 1) % SizeMod = MaxFlen - 1
    BY RxAssumption
<1> QED BY <1>1, RxAssumption DEF RctrlSize

\* Where a pbuf is queued there is no good descriptor.
LEMMA QueueFrames ==
    ASSUME TypeOK, NEW ring \in [Desc -> Pbufs \cup {NULL}], NEW b \in Pbufs, NEW len,
           fill \in Desc, lpc_rxqueue_pbuf(ring, b, len)
    PROVE  /\ prxs'[fill].err
           /\ \A i \in Desc : i # fill => /\ rxb'[i] = ring[i] /\ prxs'[i] = prxs[i]
                                          /\ prxd'[i] = prxd[i]
           /\ rxb'[fill] = b /\ prxd'[fill].size = RctrlSize(len)
BY DEF lpc_rxqueue_pbuf, TypeOK, Stale

LEMMA DriverFrames ==
    ASSUME Inv, Inv', SupplyInv, OrderInv, WholeInv, Driver
    PROVE  OrderInv' /\ WholeInv'
<1>0. /\ TypeOK /\ rxb \in [Desc -> Pbufs \cup {NULL}] /\ NULL \notin Pbufs /\ fill \in Desc
      /\ consume \in Desc
    BY RxAssumption DEF Inv, TypeOK
<1>1. CASE Overrun
    <2>1. /\ \A i \in Desc : rxb'[i] = NULL
          /\ hand' = NULL /\ last' = last /\ filled' = filled /\ starved' = starved
          /\ requeued' = requeued /\ left' = 0 /\ frag' = FALSE
        BY <1>1 DEF Overrun, Inv, HandInv
    <2>2. \A i \in Desc : ~Good(i)'
        BY <2>1 DEF Good
    <2>3. OrderInv'
        BY <2>1, <2>2 DEF OrderInv
    <2>4. WholeInv'
        BY <2>1, <2>2, RxAssumption DEF WholeInv
    <2> QED BY <2>3, <2>4
<1>2. CASE Allocate
    <2>1. PICK b \in Pbufs \ held : /\ plen' = [plen EXCEPT ![b] = MaxFlen]
                                    /\ lpc_rxqueue_pbuf(rxb, b, MaxFlen)
        BY <1>2 DEF Allocate
    <2>2. /\ prxs'[fill].err /\ rxb'[fill] = b /\ prxd'[fill].size = MaxFlen
          /\ \A i \in Desc : i # fill => rxb'[i] = rxb[i] /\ prxs'[i] = prxs[i] /\ prxd'[i] = prxd[i]
        BY <1>0, <2>1, QueueFrames, FullSize
    <2>3. /\ Start' = Start /\ produce' = produce
          /\ UNCHANGED <<filled, last, mem, hand, left, frag, starved, requeued>>
        BY <1>2 DEF Allocate, Start, dmaVars
    <2>4. \A i \in Desc : Good(i)' => Good(i) /\ rxb'[i] = rxb[i]
        BY <2>2, <2>3 DEF Good, Pending
    <2>5. requeued \/ starved \/
          \A i \in Desc : rxb'[i] # NULL => prxd'[i].size = MaxFlen /\ plen'[rxb'[i]] = MaxFlen
        BY <1>0, <2>1, <2>2 DEF WholeInv, TypeOK
    <2> QED BY <2>3, <2>4, <2>5, SameFrames
<1>3. CASE SetupDone \/ Keep \/ Crash \/ Consume
    <2>1. /\ Start' = Start /\ produce' = produce /\ prxs' = prxs
          /\ UNCHANGED <<rxb, prxd, plen, filled, last, mem, hand, left, frag, requeued>>
          /\ (starved => starved')
        <3>1. CASE SetupDone
            BY <3>1 DEF SetupDone, Start, ringVars, dmaVars
        <3>2. CASE Keep
            BY <3>2 DEF Keep, Start, ringVars, dmaVars
        <3>3. CASE Crash
            BY <3>3 DEF Crash, Start, ringVars, dmaVars
        <3>4. CASE Consume
            BY <3>4 DEF Consume, Start, ringVars, dmaVars
        <3> QED BY <1>3, <3>1, <3>2, <3>3, <3>4
    <2>2. \A i \in Desc : Good(i)' => Good(i)
        BY <2>1 DEF Good, Pending
    <2> QED BY <2>1, <2>2, SameFrames DEF WholeInv
<1>4. CASE Requeue
    <2>1. hand \in Pbufs
        BY <1>4, DriverFacts DEF Requeue
    <2>2. /\ prxs'[fill].err
          /\ \A i \in Desc : i # fill => rxb'[i] = rxb[i] /\ prxs'[i] = prxs[i]
        BY <1>0, <1>4, <2>1, QueueFrames DEF Requeue
    <2>3. /\ Start' = Start /\ produce' = produce /\ hand' = NULL /\ requeued'
          /\ UNCHANGED <<filled, last, mem, starved>>
        BY <1>4 DEF Requeue, Start, dmaVars
    <2>4. \A i \in Desc : Good(i)' => Good(i) /\ rxb'[i] = rxb[i]
        BY <2>2, <2>3 DEF Good, Pending
    <2>5. OrderInv'
        BY <2>3, <2>4 DEF OrderInv
    <2> QED BY <2>3, <2>5 DEF WholeInv
<1>5. CASE DropBad
    <2> DEFINE b == rxb[consume]
    <2> DEFINE ring == [rxb EXCEPT ![consume] = NULL]
    <2>1. b \in Pbufs /\ ring \in [Desc -> Pbufs \cup {NULL}]
        BY <1>0, <1>5, DriverFacts DEF DropBad
    <2>2. lpc_rxqueue_pbuf(ring, b, plen[b])
        BY <1>5 DEF DropBad
    <2>3. /\ prxs'[fill].err /\ rxb'[fill] = b /\ prxd'[fill].size = RctrlSize(plen[b])
          /\ \A i \in Desc : i # fill => rxb'[i] = ring[i] /\ prxs'[i] = prxs[i]
                                         /\ prxd'[i] = prxd[i]
        BY <1>0, <2>1, <2>2, QueueFrames
    <2>4. /\ Start' = Inc(consume) /\ produce' = produce /\ pc = "loop" /\ consume # produce
          /\ UNCHANGED <<plen, filled, last, mem, hand, left, frag, starved, requeued>>
        BY <1>5, RingFacts DEF DropBad, Start, dmaVars
    <2>5. \A i \in Desc : Good(i)' => Good(i) /\ rxb'[i] = rxb[i] /\ Pending(i)'
        <3> TAKE i \in Desc
        <3> HAVE Good(i)'
        <3>1. i # fill /\ i # consume /\ Pending(i)
            <4>1. i # fill
                BY <2>3 DEF Good
            <4> QED BY <2>4, <4>1, PendingNext DEF Good
        <3>2. rxb'[i] = rxb[i] /\ prxs'[i] = prxs[i]
            BY <1>0, <2>3, <3>1
        <3> QED BY <3>1, <3>2 DEF Good
    <2>6. \A i, j \in Desc : Good(i)' /\ Good(j)' /\ Dist(Start', i) < Dist(Start', j)
                                 => Dist(Start, i) < Dist(Start, j)
        BY <2>4, <2>5, PendingNext
    <2>7. requeued \/ starved \/
          \A i \in Desc : rxb'[i] # NULL => prxd'[i].size = MaxFlen /\ plen'[rxb'[i]] = MaxFlen
        <3> SUFFICES ASSUME ~requeued, ~starved, NEW i \in Desc, rxb'[i] # NULL
                     PROVE  prxd'[i].size = MaxFlen /\ plen'[rxb'[i]] = MaxFlen
            OBVIOUS
        <3>1. plen[b] = MaxFlen
            BY <1>0, <2>1 DEF WholeInv
        <3>2. CASE i = fill
            BY <2>3, <2>4, <3>1, <3>2, FullSize
        <3>3. CASE i # fill
            <4>1. rxb'[i] = rxb[i]
                BY <1>0, <2>3, <3>3
            <4> QED BY <2>3, <2>4, <3>3, <4>1 DEF WholeInv
        <3> QED BY <3>2, <3>3
    <2> HIDE DEF ring, b
    <2> QED BY <2>4, <2>5, <2>6, <2>7, SameFrames
<1>6. CASE Take
    <2>1. rxb[consume] \in Pbufs /\ hand = NULL
        BY <1>6, DriverFacts, RingFacts DEF Take
    <2>2. /\ Start' = Inc(consume) /\ produce' = produce /\ pc = "loop" /\ consume # produce
          /\ hand' = rxb[consume] /\ rxb' = [rxb EXCEPT ![consume] = NULL]
          /\ \A b \in Pbufs : b # rxb[consume] => plen'[b] = plen[b]
          /\ UNCHANGED <<prxs, prxd, filled, last, mem, left, frag, starved, requeued>>
        BY <1>6 DEF Take, Start, dmaVars, Inv, TypeOK
    <2>3. Good(consume)
        BY <1>6, <2>1, <2>2, PendingNext, RxAssumption DEF Good, Take
    <2>4. \A i \in Desc : Good(i)' => Good(i) /\ rxb'[i] = rxb[i] /\ Pending(i)' /\ i # consume
        BY <1>0, <2>2, PendingNext DEF Good
    <2>5. \A i, j \in Desc : Good(i)' /\ Good(j)' /\ Dist(Start', i) < Dist(Start', j)
                                 => Dist(Start, i) < Dist(Start, j)
        BY <2>2, <2>4, PendingNext
    <2>6. \A i \in Desc : Good(i)' => Dist(Start, consume) < Dist(Start, i)
        BY <2>2, <2>4, PendingNext
    <2>7. OrderInv'
        BY <1>0, <2>2, <2>3, <2>4, <2>5, <2>6 DEF OrderInv
    <2>8. WholeInv'
        <3> SUFFICES ASSUME ~requeued, ~starved PROVE WholeInv'
            BY <2>2 DEF WholeInv
        <3>1. \A i \in Desc : rxb'[i] # NULL =>
                  i # consume /\ rxb'[i] = rxb[i] /\ rxb[i] \in Pbufs /\ rxb[i] # rxb[consume]
            BY <1>0, <2>2 DEF Inv, OwnedOnce
        <3> QED BY <1>0, <2>2, <2>3, <2>4, <3>1 DEF WholeInv
    <2> QED BY <2>7, <2>8
<1>7. CASE Input
    <2>1. /\ hand \in Pbufs /\ hand' = NULL /\ last' = mem[hand].fill /\ Start' = Start
          /\ \A b \in Pbufs \ {hand} : mem'[b] = mem[b] /\ plen'[b] = plen[b]
          /\ UNCHANGED <<rxb, prxs, prxd, produce, filled, left, frag, starved, requeued>>
        BY <1>7 DEF Input, Release, Start, ringVars, Inv, HandInv, TypeOK
    <2>2. \A i \in Desc : Good(i)' => Good(i) /\ rxb[i] \in Pbufs \ {hand}
        BY <1>0, <2>1 DEF Good, Pending, Inv, OwnedOnce, InRing
    <2>3. OrderInv'
        BY <1>0, <2>1, <2>2 DEF OrderInv
    <2>4. \A i \in Desc : rxb'[i] # NULL => rxb[i] \in Pbufs \ {hand}
        BY <1>0, <2>1 DEF Inv, OwnedOnce, InRing
    <2>5. WholeInv'
        BY <1>0, <2>1, <2>2, <2>4 DEF WholeInv
    <2> QED BY <2>3, <2>5
<1> QED BY <1>1, <1>2, <1>3, <1>4, <1>5, <1>6, <1>7 DEF Driver

\* Where the DMA engine writes next, in a supplied ring.
LEMMA WriteNext ==
    ASSUME Inv, SupplyInv, ~starved, Enabled, ~Full
    PROVE  /\ rxb[produce] \in Pbufs /\ prxd[produce].buf = rxb[produce]
           /\ rxb[produce] \in held /\ rxb[produce] # hand
           /\ \A i \in Desc : i # produce => rxb[i] # rxb[produce]
           /\ Dist(Start, Inc(produce)) = Dist(Start, produce) + 1
<1>1. /\ N \in Nat /\ N >= 2 /\ produce \in Desc /\ consume \in Desc /\ free \in Nat
      /\ Inc(produce) # consume
    BY Indexes DEF Inv, TypeOK, Full
<1>2. Writable(produce)
    BY <1>1 DEF Writable, Dist, Inc, Desc
<1>3. Supplied
    BY <1>1 DEF SupplyInv, Enabled, Supplied
<1>4. rxb[produce] # NULL /\ prxd[produce].buf = rxb[produce]
    BY <1>1, <1>2, <1>3, RingSafe DEF DmaInRing
<1>5. Dist(Start, Inc(produce)) = Dist(Start, produce) + 1
    <2>1. CASE pc \in {"queue", "consume"}
        <3>1. consume # produce /\ Start = Inc(consume)
            BY <2>1 DEF Inv, HandInv, Start
        <3> QED BY <1>1, <3>1 DEF Dist, Inc, Desc
    <2>2. CASE pc \notin {"queue", "consume"}
        BY <1>1, <2>2 DEF Start, Dist, Inc, Desc
    <2> QED BY <2>1, <2>2
<1>6. rxb[produce] \in Pbufs
    BY <1>1, <1>4 DEF Inv, TypeOK
<1> QED BY <1>1, <1>4, <1>5, <1>6 DEF Inv, OwnedOnce, InRing

LEMMA FillFrames ==
    ASSUME Inv, SupplyInv, OrderInv, WholeInv, Fill
    PROVE  OrderInv' /\ WholeInv'
<1> DEFINE d == prxd[produce]
<1> DEFINE n == Least(left, d.size)
<1> DEFINE w == ~frag /\ n = left
<1>0. /\ rxb \in [Desc -> Pbufs \cup {NULL}] /\ NULL \notin Pbufs /\ produce \in Desc
      /\ mem \in [Pbufs -> [fill : Nat, whole : BOOLEAN]] /\ filled \in Nat /\ last \in Nat
      /\ left \in Nat /\ N \in Nat /\ Start \in Desc /\ hand \in Pbufs \cup {NULL}
      /\ prxs \in [Desc -> [len : Nat, err : BOOLEAN]]
    BY RxAssumption, RingFacts DEF Inv, TypeOK
<1>1. /\ UNCHANGED <<rxb, fill, free, prxd, consume, plen, held, pc, hand, last, requeued, starved>>
      /\ Enabled /\ ~Full /\ produce' = Inc(produce) /\ filled' = filled + 1
      /\ left' = left - n /\ frag' = (n < left)
      /\ \A i \in Desc : i # produce => prxs'[i] = prxs[i]
    BY <1>0 DEF Fill
<1> SUFFICES ASSUME ~starved PROVE OrderInv' /\ WholeInv'
    BY <1>1 DEF OrderInv, WholeInv
<1> DEFINE b == rxb[produce]
<1>2. /\ b \in Pbufs /\ d.buf = b /\ b \in held /\ b # hand
      /\ \A i \in Desc : i # produce => rxb[i] # b
      /\ Dist(Start, Inc(produce)) = Dist(Start, produce) + 1
    BY <1>1, WriteNext
<1>3. mem' = [mem EXCEPT ![b] = [fill |-> filled + 1, whole |-> w]]
    BY <1>2 DEF Fill
<1>4. mem'[b].fill = filled + 1 /\ mem'[b].whole = w
    BY <1>0, <1>2, <1>3
<1>5. \A c \in Pbufs : c # b => mem'[c] = mem[c]
    BY <1>0, <1>3
<1>6. Start' = Start /\ \A i, j \in Desc : Dist(i, j) \in Nat
    BY <1>1, Indexes DEF Start
<1>7. \A i \in Desc : Good(i)' /\ i # produce => Good(i) /\ rxb[i] \in Pbufs /\ rxb[i] # b
    <2> TAKE i \in Desc
    <2> HAVE Good(i)' /\ i # produce
    <2>1. Dist(Start, i) # Dist(Start, produce)
        BY <1>0 DEF Dist, Desc
    <2>2. Dist(Start, i) \in Nat /\ Dist(Start, produce) \in Nat
        BY <1>0, <1>6
    <2>3. Dist(Start, i) < Dist(Start, Inc(produce))
        BY <1>1, <1>6 DEF Good, Pending
    <2>4. Pending(i)
        BY <1>2, <2>1, <2>2, <2>3 DEF Pending
    <2> QED BY <1>0, <1>1, <1>2, <2>4 DEF Good
<1>8. \A i \in Desc : Good(i) => Dist(Start, i) < Dist(Start, produce)
    BY DEF Good, Pending
<1> HIDE DEF b, d, n, w
<1>9. /\ last <= filled
      /\ \A i \in Desc : Good(i) => last < mem[rxb[i]].fill /\ mem[rxb[i]].fill <= filled
      /\ \A i, j \in Desc : Good(i) /\ Good(j) /\ Dist(Start, i) < Dist(Start, j)
                                => mem[rxb[i]].fill < mem[rxb[j]].fill
      /\ hand # NULL =>
             /\ last < mem[hand].fill /\ mem[hand].fill <= filled
             /\ \A i \in Desc : Good(i) => mem[hand].fill < mem[rxb[i]].fill
    BY DEF OrderInv
<1>10. \A i \in Desc : Good(i)' /\ i # produce => mem'[rxb[i]] = mem[rxb[i]]
    BY <1>5, <1>7
<1>11. hand # NULL => mem'[hand] = mem[hand] /\ mem[hand].fill \in Nat
    BY <1>0, <1>2, <1>5
<1>12. \A i \in Desc : Good(i) => mem[rxb[i]].fill \in Nat
    BY <1>0 DEF Good
<1>13. rxb[produce] = b
    BY DEF b
<1>14. OrderInv'
    <2>1. last' <= filled'
        BY <1>0, <1>1, <1>9
    <2>2. ASSUME NEW i \in Desc, Good(i)'
          PROVE  last' < mem'[rxb'[i]].fill /\ mem'[rxb'[i]].fill <= filled'
        <3>1. CASE i = produce
            BY <1>0, <1>1, <1>4, <1>9, <1>13, <3>1
        <3>2. CASE i # produce
            BY <1>0, <1>1, <1>7, <1>9, <1>10, <1>12, <2>2, <3>2
        <3> QED BY <3>1, <3>2
    <2>3. ASSUME NEW i \in Desc, NEW j \in Desc, Good(i)', Good(j)',
                 Dist(Start', i) < Dist(Start', j)
          PROVE  mem'[rxb'[i]].fill < mem'[rxb'[j]].fill
        <3>1. CASE j = produce
            <4>1. i # produce
                <5>1. Dist(Start, i) \in Nat /\ Dist(Start, i) < Dist(Start, j)
                    BY <1>0, <1>6, <2>3
                <5> QED BY <3>1, <5>1
            <4>2. mem'[rxb'[i]].fill \in Nat /\ mem'[rxb'[i]].fill <= filled
                BY <1>1, <1>7, <1>9, <1>10, <1>12, <2>3, <4>1
            <4> QED BY <1>0, <1>1, <1>4, <1>13, <3>1, <4>2
        <3>2. CASE j # produce
            <4>1. i # produce
                <5>1. Dist(Start, j) < Dist(Start, produce)
                    BY <1>7, <1>8, <2>3, <3>2
                <5>2. /\ Dist(Start, i) < Dist(Start, j) /\ Dist(Start, i) \in Nat
                      /\ Dist(Start, j) \in Nat /\ Dist(Start, produce) \in Nat
                    BY <1>0, <1>6, <2>3
                <5> QED BY <5>1, <5>2
            <4> QED BY <1>1, <1>6, <1>7, <1>9, <1>10, <2>3, <3>2, <4>1
        <3> QED BY <3>1, <3>2
    <2>4. ASSUME hand' # NULL
          PROVE  /\ last' < mem'[hand'].fill /\ mem'[hand'].fill <= filled'
                 /\ \A i \in Desc : Good(i)' => mem'[hand'].fill < mem'[rxb'[i]].fill
        <3>1. last' < mem'[hand'].fill /\ mem'[hand'].fill <= filled'
            BY <1>0, <1>1, <1>9, <1>11, <2>4
        <3>2. ASSUME NEW i \in Desc, Good(i)' PROVE mem'[hand'].fill < mem'[rxb'[i]].fill
            <4>1. CASE i = produce
                BY <1>0, <1>1, <1>4, <1>9, <1>11, <1>13, <2>4, <4>1
            <4>2. CASE i # produce
                BY <1>1, <1>7, <1>9, <1>10, <1>11, <2>4, <3>2, <4>2
            <4> QED BY <4>1, <4>2
        <3> QED BY <3>1, <3>2
    <2> QED BY <2>1, <2>2, <2>3, <2>4 DEF OrderInv
<1>15. WholeInv'
    <2> SUFFICES ASSUME ~requeued PROVE WholeInv'
        BY <1>1 DEF WholeInv
    <2>1. d.size = MaxFlen /\ left <= MaxFlen /\ frag = FALSE
        BY <1>2, <1>0, <1>13 DEF WholeInv, d
    <2>2. n = left /\ w
        BY <1>0, <2>1, RxAssumption DEF n, w, Least
    <2>3. frag' = FALSE /\ left' = 0 /\ left' <= MaxFlen
        <3>1. 0 <= MaxFlen /\ ~(left < left) /\ left - left = 0
            BY <1>0, RxAssumption
        <3>2. left' = 0
            BY <1>1, <2>2, <3>1
        <3>3. (n < left) = FALSE
            BY <2>2, <3>1
        <3>4. frag' = FALSE
            BY <1>1, <3>3, Zenon
        <3> QED BY <3>1, <3>2, <3>4
    <2>4. \A i \in Desc : Good(i)' => mem'[rxb'[i]].whole
        BY <1>1, <1>4, <1>7, <1>10, <1>13, <2>2 DEF WholeInv
    <2>5. hand' # NULL => mem'[hand'].whole
        BY <1>1, <1>11 DEF WholeInv
    <2> QED BY <1>1, <2>3, <2>4, <2>5 DEF WholeInv
<1> QED BY <1>14, <1>15

FrameInv == SupplyInv /\ OrderInv /\ WholeInv

LEMMA FrameNext == Inv /\ FrameInv /\ [Next]_vars => FrameInv'
<1> SUFFICES ASSUME Inv, FrameInv, [Next]_vars PROVE FrameInv'
    OBVIOUS
<1>0. Inv' /\ SupplyInv'
    BY InvNext, SupplyNext DEF FrameInv
<1>1. CASE Driver
    BY <1>0, <1>1, DriverFrames DEF FrameInv
<1>2. CASE Fill
    BY <1>0, <1>2, FillFrames DEF FrameInv
<1>3. CASE Arrive \/ Lose \/ UNCHANGED vars
    <2>1. /\ UNCHANGED <<rxb, prxd, prxs, plen, produce, consume, pc, filled, last, mem, hand,
                         starved, requeued>>
          /\ left' = left \/ left' <= MaxFlen
          /\ frag' = frag \/ frag' = FALSE
        <3>1. CASE Arrive
            BY <3>1, RxAssumption DEF Arrive, ringVars
        <3>2. CASE Lose
            BY <3>2, RxAssumption DEF Lose, ringVars
        <3>3. CASE UNCHANGED vars
            BY <3>3 DEF vars, ringVars, dmaVars
        <3> QED BY <1>3, <3>1, <3>2, <3>3
    <2>2. Start' = Start /\ \A i : Good(i)' <=> Good(i)
        BY <2>1 DEF Start, Good, Pending
    <2>3. OrderInv' /\ WholeInv'
        BY <2>1, <2>2 DEF FrameInv, OrderInv, WholeInv
    <2> QED BY <1>0, <2>3 DEF FrameInv
<1> QED BY <1>1, <1>2, <1>3 DEF Next, Dma

LEMMA FrameInit == Init => FrameInv
<1> SUFFICES ASSUME Init PROVE FrameInv
    OBVIOUS
<1>1. \A i \in Desc : rxb[i] = NULL /\ ~Good(i)
    BY DEF Init, Good
<1> QED BY <1>1, RxAssumption DEF Init, FrameInv, SupplyInv, OrderInv, WholeInv

\* THEOREM: lwIP is given frames in the order in which they were received, each once, and
\* never what a pbuf held before it was queued, across overruns that reset the ring and
\* frames that were dropped.
THEOREM FramesInOrder == Spec => []InOrder
<1>1. Inv /\ FrameInv => InOrder
    BY DEF Inv, HandInv, FrameInv, OrderInv, InOrder
<1> QED BY <1>1, InvInit, InvNext, FrameInit, FrameNext, PTL DEF Spec

\* THEOREM: until a pbuf has to be put back for want of memory, every frame that lwIP is
\* given is whole, and every queued buffer is announced in its full size.
THEOREM FramesAreWhole == Spec => []BuffersWhole
<1>1. Inv /\ FrameInv => BuffersWhole
    BY DEF Inv, HandInv, FrameInv, WholeInv, BuffersWhole, WholeFrames
<1> QED BY <1>1, InvInit, InvNext, FrameInit, FrameNext, PTL DEF Spec
=============================================================================
