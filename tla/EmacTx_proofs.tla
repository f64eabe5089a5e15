---------------------------- MODULE EmacTx_proofs ----------------------------
(***************************************************************************)
(* Proofs about the transmit side of the Ethernet driver, for a ring of    *)
(* any size and frames of any number of pbufs that fits it:                *)
(*   TypeCorrect    the type invariant;                                    *)
(*   SentInOrder    the engine sends what was filled, once and in order;   *)
(*   PbufsAreKept   no pbuf is freed before it was sent, as long as no     *)
(*                  frame had to wait for descriptors to be reclaimed.     *)
(***************************************************************************)
EXTENDS EmacTx, TLAPS

USE TxAssumption DEF NULL

\* Ring arithmetic. FillDescNum counts the descriptors from c to before p.
LEMMA FillRange ==
    ASSUME NEW p \in Desc, NEW c \in Desc
    PROVE  /\ FillDescNum(p, c) \in 0 .. N - 1
           /\ FillDescNum(p, c) = 0 <=> p = c
           /\ FreeDescNum(p, c) = N - 1 - FillDescNum(p, c)
BY DEF FillDescNum, FreeDescNum, Desc

\* Producing one more adds one to the count, as long as the ring has a free descriptor.
LEMMA FillInc ==
    ASSUME NEW p \in Desc, NEW c \in Desc
    PROVE  /\ Inc(p) \in Desc
           /\ FillDescNum(p, c) < N - 1 => FillDescNum(Inc(p), c) = FillDescNum(p, c) + 1
           /\ p # c => FillDescNum(p, Inc(c)) = FillDescNum(p, c) - 1
BY DEF FillDescNum, Inc, Desc

\* Two descriptors at the same distance from c are the same.
LEMMA FillInjective ==
    ASSUME NEW p \in Desc, NEW q \in Desc, NEW c \in Desc,
           FillDescNum(p, c) = FillDescNum(q, c)
    PROVE  p = q
BY DEF FillDescNum, Desc

\* Distances from an index further along the ring.
LEMMA FillShift ==
    ASSUME NEW i \in Desc, NEW c \in Desc, NEW l \in Desc
    PROVE  /\ FillDescNum(i, l) >= FillDescNum(c, l)
                 => FillDescNum(i, c) = FillDescNum(i, l) - FillDescNum(c, l)
           /\ FillDescNum(i, l) < FillDescNum(c, l)
                 => FillDescNum(i, c) = N + FillDescNum(i, l) - FillDescNum(c, l)
BY DEF FillDescNum, Desc

-----------------------------------------------------------------------------
LEMMA InitType == Init => TypeOK
<1> SUFFICES ASSUME Init PROVE TypeOK
    OBVIOUS
<1>1. 0 \in Desc /\ 0 \in 0 .. MaxParts
    BY DEF Desc
<1> QED BY <1>1 DEF Init, TypeOK

LEMMA StepType == TypeOK /\ OrderInv /\ [Next]_vars => TypeOK'
<1> SUFFICES ASSUME TypeOK, OrderInv, [Next]_vars PROVE TypeOK'
    OBVIOUS
<1> USE DEF TypeOK
<1>1. CASE Output
    <2>1. \A n \in 1 .. MaxParts : Queue(n) => dn' \in 0 .. MaxParts /\ pc' = "wait" /\ crowded' \in BOOLEAN
        BY DEF Queue
    <2>2. \/ dn' \in 0 .. MaxParts /\ pc' = "wait" /\ crowded' \in BOOLEAN
          \/ UNCHANGED <<dn, pc, crowded>>
        BY <1>1, <2>1 DEF Output
    <2>3. held' \subseteq Nat \ {NULL}
        <3>1. held' = held \/ held' = held \cup {frame + 1}
            BY <1>1 DEF Output
        <3>2. frame + 1 \in Nat \ {NULL}
            OBVIOUS
        <3> QED BY <3>1, <3>2
    <2>4. frame' = frame + 1 /\ UNCHANGED <<ringVars, put, sent>>
        BY <1>1 DEF Output
    <2> QED BY <2>2, <2>3, <2>4 DEF ringVars
<1>2. CASE Ready
    <2>1. frame \in Nat \ {NULL}
        BY <1>2 DEF Ready, OrderInv
    <2>2. held' \subseteq Nat \ {NULL}
        BY <1>2, <2>1 DEF Ready
    <2> QED BY <1>2, <2>2 DEF Ready, ringVars
<1>3. CASE FillDescriptor
    <2>1. dn # 0
        BY <1>3 DEF FillDescriptor, OrderInv
    <2>2. Inc(produce) \in Desc
        BY FillInc
    <2>3. dn - 1 \in 0 .. MaxParts
        BY <2>1
    <2>4. [frame |-> frame, number |-> put] \in [frame : Nat, number : Nat]
        OBVIOUS
    <2> QED BY <1>3, <2>2, <2>3, <2>4 DEF FillDescriptor
<1>4. CASE Reclaim
    <2>1. txb' \in [Desc -> Nat]
        BY <1>4 DEF Reclaim
    <2> QED BY <1>4, <2>1 DEF Reclaim
<1>5. CASE Transmit
    <2>1. Inc(consume) \in Desc
        BY FillInc
    <2> QED BY <1>5, <2>1 DEF Transmit
<1>6. CASE UNCHANGED vars
    BY <1>6 DEF vars, ringVars
<1> QED BY <1>1, <1>2, <1>3, <1>4, <1>5, <1>6 DEF Next

-----------------------------------------------------------------------------
LEMMA InitOrder == Init => OrderInv
BY DEF Init, OrderInv, Desc, FillDescNum, Pending

LEMMA StepOrder == TypeOK /\ OrderInv /\ [Next]_vars => OrderInv'
<1> SUFFICES ASSUME TypeOK, OrderInv, [Next]_vars PROVE OrderInv'
    OBVIOUS
<1>t. TypeOK'
    BY StepType
<1> USE DEF TypeOK
\* Only the descriptors between the indexes and the numbers matter.
<1>a. ASSUME UNCHANGED <<produce, consume, ptxd, put, sent>>
      PROVE  /\ put' - sent' = FillDescNum(produce', consume')
             /\ \A i \in Desc : Pending(i)' => ptxd'[i].number = sent' + FillDescNum(i, consume')
    BY <1>a DEF OrderInv, Pending
<1>1. CASE Output
    <2>1. UNCHANGED <<produce, consume, ptxd, put, sent>>
        BY <1>1 DEF Output, ringVars
    <2>2. \/ pc' = "wait" /\ dn' \in 1 .. MaxParts
          \/ UNCHANGED <<pc, dn>> /\ pc = "loop"
        BY <1>1 DEF Output, Queue
    <2>3. frame' # NULL
        BY <1>1 DEF Output
    <2> QED BY <1>a, <2>1, <2>2, <2>3 DEF OrderInv
<1>2. CASE Ready
    <2>1. UNCHANGED <<produce, consume, ptxd, put, sent>>
        BY <1>2 DEF Ready, ringVars
    <2>2. pc' = "fill" /\ frame' # NULL /\ dn' = dn /\ dn # 0 /\ dn' <= FreeDescNum(produce', consume')
        BY <1>2, <2>1 DEF Ready, OrderInv, lpc_tx_ready
    <2> QED BY <1>a, <2>1, <2>2 DEF OrderInv
<1>3. CASE FillDescriptor
    <2>1. dn \in 1 .. MaxParts /\ dn <= FreeDescNum(produce, consume)
        BY <1>3 DEF FillDescriptor, OrderInv
    <2> DEFINE fill == FillDescNum(produce, consume)
    <2>2. fill \in 0 .. N - 2
        BY <2>1, FillRange
    <2>3. FillDescNum(produce', consume') = fill + 1
        BY <1>3, <2>2, FillInc DEF FillDescriptor
    <2>4. pc' = "fill" => dn' <= FreeDescNum(produce', consume')
        BY <1>3, <1>t, <2>1, <2>3, FillRange DEF FillDescriptor
    <2>5. (pc' = "loop" <=> dn' = 0) /\ (pc' # "loop" => frame' # NULL)
        BY <1>3, <2>1 DEF FillDescriptor, OrderInv
    <2>6. put' - sent' = FillDescNum(produce', consume')
        BY <1>3, <2>3 DEF FillDescriptor, OrderInv
    <2>7. ASSUME NEW i \in Desc, Pending(i)'
          PROVE  ptxd'[i].number = sent' + FillDescNum(i, consume')
        <3>1. FillDescNum(i, consume) \in 0 .. N - 1 /\ FillDescNum(i, consume) < fill + 1
            BY <1>3, <2>3, <2>7, FillRange DEF Pending, FillDescriptor
        <3>2. CASE i = produce
            <4>1. ptxd'[i].number = put
                BY <1>3, <3>2 DEF FillDescriptor
            <4>2. put = sent + FillDescNum(i, consume)
                BY <2>2, <3>2 DEF OrderInv
            <4> QED BY <1>3, <4>1, <4>2 DEF FillDescriptor
        <3>3. CASE i # produce
            <4>1. FillDescNum(i, consume) # fill
                BY <3>3, FillInjective
            <4>2. FillDescNum(i, consume) < fill
                <5>1. \A d, f \in Int : d < f + 1 /\ d # f => d < f
                    OBVIOUS
                <5> HIDE DEF fill
                <5> QED BY <2>2, <3>1, <4>1, <5>1
            <4>3. Pending(i)
                BY <4>2 DEF Pending
            <4>4. ptxd'[i] = ptxd[i]
                BY <1>3, <3>3 DEF FillDescriptor
            <4> QED BY <1>3, <4>3, <4>4 DEF FillDescriptor, OrderInv
        <3> QED BY <3>2, <3>3
    <2> QED BY <2>4, <2>5, <2>6, <2>7 DEF OrderInv
<1>4. CASE Reclaim
    <2>1. UNCHANGED <<produce, consume, ptxd, put, sent, pc, dn, frame>>
        BY <1>4 DEF Reclaim
    <2> QED BY <1>a, <2>1 DEF OrderInv
<1>5. CASE Transmit
    <2> DEFINE fill == FillDescNum(produce, consume)
    <2>1. fill \in 1 .. N - 1
        BY <1>5, FillRange DEF Transmit
    <2>2. FillDescNum(produce', consume') = fill - 1
        BY <1>5, FillInc DEF Transmit
    <2>3. FreeDescNum(produce', consume') >= FreeDescNum(produce, consume)
        BY <1>t, <2>1, <2>2, FillRange
    <2>4. pc' = "fill" => dn' <= FreeDescNum(produce', consume')
        BY <1>5, <1>t, <2>1, <2>2, FillRange DEF Transmit, OrderInv
    <2>5. (pc' = "loop" <=> dn' = 0) /\ (pc' # "loop" => frame' # NULL)
        BY <1>5 DEF Transmit, OrderInv
    <2>6. put' - sent' = FillDescNum(produce', consume')
        BY <1>5, <2>2 DEF Transmit, OrderInv
    <2>7. ASSUME NEW i \in Desc, Pending(i)'
          PROVE  ptxd'[i].number = sent' + FillDescNum(i, consume')
        <3>1. FillDescNum(i, consume') < fill - 1
            BY <2>2, <2>7 DEF Pending
        <3>2. i # consume
            \* the descriptor just sent is now furthest from consume
            <4>1. SUFFICES FillDescNum(consume, Inc(consume)) = N - 1
                BY <1>5, <2>1, <3>1 DEF Transmit
            <4> QED BY DEF FillDescNum, Inc, Desc
        <3>3. FillDescNum(i, consume') = FillDescNum(i, consume) - 1
            BY <1>5, <3>2, FillInc DEF Transmit
        <3>4. FillDescNum(i, consume) \in 0 .. N - 1
            BY FillRange
        <3>5. Pending(i)
            BY <2>1, <3>1, <3>3, <3>4 DEF Pending
        <3>6. ptxd[i].number = sent + FillDescNum(i, consume)
            BY <3>5 DEF OrderInv
        <3> QED BY <1>5, <3>3, <3>4, <3>6 DEF Transmit
    <2> QED BY <2>4, <2>5, <2>6, <2>7 DEF OrderInv
<1>6. CASE UNCHANGED vars
    <2>1. UNCHANGED <<produce, consume, ptxd, put, sent, pc, dn, frame>>
        BY <1>6 DEF vars, ringVars
    <2> QED BY <1>a, <2>1 DEF OrderInv
<1> QED BY <1>1, <1>2, <1>3, <1>4, <1>5, <1>6 DEF Next

LEMMA OrderIsInvariant == Spec => [](TypeOK /\ OrderInv)
<1>1. Init => TypeOK /\ OrderInv
    BY InitType, InitOrder
<1>2. TypeOK /\ OrderInv /\ [Next]_vars => (TypeOK /\ OrderInv)'
    BY StepType, StepOrder
<1> QED BY <1>1, <1>2, PTL DEF Spec

\* The variables of the driver keep their types: the indexes stay inside the ring.
THEOREM TypeCorrect == Spec => []TypeOK
BY OrderIsInvariant, PTL

\* The DMA engine sends exactly what lpc_low_level_output filled in, in order, for
\* every size of ring: a descriptor is never overwritten before it was sent.
THEOREM SentInOrder == Spec => []InOrder
<1>1. TypeOK /\ OrderInv => InOrder
    <2> SUFFICES ASSUME TypeOK, OrderInv, consume # produce PROVE ptxd[consume].number = sent
        BY DEF InOrder
    <2>1. FillDescNum(consume, consume) = 0 /\ FillDescNum(produce, consume) \in 1 .. N - 1
        BY FillRange DEF TypeOK
    <2>2. Pending(consume) /\ consume \in Desc
        BY <2>1 DEF Pending, TypeOK
    <2> QED BY <2>1, <2>2 DEF OrderInv, TypeOK
<1> QED BY <1>1, OrderIsInvariant, PTL

-----------------------------------------------------------------------------
LEMMA InitKept == Init => KeptInv
<1> SUFFICES ASSUME Init PROVE KeptInv
    OBVIOUS
<1>1. 0 \in Desc /\ FillDescNum(0, 0) = 0
    BY DEF Desc, FillDescNum
<1>2. \A i \in Desc : ~Unreclaimed(i) /\ ~Pending(i)
    BY <1>1, FillRange DEF Init, Unreclaimed, Pending
<1> QED BY <1>1, <1>2 DEF Init, KeptInv, KeptUntilSent

\* What was filled and not sent is part of what was filled and not reclaimed, and it
\* is further along the ring than what was sent and not reclaimed.
LEMMA PendingPart ==
    ASSUME TypeOK, KeptInv, NEW i \in Desc
    PROVE  Pending(i) <=> (Unreclaimed(i) /\ FillDescNum(i, last) >= FillDescNum(consume, last))
<1> DEFINE o == FillDescNum(i, last)
           c == FillDescNum(consume, last)
           p == FillDescNum(produce, last)
<1>1. o \in 0 .. N - 1 /\ c \in 0 .. N - 1 /\ p \in 0 .. N - 1 /\ c <= p
    BY FillRange DEF TypeOK, KeptInv
<1>2. FillDescNum(produce, consume) = p - c
    BY <1>1, FillShift DEF TypeOK
<1>3. /\ o >= c => FillDescNum(i, consume) = o - c
      /\ o < c => FillDescNum(i, consume) = N + o - c
    BY FillShift DEF TypeOK
<1>4. Pending(i) <=> FillDescNum(i, consume) < p - c
    BY <1>2 DEF Pending
<1>5. Unreclaimed(i) <=> o < p
    BY DEF Unreclaimed
<1>6. Pending(i) <=> (Unreclaimed(i) /\ o >= c)
    <2> HIDE DEF o, c, p
    <2> QED BY <1>1, <1>3, <1>4, <1>5
<1> QED BY <1>6

\* Once the ring was crowded it counts as crowded for good.
LEMMA StepCrowded == crowded /\ [Next]_vars => crowded'
BY DEF Next, vars, Output, Queue, Ready, FillDescriptor, Reclaim, Transmit

\* What each step of the driver and the engine does to KeptInv.
LEMMA TransmitKept == TypeOK /\ OrderInv /\ KeptInv /\ Transmit => KeptInv'
<1> SUFFICES ASSUME TypeOK, OrderInv, KeptInv, Transmit PROVE KeptInv'
    OBVIOUS
<1> USE DEF TypeOK
<1>1. UNCHANGED <<produce, last, txb, ptxd, held, pc, frame, dn>> /\ consume' = Inc(consume)
    BY DEF Transmit
<1> DEFINE c == FillDescNum(consume, last)
           p == FillDescNum(produce, last)
<1>2. c \in 0 .. N - 1 /\ p \in 0 .. N - 1 /\ c <= p /\ c # p
    BY FillRange, FillInjective DEF KeptInv, Transmit
<1>3. FillDescNum(consume', last') = c + 1
    BY <1>1, <1>2, FillInc
<1>4. FillDescNum(consume', last') <= FillDescNum(produce', last')
    BY <1>1, <1>2, <1>3
<1>5. \A i \in Desc : Unreclaimed(i)' <=> Unreclaimed(i)
    BY <1>1 DEF Unreclaimed
<1>6. KeptUntilSent'
    <2> SUFFICES ASSUME NEW i \in Desc, Pending(i)' PROVE ptxd[i].frame \in held
        BY <1>1 DEF KeptUntilSent
    <2>1. i # consume
        <3>1. FillDescNum(consume, Inc(consume)) = N - 1
            BY DEF FillDescNum, Inc, Desc
        <3>2. FillDescNum(produce, Inc(consume)) \in 0 .. N - 1
            BY FillRange, FillInc
        <3> QED BY <1>1, <3>1, <3>2 DEF Pending
    <2>2. /\ FillDescNum(i, consume') = FillDescNum(i, consume) - 1
          /\ FillDescNum(produce, consume') = FillDescNum(produce, consume) - 1
        BY <1>1, <2>1, FillInc DEF Transmit
    <2>3. FillDescNum(i, consume) \in 0 .. N - 1 /\ FillDescNum(produce, consume) \in 0 .. N - 1
        BY FillRange
    <2>4. FillDescNum(i, consume) - 1 < FillDescNum(produce, consume) - 1
        BY <1>1, <2>2 DEF Pending
    <2>5. Pending(i)
        BY <2>3, <2>4 DEF Pending
    <2> QED BY <2>5 DEF KeptInv, KeptUntilSent
<1> QED BY <1>1, <1>4, <1>5, <1>6 DEF KeptInv

LEMMA FillDescriptorKept == TypeOK /\ OrderInv /\ KeptInv /\ FillDescriptor => KeptInv'
<1> SUFFICES ASSUME TypeOK, OrderInv, KeptInv, FillDescriptor PROVE KeptInv'
    OBVIOUS
<1> USE DEF TypeOK
<1> DEFINE c == FillDescNum(consume, last)
           p == FillDescNum(produce, last)
<1>1. /\ UNCHANGED <<consume, last, held, frame>>
      /\ produce' = Inc(produce) /\ dn' = dn - 1
      /\ ptxd' = [ptxd EXCEPT ![produce] = [frame |-> frame, number |-> put]]
      /\ txb' = [txb EXCEPT ![produce] = IF dn = 1 THEN frame ELSE NULL]
      /\ pc = "fill" /\ pc' = IF dn = 1 THEN "loop" ELSE "fill"
    BY DEF FillDescriptor
<1>2. dn \in 1 .. MaxParts /\ frame # NULL /\ frame \in held
    BY <1>1 DEF OrderInv, KeptInv
<1>3. c \in 0 .. N - 1 /\ p \in 0 .. N - 2 /\ c <= p /\ p + dn <= N - 1
    BY <1>2, FillRange DEF KeptInv
<1>4. FillDescNum(produce', last') = p + 1
    BY <1>1, <1>3, FillInc
<1>5. FillDescNum(produce', last') + dn' <= N - 1
    BY <1>1, <1>2, <1>3, <1>4
<1>6. FillDescNum(consume', last') <= FillDescNum(produce', last')
    BY <1>1, <1>3, <1>4
\* The descriptors of the ring are those of before and the one just filled.
<1>7. ASSUME NEW i \in Desc, Unreclaimed(i)'
      PROVE  \/ i = produce
             \/ Unreclaimed(i) /\ ptxd'[i] = ptxd[i] /\ txb'[i] = txb[i]
    <2> DEFINE o == FillDescNum(i, last)
    <2>1. o \in 0 .. N - 1 /\ o < p + 1
        BY <1>1, <1>4, <1>7, FillRange DEF Unreclaimed
    <2>2. i # produce => o # p
        BY FillInjective
    <2>3. i # produce => ptxd'[i] = ptxd[i] /\ txb'[i] = txb[i]
        BY <1>1
    <2>4. Unreclaimed(i) <=> o < p
        BY DEF Unreclaimed
    <2> HIDE DEF o, p
    <2> QED BY <1>3, <2>1, <2>2, <2>3, <2>4
<1>8. /\ ptxd'[produce].frame = frame
      /\ txb'[produce] = IF dn = 1 THEN frame ELSE NULL
    BY <1>1
<1>9. ASSUME NEW i \in Desc, Unreclaimed(i)'
      PROVE  /\ ptxd'[i].frame <= frame'
             /\ txb'[i] # NULL => txb'[i] = ptxd'[i].frame
             /\ txb'[i] # NULL /\ pc' # "loop" => ptxd'[i].frame < frame'
    <2>1. CASE i = produce
        BY <1>1, <1>8, <2>1
    <2>2. CASE i # produce
        BY <1>1, <1>7, <1>9, <2>2 DEF KeptInv
    <2> QED BY <2>1, <2>2
<1>10. ASSUME NEW i \in Desc, NEW j \in Desc, Unreclaimed(i)', Unreclaimed(j)', txb'[i] # NULL,
              FillDescNum(i, last') < FillDescNum(j, last')
       PROVE  ptxd'[i].frame < ptxd'[j].frame
    <2>1. i # produce
        <3>1. FillDescNum(j, last) < p + 1 /\ FillDescNum(j, last) \in 0 .. N - 1
            BY <1>1, <1>4, <1>10, FillRange DEF Unreclaimed
        <3>2. ~(FillDescNum(produce, last) < FillDescNum(j, last))
            BY <1>3, <3>1
        <3> QED BY <1>1, <1>10, <3>2
    <2>2. Unreclaimed(i) /\ ptxd'[i] = ptxd[i] /\ txb'[i] = txb[i]
        BY <1>7, <1>10, <2>1
    <2>3. CASE j = produce
        BY <1>1, <1>8, <1>10, <2>2, <2>3 DEF KeptInv
    <2>4. CASE j # produce
        <3>1. Unreclaimed(j) /\ ptxd'[j] = ptxd[j]
            BY <1>7, <1>10, <2>4
        <3> QED BY <1>1, <1>10, <2>2, <3>1 DEF KeptInv
    <2> QED BY <2>3, <2>4
<1>11. KeptUntilSent'
    <2> SUFFICES ASSUME NEW i \in Desc, Pending(i)' PROVE ptxd'[i].frame \in held
        BY <1>1 DEF KeptUntilSent
    <2>1. CASE i = produce
        BY <1>2, <1>8, <2>1
    <2>2. CASE i # produce
        <3> DEFINE fill == FillDescNum(produce, consume)
                   d == FillDescNum(i, consume)
        <3>1. fill \in 0 .. N - 2
            BY <1>1, <1>2, FillRange DEF OrderInv
        <3>2. FillDescNum(produce', consume') = fill + 1
            BY <1>1, <3>1, FillInc
        <3>3. d < fill + 1 /\ d \in 0 .. N - 1 /\ d # fill
            BY <1>1, <2>2, <3>2, FillRange, FillInjective DEF Pending
        <3>4. Pending(i) <=> d < fill
            BY DEF Pending
        <3>5. Pending(i)
            <4> HIDE DEF d, fill
            <4> QED BY <3>1, <3>3, <3>4
        <3> QED BY <1>1, <2>2, <3>5 DEF KeptInv, KeptUntilSent
    <2> QED BY <2>1, <2>2
<1>12. pc' = "fill" => frame' \in held'
    BY <1>1, <1>2
<1> QED BY <1>5, <1>6, <1>9, <1>10, <1>11, <1>12 DEF KeptInv

LEMMA ReclaimKept == TypeOK /\ OrderInv /\ KeptInv /\ Reclaim => KeptInv'
<1> SUFFICES ASSUME TypeOK, OrderInv, KeptInv, Reclaim PROVE KeptInv'
    OBVIOUS
<1> USE DEF TypeOK
<1> DEFINE c == FillDescNum(consume, last)
           p == FillDescNum(produce, last)
<1>1. /\ UNCHANGED <<produce, consume, ptxd, pc, frame, dn>>
      /\ last' = consume /\ pc = "loop"
      /\ held' = held \ {txb[i] : i \in ToReclaim(consume)}
      /\ txb' = [i \in Desc |-> IF i \in ToReclaim(consume) THEN NULL ELSE txb[i]]
    BY DEF Reclaim
<1>2. c \in 0 .. N - 1 /\ p \in 0 .. N - 1 /\ c <= p /\ p + dn <= N - 1 /\ dn = 0
    BY <1>1, FillRange DEF KeptInv, OrderInv
<1>3. FillDescNum(produce', last') = p - c /\ FillDescNum(consume', last') = 0
    BY <1>1, <1>2, FillShift, FillRange
<1>4. \A i \in Desc : (Unreclaimed(i)' <=> Pending(i)) /\ (Pending(i)' <=> Pending(i))
    BY <1>1 DEF Unreclaimed, Pending
<1>5. ASSUME NEW i \in Desc, Pending(i)
      PROVE  /\ Unreclaimed(i) /\ FillDescNum(i, last) >= c
             /\ FillDescNum(i, last') = FillDescNum(i, last) - c
             /\ FillDescNum(i, last) \in 0 .. N - 1
             /\ i \notin ToReclaim(consume) /\ txb'[i] = txb[i]
    <2>1. Unreclaimed(i) /\ FillDescNum(i, last) >= c
        BY <1>5, PendingPart
    <2>2. FillDescNum(i, last) \in 0 .. N - 1
        BY FillRange
    <2>3. FillDescNum(i, last') = FillDescNum(i, last) - c
        BY <1>1, <2>1, FillShift
    <2>4. i \notin ToReclaim(consume)
        BY <1>2, <2>1, <2>2 DEF ToReclaim
    <2> QED BY <1>1, <2>1, <2>2, <2>3, <2>4
<1>6. ASSUME NEW i \in Desc, Unreclaimed(i)'
      PROVE  /\ ptxd'[i].frame <= frame'
             /\ txb'[i] # NULL => txb'[i] = ptxd'[i].frame
             /\ txb'[i] # NULL /\ pc' # "loop" => ptxd'[i].frame < frame'
    BY <1>1, <1>4, <1>5, <1>6 DEF KeptInv
<1>7. ASSUME NEW i \in Desc, NEW j \in Desc, Unreclaimed(i)', Unreclaimed(j)', txb'[i] # NULL,
             FillDescNum(i, last') < FillDescNum(j, last')
      PROVE  ptxd'[i].frame < ptxd'[j].frame
    <2>1. Pending(i) /\ Pending(j)
        BY <1>4, <1>7
    <2>2. FillDescNum(i, last) - c < FillDescNum(j, last) - c
        BY <1>5, <1>7, <2>1
    <2>3. FillDescNum(i, last) < FillDescNum(j, last)
        <3>1. FillDescNum(i, last) \in 0 .. N - 1 /\ FillDescNum(j, last) \in 0 .. N - 1
            BY FillRange
        <3> QED BY <1>2, <2>2, <3>1
    <2> QED BY <1>1, <1>5, <1>7, <2>1, <2>3 DEF KeptInv
\* A reclaimed descriptor lies before every pending one, so its frame is another.
<1>8. KeptUntilSent'
    <2> SUFFICES ASSUME NEW i \in Desc, Pending(i) PROVE ptxd[i].frame \in held'
        BY <1>1, <1>4 DEF KeptUntilSent
    <2>1. ptxd[i].frame \in held /\ ptxd[i].frame \in Nat \ {NULL}
        BY DEF KeptInv, KeptUntilSent
    <2>2. ASSUME NEW j \in ToReclaim(consume), txb[j] = ptxd[i].frame PROVE FALSE
        <3>1. j \in Desc /\ FillDescNum(j, last) < c /\ FillDescNum(j, last) \in 0 .. N - 1
            BY FillRange DEF ToReclaim
        <3>2. Unreclaimed(j)
            BY <1>2, <3>1 DEF Unreclaimed
        <3>3. FillDescNum(j, last) < FillDescNum(i, last) /\ Unreclaimed(i)
            BY <1>2, <1>5, <3>1
        <3>4. txb[j] # NULL
            BY <2>1, <2>2
        <3>5. txb[j] = ptxd[j].frame /\ ptxd[j].frame < ptxd[i].frame
            BY <3>1, <3>2, <3>3, <3>4 DEF KeptInv
        <3> QED BY <2>1, <2>2, <3>1, <3>5
    <2> QED BY <1>1, <2>1, <2>2
<1> QED BY <1>1, <1>2, <1>3, <1>6, <1>7, <1>8 DEF KeptInv

LEMMA StepKept ==
    TypeOK /\ OrderInv /\ (crowded \/ KeptInv) /\ [Next]_vars => (crowded \/ KeptInv)'
<1> SUFFICES ASSUME TypeOK, OrderInv, KeptInv, ~crowded', [Next]_vars PROVE KeptInv'
    BY StepCrowded
<1>t. TypeOK'
    BY StepType
<1> USE DEF TypeOK
<1>r. FillDescNum(produce, last) \in 0 .. N - 1 /\ FillDescNum(consume, last) \in 0 .. N - 1
    BY FillRange
\* The ring is left alone, the frame being output may change.
<1>a. ASSUME UNCHANGED <<produce, consume, last, txb, ptxd>>,
             held \subseteq held', frame <= frame',
             FillDescNum(produce, last) + dn' <= N - 1,
             pc' = "fill" => frame' \in held',
             pc = "loop" /\ pc' # "loop" => frame < frame',
             pc # "loop" => frame = frame'
      PROVE  KeptInv'
    <2>1. \A i \in Desc : (Unreclaimed(i)' <=> Unreclaimed(i)) /\ (Pending(i)' <=> Pending(i))
        BY <1>a DEF Unreclaimed, Pending
    <2>2. ASSUME NEW i \in Desc, Unreclaimed(i)
          PROVE  /\ ptxd'[i].frame <= frame'
                 /\ txb'[i] # NULL => txb'[i] = ptxd'[i].frame
                 /\ txb'[i] # NULL /\ pc' # "loop" => ptxd'[i].frame < frame'
        <3>1. /\ ptxd[i].frame <= frame
              /\ txb[i] # NULL => txb[i] = ptxd[i].frame
              /\ txb[i] # NULL /\ pc # "loop" => ptxd[i].frame < frame
            BY <2>2 DEF KeptInv
        <3>2. ptxd[i].frame \in Nat /\ frame \in Nat /\ frame' \in Nat
            BY <1>t
        <3> QED BY <1>a, <3>1, <3>2
    <2>3. KeptUntilSent'
        BY <1>a, <2>1 DEF KeptInv, KeptUntilSent
    <2>4. \A i, j \in Desc :
             (/\ Unreclaimed(i)' /\ Unreclaimed(j)' /\ txb'[i] # NULL
              /\ FillDescNum(i, last') < FillDescNum(j, last'))
                 => ptxd'[i].frame < ptxd'[j].frame
        BY <1>a, <2>1 DEF KeptInv
    <2> QED BY <1>a, <2>1, <2>2, <2>3, <2>4 DEF KeptInv
<1>1. CASE Output
    <2>1. UNCHANGED <<produce, consume, last, txb, ptxd>>
        BY <1>1 DEF Output, ringVars
    <2>2. held \subseteq held' /\ frame' = frame + 1 /\ pc = "loop" /\ pc' # "fill"
        BY <1>1 DEF Output, Queue
    <2>3. FillDescNum(produce, last) + dn' <= N - 1
        <3>1. ASSUME NEW n \in 1 .. MaxParts, Queue(n)
              PROVE  FillDescNum(produce, last) + dn' <= N - 1
            <4>1. ~(FillDescNum(produce, last) + n > N - 1) /\ dn' = n
                BY <3>1 DEF Queue
            <4> QED BY <1>r, <4>1
        <3>2. CASE dn' = dn
            BY <3>2 DEF KeptInv
        <3> QED BY <1>1, <3>1, <3>2 DEF Output
    <2> QED BY <1>a, <2>1, <2>2, <2>3
<1>2. CASE Ready
    <2>1. UNCHANGED <<produce, consume, last, txb, ptxd, frame, dn>>
        BY <1>2 DEF Ready, ringVars
    <2>2. held \subseteq held' /\ pc = "wait" /\ frame' \in held'
        BY <1>2 DEF Ready
    <2>3. FillDescNum(produce, last) + dn' <= N - 1
        BY <2>1 DEF KeptInv
    <2> QED BY <1>a, <2>1, <2>2, <2>3
<1>3. CASE FillDescriptor
    BY <1>3, FillDescriptorKept
<1>4. CASE Reclaim
    BY <1>4, ReclaimKept
<1>5. CASE Transmit
    BY <1>5, TransmitKept
<1>6. CASE UNCHANGED vars
    <2>1. UNCHANGED <<produce, consume, last, txb, ptxd, frame, dn, held, pc>>
        BY <1>6 DEF vars, ringVars
    <2>2. FillDescNum(produce, last) + dn' <= N - 1 /\ (pc' = "fill" => frame' \in held')
        BY <2>1 DEF KeptInv
    <2> QED BY <1>a, <2>1, <2>2
<1> QED BY <1>1, <1>2, <1>3, <1>4, <1>5, <1>6 DEF Next

\* "The driver will free it once it's been transmitted": no pbuf is freed while the
\* DMA engine still has to read it, as long as every frame found room next to the
\* descriptors that were not reclaimed yet.
THEOREM PbufsAreKept == Spec => []KeptUnlessCrowded
<1>1. Init => crowded \/ KeptInv
    BY InitKept
<1>2. (TypeOK /\ OrderInv) /\ (crowded \/ KeptInv) /\ [Next]_vars => (crowded \/ KeptInv)'
    BY StepKept
<1>3. crowded \/ KeptInv => KeptUnlessCrowded
    BY DEF KeptInv, KeptUnlessCrowded
<1> QED BY <1>1, <1>2, <1>3, OrderIsInvariant, PTL DEF Spec
=============================================================================
