--------------------------- MODULE Streamer_proofs ---------------------------
(***************************************************************************)
(* Theorems about the streamer, for every packet and buffer size, every    *)
(* width of sample_id and every set of link modes.                         *)
(*                                                                         *)
(* That the receiver can account for every sample rests on how many wait   *)
(* (BufferInv): less than a packet as long as there is memory, and one     *)
(* more than a packet's for every allocation that has failed since.        *)
(***************************************************************************)
EXTENDS Streamer, Integers, TLAPS

-----------------------------------------------------------------------------
\* Arithmetic modulo m.

LEMMA ModRange ==
    ASSUME NEW x \in Int, NEW m \in Nat, m > 0
    PROVE  x % m \in 0 .. m - 1 /\ x \div m \in Int /\ x = m * (x \div m) + (x % m)
OBVIOUS

\* A remainder is unique.
LEMMA ModUnique ==
    ASSUME NEW m \in Nat, m > 0, NEW p \in Int, NEW q \in Int,
           NEW r \in 0 .. m - 1, NEW s \in 0 .. m - 1, m * p + r = m * q + s
    PROVE  r = s
<1>1. CASE p = q
    BY <1>1
<1>2. CASE p < q
    <2>1. m * (q - p) >= m
        BY <1>2
    <2>2. m * (q - p) = m * q - m * p
        OBVIOUS
    <2> QED BY <2>1, <2>2
<1>3. CASE p > q
    <2>1. m * (p - q) >= m
        BY <1>3
    <2>2. m * (p - q) = m * p - m * q
        OBVIOUS
    <2> QED BY <2>1, <2>2
<1> QED BY <1>1, <1>2, <1>3

\* Reducing a summand first does not change the remainder of a sum.
LEMMA ModAdd ==
    ASSUME NEW x \in Int, NEW y \in Int, NEW m \in Nat, m > 0
    PROVE  ((x % m) + y) % m = (x + y) % m
<1> DEFINE z == (x % m) + y
<1>1. x % m \in Int /\ x \div m \in Int /\ x = m * (x \div m) + (x % m)
    BY ModRange
<1>2. z \in Int /\ z \div m \in Int /\ z % m \in 0 .. m - 1 /\ z = m * (z \div m) + (z % m)
    BY <1>1, ModRange
<1>3. /\ (x + y) \div m \in Int /\ (x + y) % m \in 0 .. m - 1
      /\ x + y = m * ((x + y) \div m) + ((x + y) % m)
    BY ModRange
<1>4. m * (x \div m + z \div m) + (z % m) = m * ((x + y) \div m) + ((x + y) % m)
    <2>1. m * (x \div m + z \div m) = m * (x \div m) + m * (z \div m)
        BY <1>1, <1>2
    <2> HIDE DEF z
    <2>2. m * (x \div m) + z = x + y
        BY <1>1 DEF z
    <2> QED BY <1>1, <1>2, <1>3, <2>1, <2>2
<1> HIDE DEF z
<1>5. z % m = (x + y) % m
    <2>1. x \div m + z \div m \in Int
        BY <1>1, <1>2
    <2> QED BY <1>2, <1>3, <1>4, <2>1, ModUnique
<1> QED BY <1>5 DEF z

LEMMA ModSum ==
    ASSUME NEW x \in Int, NEW y \in Int, NEW m \in Nat, m > 0
    PROVE  ((x % m) + (y % m)) % m = (x + y) % m
<1> DEFINE r == x % m
<1>1. r \in Int
    BY ModRange
<1> HIDE DEF r
<1>2. ((y % m) + r) % m = (y + r) % m
    BY <1>1, ModAdd
<1>3. ((x % m) + y) % m = (x + y) % m
    BY ModAdd
<1>4. y % m \in Int
    BY ModRange
<1>5. r + (y % m) = (y % m) + r /\ r + y = y + r
    BY <1>1, <1>4
<1> QED BY <1>2, <1>3, <1>5 DEF r

-----------------------------------------------------------------------------
\* Types. The first half of the poll has read a link bit.
BusInv ==
    /\ phyustate = 1 => mii.reg = "BSR"
    /\ mii.reg = "BSR" /\ ~mii.busy => mii.data \in BOOLEAN

TypeInv == TypeOK /\ BusInv

LEMMA HardwareType ==
    ASSUME PhyTypeOK, BusInv, LinkLost \/ Negotiate \/ LinkMade \/ MiiDone
    PROVE  PhyTypeOK' /\ BusInv'
<1>1. CASE LinkLost \/ Negotiate \/ LinkMade
    BY <1>1 DEF LinkLost, Negotiate, LinkMade, PhyTypeOK, BusInv, Codes
<1>2. CASE MiiDone
    BY <1>2 DEF MiiDone, PhyTypeOK, BusInv, Codes
<1> QED BY <1>1, <1>2

LEMMA StatusType ==
    ASSUME PhyTypeOK, NEW linksts \in BOOLEAN, NEW code
    PROVE  NewStatus(physts, linksts, code) \in Status
BY PhyAssumption DEF NewStatus, Status, PhyTypeOK

LEMMA ReadType ==
    ASSUME PhyTypeOK, NEW r \in {"BSR", "PHYSPLCTL"}, StartMIIRead(r)
    PROVE  /\ mii' \in [busy : BOOLEAN, reg : {"BSR", "PHYSPLCTL"}, data : Codes \cup BOOLEAN]
           /\ mii'.reg = r /\ mii'.busy = TRUE
BY DEF PhyTypeOK, StartMIIRead

LEMMA PollType ==
    ASSUME PhyTypeOK, BusInv, lpcPHYStsPoll
    PROVE  PhyTypeOK' /\ BusInv'
<1>1. CASE PollStart
    <2>1. physts' \in Status
        BY <1>1 DEF PollStart, PhyTypeOK, Status
    <2>2. up' \in BOOLEAN /\ mac' \in Modes
        BY <1>1, <2>1 DEF PollStart, LinkChange, PhyTypeOK, Status
    <2>3. /\ mii' \in [busy : BOOLEAN, reg : {"BSR", "PHYSPLCTL"}, data : Codes \cup BOOLEAN]
          /\ mii'.reg = "BSR" /\ mii'.busy = TRUE
        BY <1>1, ReadType DEF PollStart
    <2>4. PhyTypeOK'
        BY <1>1, <2>1, <2>2, <2>3 DEF PollStart, hwVars, PhyTypeOK
    <2> QED BY <2>3, <2>4 DEF BusInv
<1>2. CASE PollSpeed
    <2>1. up' \in BOOLEAN /\ mac' \in Modes
        BY <1>2 DEF PollSpeed, LinkChange, PhyTypeOK, Status
    <2>2. /\ mii' \in [busy : BOOLEAN, reg : {"BSR", "PHYSPLCTL"}, data : Codes \cup BOOLEAN]
          /\ mii'.reg = "PHYSPLCTL" /\ mii'.busy = TRUE
        BY <1>2, ReadType DEF PollSpeed
    <2>3. sts' \in BOOLEAN
        BY <1>2 DEF PollSpeed, BusInv
    <2>4. PhyTypeOK'
        BY <1>2, <2>1, <2>2, <2>3 DEF PollSpeed, hwVars, PhyTypeOK
    <2> QED BY <1>2, <2>2, <2>4 DEF PollSpeed, BusInv
<1>3. CASE PollUpdate
    <2>1. physts' \in Status /\ olddphysts' \in Status
        <3>1. NewStatus(physts, sts, mii.data) \in Status
            BY StatusType DEF PhyTypeOK
        <3> QED BY <1>3, <3>1 DEF PollUpdate, smsc_update_phy_sts, PhyTypeOK, Status
    <2>2. up' \in BOOLEAN /\ mac' \in Modes
        BY <1>3, <2>1 DEF PollUpdate, LinkChange, PhyTypeOK, Status
    <2> QED BY <1>3, <2>1, <2>2 DEF PollUpdate, hwVars, PhyTypeOK, BusInv
<1> QED BY <1>1, <1>2, <1>3 DEF lpcPHYStsPoll

LEMMA WaitingType ==
    ASSUME TypeOK
    PROVE  /\ Waiting \in Seq(Ids) /\ Len(Waiting) = Len(send_buffer) + 1
           /\ \A i \in 1 .. Len(send_buffer) : Waiting[i] = send_buffer[i]
           /\ Waiting[Len(send_buffer) + 1] = sample_id
BY DEF Waiting, TypeOK

LEMMA IdType == ASSUME NEW x \in Int PROVE x % IdMod \in Ids
BY ModRange, StreamAssumption DEF Ids

LEMMA SampleType ==
    ASSUME TypeOK, Collect \/ Send \/ NoMemory
    PROVE  /\ sample_id' \in Ids /\ send_buffer' \in Seq(Ids) /\ noMemory' \in Nat
           /\ next' \in Ids /\ missing' \in Ids /\ freq_flag' = freq_flag /\ asked' = asked
           /\ pc' = "check" /\ UNCHANGED phyVars
<1>1. sample_id' \in Ids
    <2>1. sample_id + 1 \in Int
        BY DEF TypeOK, Ids
    <2> QED BY <2>1, IdType DEF Collect, Send, NoMemory, NextId
<1>2. CASE Collect \/ NoMemory
    BY <1>1, <1>2, WaitingType DEF Collect, NoMemory, TypeOK
<1>3. CASE Send
    <2>1. Waiting[Packet] \in Ids
        BY <1>3, WaitingType, StreamAssumption DEF Send
    <2>2. Waiting[Packet] + 1 \in Int /\ noMemory \in Int /\ missing + Packet + noMemory \in Int
        BY <2>1, StreamAssumption DEF Ids, TypeOK
    <2>3. next' \in Ids /\ missing' \in Ids
        BY <1>3, <2>2, IdType DEF Send, Receiver, TypeOK
    <2> QED BY <1>1, <1>3, <2>3 DEF Send, TypeOK
<1> QED BY <1>2, <1>3

LEMMA TypeNext == TypeInv /\ [Next]_vars => TypeInv'
<1> SUFFICES ASSUME TypeInv, [Next]_vars PROVE TypeInv'
    OBVIOUS
<1>0. TypeOK /\ PhyTypeOK /\ BusInv
    BY DEF TypeInv, TypeOK
<1>1. CASE Tick \/ PollBusy \/ Check \/ Clear \/ Overflow \/ UNCHANGED vars
    <2>1. UNCHANGED phyVars
        BY <1>1 DEF Tick, PollBusy, Check, Clear, Overflow, vars
    <2>2. PhyTypeOK' /\ BusInv'
        BY <1>0, <2>1 DEF phyVars, PhyTypeOK, BusInv
    <2>3. /\ pc' \in {"turn", "check", "clear", "sample", "overflow"}
          /\ freq_flag' \in BOOLEAN /\ asked' \in BOOLEAN
          /\ UNCHANGED <<sample_id, send_buffer, noMemory, next, missing>>
        <3>1. CASE Tick
            BY <1>0, <3>1 DEF Tick, TypeOK
        <3>2. CASE PollBusy \/ Check \/ Overflow
            BY <1>0, <3>2 DEF PollBusy, Check, Overflow, streamVars, TypeOK
        <3>3. CASE Clear
            BY <3>3 DEF Clear
        <3>4. CASE UNCHANGED vars
            BY <1>0, <3>4 DEF vars, streamVars, TypeOK
        <3> QED BY <1>1, <3>1, <3>2, <3>3, <3>4
    <2> QED BY <1>0, <2>2, <2>3 DEF TypeInv, TypeOK
<1>2. CASE Phy
    BY <1>0, <1>2, HardwareType DEF Phy, streamVars, TypeInv, TypeOK
<1>3. CASE Poll
    BY <1>0, <1>3, PollType DEF Poll, streamVars, TypeInv, TypeOK
<1>4. CASE Collect \/ Send \/ NoMemory
    <2>1. PhyTypeOK' /\ BusInv'
        BY <1>0, <1>4, SampleType DEF phyVars, PhyTypeOK, BusInv
    <2> QED BY <1>0, <1>4, <2>1, SampleType DEF TypeInv, TypeOK
<1> QED BY <1>1, <1>2, <1>3, <1>4 DEF Next, Loop

LEMMA TypeInit == Init => TypeInv
<1> SUFFICES ASSUME Init PROVE TypeInv
    OBVIOUS
<1>1. physts \in Status /\ olddphysts \in Status
    BY PhyAssumption DEF Init, PhyInit, Status
<1>2. mii \in [busy : BOOLEAN, reg : {"BSR", "PHYSPLCTL"}, data : Codes \cup BOOLEAN]
      /\ mii.reg = "BSR" /\ mii.data \in BOOLEAN
    BY DEF Init, PhyInit
<1>3. splctl \in Codes
    BY DEF Init, PhyInit, Codes
<1>5. PhyTypeOK
    <2>1. phyustate \in 0 .. 2 /\ mac \in Modes
        BY DEF Init, PhyInit
    <2>2. link = FALSE /\ latch = FALSE /\ sts = FALSE /\ up = FALSE
        BY DEF Init, PhyInit
    <2> QED BY <1>1, <1>2, <1>3, <2>1, <2>2 DEF PhyTypeOK
<1>4. 0 \in Ids /\ send_buffer \in Seq(Ids)
    BY StreamAssumption DEF Init, Ids
<1> QED BY <1>2, <1>4, <1>5 DEF Init, TypeInv, TypeOK, BusInv

\* THEOREM: every variable of the streamer stays in its type; sample_id in the two
\* bytes it is sent in.
THEOREM TypeCorrect == Spec => []TypeOK
<1>1. TypeInv => TypeOK
    BY DEF TypeInv
<1> QED BY <1>1, TypeInit, TypeNext, PTL DEF Spec

-----------------------------------------------------------------------------
\* The link.

LEMMA LinkNext == TypeInv /\ LinkAgrees /\ [Next]_vars => LinkAgrees'
<1> SUFFICES ASSUME TypeInv, LinkAgrees, [Next]_vars PROVE LinkAgrees'
    OBVIOUS
<1>0. /\ PhyTypeOK /\ physts \in Status /\ olddphysts \in Status
    BY DEF TypeInv, TypeOK, PhyTypeOK
<1>1. CASE Poll /\ PollStart
    BY <1>0, <1>1 DEF PollStart, LinkChange, LinkAgrees, Status
<1>2. CASE Poll /\ PollSpeed
    BY <1>0, <1>2 DEF PollSpeed, LinkChange, LinkAgrees
<1>3. CASE Poll /\ PollUpdate
    <2> DEFINE new == NewStatus(physts, sts, mii.data)
    <2>1. new \in Status /\ ~new.changed
        BY <1>0, <1>3, StatusType DEF PollUpdate, PhyTypeOK, LinkAgrees, NewStatus
    <2>2. phyustate' = 0 /\ LinkChange(physts')
        BY <1>3 DEF PollUpdate
    <2> HIDE DEF new
    <2>3. CASE Differ(new, olddphysts)
        <3>1. olddphysts' = new /\ physts' = [new EXCEPT !.changed = TRUE]
            BY <1>3, <2>3 DEF PollUpdate, smsc_update_phy_sts, new
        <3> QED BY <1>0, <2>1, <2>2, <3>1 DEF LinkChange, LinkAgrees, Status
    <2>4. CASE ~Differ(new, olddphysts)
        <3>1. olddphysts' = olddphysts /\ physts' = new
            BY <1>3, <2>4 DEF PollUpdate, smsc_update_phy_sts, new
        <3> QED BY <1>0, <2>1, <2>2, <2>4, <3>1 DEF LinkChange, LinkAgrees, Status, Differ
    <2> QED BY <2>3, <2>4
<1>4. CASE UNCHANGED <<phyustate, physts, olddphysts, up, mac>>
    BY <1>4 DEF LinkAgrees
<1>5. CASE ~Poll
    BY <1>4, <1>5 DEF Next, Loop, Tick, Phy, LinkLost, Negotiate, LinkMade, MiiDone, PollBusy,
       Check, Clear, Collect, Send, NoMemory, Overflow, vars, phyVars
<1> QED BY <1>1, <1>2, <1>3, <1>5 DEF Poll, lpcPHYStsPoll

\* THEOREM: what the poll has found out about the link, the network interface and the
\* EMAC have been told (lpcPHYStsPoll and main()'s loop), whatever the PHY does.
THEOREM LinkIsKnown == Spec => []LinkAgrees
<1>1. Init => LinkAgrees
    <2> SUFFICES ASSUME Init PROVE LinkAgrees
        OBVIOUS
    <2>1. physts = [connected |-> FALSE, mode |-> Zero, changed |-> FALSE] /\ olddphysts = physts
          /\ up = FALSE /\ phyustate = 0
        BY DEF Init, PhyInit
    <2> QED BY <2>1 DEF LinkAgrees
<1> QED BY <1>1, TypeInit, TypeNext, LinkNext, PTL DEF Spec

-----------------------------------------------------------------------------
\* How many samples wait.
BufferInv ==
    /\ noMemory = 0 => Len(send_buffer) < Packet
    /\ noMemory > 0 => Len(send_buffer) = Packet + noMemory - 1
    /\ BufferFits

LEMMA BufferNext == TypeInv /\ BufferInv /\ [Next]_vars => BufferInv'
<1> SUFFICES ASSUME TypeInv, BufferInv, [Next]_vars PROVE BufferInv'
    OBVIOUS
<1>0. /\ TypeOK /\ Len(send_buffer) \in Nat /\ noMemory \in Nat
      /\ Packet \in Nat \ {0} /\ Room \in Nat /\ Room >= Packet
      /\ Len(Waiting) = Len(send_buffer) + 1
    BY StreamAssumption, WaitingType DEF TypeInv, TypeOK
<1>1. CASE Collect
    <2>1. send_buffer' = Waiting /\ noMemory' = noMemory /\ pc' = "check" /\ Len(Waiting) < Packet
        BY <1>1 DEF Collect
    <2> QED BY <1>0, <2>1 DEF BufferInv, BufferFits
<1>2. CASE Send
    BY <1>0, <1>2 DEF Send, BufferInv, BufferFits
<1>3. CASE NoMemory
    <2>1. /\ send_buffer' = Waiting /\ noMemory' = noMemory + 1 /\ pc' = "check"
          /\ Len(Waiting) >= Packet
        BY <1>3 DEF NoMemory
    <2> QED BY <1>0, <2>1 DEF BufferInv, BufferFits
<1>4. CASE Overflow
    <2>1. send_buffer' = send_buffer /\ noMemory' = noMemory /\ Len(Waiting) > Room
        BY <1>4 DEF Overflow, streamVars
    <2> QED BY <1>0, <2>1 DEF BufferInv, BufferFits
<1>5. CASE Tick \/ Phy \/ Poll \/ PollBusy \/ Check \/ Clear \/ UNCHANGED vars
    BY <1>5 DEF Tick, Phy, Poll, PollBusy, Check, Clear, vars, streamVars, BufferInv, BufferFits
<1> QED BY <1>1, <1>2, <1>3, <1>4, <1>5 DEF Next, Loop

LEMMA BufferInit == Init => BufferInv
BY StreamAssumption DEF Init, BufferInv, BufferFits

\* THEOREM: a sample is written past the end of send_buffer only after as many
\* allocations in a row have failed as there are samples of room behind a packet.
THEOREM BufferIsSafe == Spec => []BufferFits
<1>1. BufferInv => BufferFits
    BY DEF BufferInv
<1> QED BY <1>1, TypeInit, TypeNext, BufferInit, BufferNext, PTL DEF Spec

-----------------------------------------------------------------------------
\* The ids of the samples.

LEMMA SameAccount ==
    ASSUME Accounted, UNCHANGED <<send_buffer, sample_id, next, missing>>
    PROVE  Accounted'
BY DEF Accounted

\* A sample is added to the buffer.
LEMMA AddAccount ==
    ASSUME TypeOK, Accounted, send_buffer' = Waiting, NextId, UNCHANGED <<next, missing>>
    PROVE  Accounted'
<1> DEFINE n == Len(send_buffer)
<1>1. /\ n \in Nat /\ next \in Int /\ missing \in Int /\ IdMod \in Nat /\ IdMod > 0
      /\ next + missing + n \in Int
    BY StreamAssumption DEF TypeOK, Ids
<1>2. /\ Len(send_buffer') = n + 1
      /\ \A i \in 1 .. n : send_buffer'[i] = (next + missing + i - 1) % IdMod
      /\ send_buffer'[n + 1] = (next + missing + n) % IdMod
    BY WaitingType DEF Accounted
<1>3. (next + missing + n) % IdMod = (next + missing + (n + 1) - 1) % IdMod
    <2>1. next + missing + n = next + missing + (n + 1) - 1
        BY <1>1
    <2> QED BY <2>1
<1>4. sample_id' = (next + missing + (n + 1)) % IdMod
    <2>1. sample_id' = (((next + missing + n) % IdMod) + 1) % IdMod
        BY DEF NextId, Accounted
    <2>2. (((next + missing + n) % IdMod) + 1) % IdMod = (next + missing + n + 1) % IdMod
        BY <1>1, ModAdd
    <2>3. next + missing + n + 1 = next + missing + (n + 1)
        BY <1>1
    <2> QED BY <2>1, <2>2, <2>3
<1> HIDE DEF n
<1>5. \A i \in 1 .. n + 1 : send_buffer'[i] = (next + missing + i - 1) % IdMod
    <2> TAKE i \in 1 .. n + 1
    <2>1. CASE i \in 1 .. n
        BY <1>2, <2>1
    <2>2. CASE i = n + 1
        BY <1>2, <1>3, <2>2
    <2> QED BY <1>1, <2>1, <2>2
<1> QED BY <1>2, <1>4, <1>5 DEF Accounted

\* A packet leaves the buffer, which is empty then.
LEMMA SendAccount == ASSUME TypeOK, BufferInv, Accounted, Send PROVE Accounted'
<1> DEFINE n == Len(send_buffer)
<1> DEFINE s == next + missing
<1>1. /\ n \in Nat /\ next \in Int /\ missing \in Int /\ noMemory \in Nat
      /\ Packet \in Nat \ {0} /\ IdMod \in Nat /\ IdMod > 0 /\ s \in Int
    BY StreamAssumption DEF TypeOK, Ids
<1>2. n + 1 = Packet + noMemory
    BY <1>1, WaitingType DEF Send, BufferInv
<1>3. sample_id' = (s + Packet + noMemory) % IdMod
    <2>1. sample_id' = (((s + n) % IdMod) + 1) % IdMod
        BY DEF Send, NextId, Accounted
    <2>2. (((s + n) % IdMod) + 1) % IdMod = (s + n + 1) % IdMod
        BY <1>1, ModAdd
    <2>3. s + n + 1 = s + Packet + noMemory
        BY <1>1, <1>2
    <2> QED BY <2>1, <2>2, <2>3
<1>4. (next' + missing') % IdMod = (s + Packet + noMemory) % IdMod
    <2>1. CASE /\ next' = (Waiting[Packet] + 1) % IdMod
               /\ missing' = noMemory % IdMod
        <3>1. Waiting[Packet] = (s + Packet - 1) % IdMod
            <4>1. CASE Packet = n + 1
                <5>1. s + Packet - 1 = s + n
                    BY <1>1, <4>1
                <5> QED BY <4>1, <5>1, WaitingType DEF Accounted
            <4>2. CASE Packet # n + 1
                <5>1. Packet \in 1 .. n
                    BY <1>1, <1>2, <4>2
                <5> QED BY <5>1, WaitingType DEF Accounted
            <4> QED BY <4>1, <4>2
        <3>2. next' = (s + Packet) % IdMod
            <4>1. next' = (((s + Packet - 1) % IdMod) + 1) % IdMod
                BY <2>1, <3>1
            <4>2. (((s + Packet - 1) % IdMod) + 1) % IdMod = (s + Packet - 1 + 1) % IdMod
                BY <1>1, ModAdd
            <4>3. s + Packet - 1 + 1 = s + Packet
                BY <1>1
            <4> QED BY <4>1, <4>2, <4>3
        <3>3. missing' = noMemory % IdMod
            BY <2>1
        <3> DEFINE a == s + Packet
        <3>4. a \in Int /\ next' = a % IdMod /\ a + noMemory = s + Packet + noMemory
            BY <1>1, <3>2
        <3> HIDE DEF a
        <3>5. ((a % IdMod) + (noMemory % IdMod)) % IdMod = (a + noMemory) % IdMod
            BY <1>1, <3>4, ModSum
        <3> QED BY <3>3, <3>4, <3>5
    <2>2. CASE missing' = (missing + Packet + noMemory) % IdMod /\ UNCHANGED next
        <3>1. next' = next /\ missing' = (missing + Packet + noMemory) % IdMod
            BY <2>2
        <3> DEFINE b == missing + Packet + noMemory
        <3>2. b \in Int /\ missing' = b % IdMod /\ b + next = s + Packet + noMemory
            BY <1>1, <3>1
        <3> HIDE DEF b
        <3>3. ((b % IdMod) + next) % IdMod = (b + next) % IdMod
            BY <1>1, <3>2, ModAdd
        <3>4. b % IdMod \in Int
            BY <1>1, <3>2, ModRange
        <3>5. next' + missing' = (b % IdMod) + next
            BY <1>1, <3>1, <3>2, <3>4
        <3> QED BY <3>2, <3>3, <3>5
    <2> QED BY <2>1, <2>2 DEF Send, Receiver
<1>5. send_buffer' = <<>> /\ Len(send_buffer') = 0 /\ next' \in Int /\ missing' \in Int
    BY SampleType DEF Send, Ids
<1>6. sample_id' = (next' + missing' + 0) % IdMod
    <2>1. next' + missing' + 0 = next' + missing'
        BY <1>5
    <2> QED BY <1>3, <1>4, <2>1
<1>7. \A i \in 1 .. Len(send_buffer') : FALSE
    BY <1>5
<1> QED BY <1>5, <1>6, <1>7 DEF Accounted

LEMMA AccountNext == TypeInv /\ BufferInv /\ Accounted /\ [Next]_vars => Accounted'
<1> SUFFICES ASSUME TypeInv, BufferInv, Accounted, [Next]_vars PROVE Accounted'
    OBVIOUS
<1>1. CASE Collect \/ NoMemory
    BY <1>1, AddAccount DEF Collect, NoMemory, TypeInv
<1>2. CASE Send
    BY <1>2, SendAccount DEF TypeInv
<1>3. CASE Tick \/ Phy \/ Poll \/ PollBusy \/ Check \/ Clear \/ Overflow \/ UNCHANGED vars
    BY <1>3, SameAccount DEF Tick, Phy, Poll, PollBusy, Check, Clear, Overflow, vars, streamVars
<1> QED BY <1>1, <1>2, <1>3 DEF Next, Loop

\* THEOREM: whichever packets are lost, the receiver can tell from the ids of the samples,
\* modulo IdMod, how many it did not get: all the samples of the packets that were lost
\* after main() had handed them over, and one for every allocation that failed in main().
THEOREM SamplesAccounted == Spec => []Accounted
<1>1. Init => Accounted
    <2> SUFFICES ASSUME Init PROVE Accounted
        OBVIOUS
    <2>1. /\ send_buffer = <<>> /\ Len(send_buffer) = 0 /\ sample_id = 0
          /\ next + missing + Len(send_buffer) = 0
        BY DEF Init
    <2>2. 0 % IdMod = 0
        BY StreamAssumption
    <2>3. \A i \in 1 .. Len(send_buffer) : FALSE
        BY <2>1
    <2> QED BY <2>1, <2>2, <2>3 DEF Accounted
<1> QED BY <1>1, TypeInit, TypeNext, BufferInit, BufferNext, AccountNext, PTL DEF Spec

-----------------------------------------------------------------------------
LEMMA PendingNext == TickPending /\ [Next]_vars => TickPending'
<1> SUFFICES ASSUME TickPending, [Next]_vars PROVE TickPending'
    OBVIOUS
<1>1. CASE Tick
    BY <1>1 DEF Tick, TickPending
<1>2. CASE Clear
    BY <1>2 DEF Clear, TickPending
<1>3. CASE Phy \/ Poll \/ PollBusy \/ Check \/ Collect \/ Send \/ NoMemory \/ Overflow
           \/ UNCHANGED vars
    <2>1. asked' = asked /\ freq_flag' = freq_flag
        BY <1>3 DEF Phy, Poll, PollBusy, Check, Collect, Send, NoMemory, Overflow, vars, streamVars
    <2> QED BY <2>1 DEF TickPending
<1> QED BY <1>1, <1>2, <1>3 DEF Next, Loop

\* THEOREM: a tick of the timer that comes while a sample is being taken is served after it:
\* the loop clears the flag before the sample, never after it (main(), while (freq_flag)).
THEOREM TickIsPending == Spec => []TickPending
<1>1. Init => TickPending
    BY DEF Init, TickPending
<1> QED BY <1>1, PendingNext, PTL DEF Spec
=============================================================================
