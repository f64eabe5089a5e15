------------------------------ MODULE Streamer ------------------------------
(***************************************************************************)
(* The streamer, main() of WEB_UDP_bare_server: a timer interrupt asks for *)
(* a sample in every period; main()'s loop polls the PHY, then serves the  *)
(* interrupt's flag until it finds it clear. Samples are collected in      *)
(* send_buffer and leave in packets. A packet waits in send_buffer while   *)
(* there is no memory for it. Once given to udp_sendto() it may be lost:   *)
(* it is when the interface has no link, and may be with a link, as        *)
(* main() ignores the answer (no memory in the driver, no ARP entry), and  *)
(* on its way.                                                             *)
(*                                                                         *)
(* A sample is its sample_id: its 22 bytes are built from it. The buffer   *)
(* is counted in samples.                                                  *)
(***************************************************************************)
EXTENDS PhyLink, Sequences

CONSTANTS
    Packet,    \* samples in a packet: total_cnt / 22
    Room,      \* samples that send_buffer has room for
    IdMod      \* 2 to the width of sample_id

ASSUME StreamAssumption ==
    Packet \in Nat /\ Packet > 0 /\ Room \in Nat /\ Room >= Packet /\ IdMod \in Nat /\ IdMod > Room

VARIABLES
    pc,           \* where main()'s loop is
    freq_flag,    \* set by the timer interrupt, cleared by the loop
    sample_id,    \* id of the next sample
    send_buffer,  \* the samples that wait; its length stands for send_cnt
    noMemory,     \* history: failed allocations since the last packet
    asked,        \* history: a tick has come since the last sample was begun
    next,         \* history: the id after the last sample the receiver got
    missing       \* history: samples that were lost since, each loss counted

streamVars == <<freq_flag, sample_id, send_buffer, noMemory, asked, next, missing>>
vars == <<phyVars, pc, streamVars>>

Ids == 0 .. IdMod - 1

TypeOK ==
    /\ PhyTypeOK
    /\ pc \in {"turn", "check", "clear", "sample", "overflow"}
    /\ freq_flag \in BOOLEAN
    /\ sample_id \in Ids
    /\ send_buffer \in Seq(Ids)
    /\ noMemory \in Nat
    /\ asked \in BOOLEAN
    /\ next \in Ids /\ missing \in Ids

Init ==
    /\ PhyInit
    /\ pc = "turn" /\ freq_flag = FALSE
    /\ sample_id = 0 /\ send_buffer = <<>>
    /\ noMemory = 0 /\ asked = FALSE /\ next = 0 /\ missing = 0

-----------------------------------------------------------------------------
\* TIMER0_IRQHandler
Tick ==
    /\ freq_flag' = TRUE /\ asked' = TRUE
    /\ UNCHANGED <<phyVars, pc, sample_id, send_buffer, noMemory, next, missing>>

\* The PHY and the MII bus.
Phy ==
    /\ LinkLost \/ Negotiate \/ LinkMade \/ MiiDone
    /\ UNCHANGED <<pc, streamVars>>

\* main()'s loop up to the samples: one call of lpcPHYStsPoll ...
Poll ==
    /\ pc = "turn"
    /\ lpcPHYStsPoll
    /\ pc' = "check"
    /\ UNCHANGED streamVars

\* ... which may find the MII bus busy.
PollBusy ==
    /\ pc = "turn" /\ phyustate # 0 /\ mii.busy
    /\ pc' = "check"
    /\ UNCHANGED <<phyVars, streamVars>>

\* while (freq_flag)
Check ==
    /\ pc = "check"
    /\ pc' = IF freq_flag THEN "clear" ELSE "turn"
    /\ UNCHANGED <<phyVars, streamVars>>

Clear ==
    /\ pc = "clear"
    /\ freq_flag' = FALSE /\ asked' = FALSE
    /\ pc' = "sample"
    /\ UNCHANGED <<phyVars, sample_id, send_buffer, noMemory, next, missing>>

\* The sample goes to send_buffer; ids go on.
Waiting == Append(send_buffer, sample_id)

\* Mutant: sample_id is wider than the two bytes it is sent in.
WideId == sample_id' = sample_id + 1

NextId == sample_id' = (sample_id + 1) % IdMod

\* Mutant: the flag is cleared again at the end of the sample.
CollectClears ==
    /\ pc = "sample" /\ Len(Waiting) < Packet
    /\ send_buffer' = Waiting /\ NextId
    /\ pc' = "check" /\ freq_flag' = FALSE
    /\ UNCHANGED <<phyVars, noMemory, asked, next, missing>>

\* Not enough for a packet.
Collect ==
    /\ pc = "sample" /\ Len(Waiting) < Packet
    /\ send_buffer' = Waiting /\ NextId
    /\ pc' = "check"
    /\ UNCHANGED <<phyVars, freq_flag, noMemory, asked, next, missing>>

\* What the receiver misses: a sample for every time there was no memory, and, for
\* whatever reason, the packet, which it can only get with a link.
Receiver ==
    \/ /\ up
       /\ next' = (Waiting[Packet] + 1) % IdMod
       /\ missing' = noMemory % IdMod
    \/ /\ missing' = (missing + Packet + noMemory) % IdMod
       /\ UNCHANGED next

\* Mutant: the buffer is emptied only when udp_sendto has taken the packet.
SendIfUp ==
    /\ pc = "sample" /\ Len(Waiting) >= Packet /\ Len(Waiting) <= Room
    /\ send_buffer' = IF up THEN <<>> ELSE Waiting
    /\ NextId
    /\ noMemory' = 0
    /\ Receiver
    /\ pc' = "check"
    /\ UNCHANGED <<phyVars, freq_flag, asked>>

\* The first samples of the buffer are given to udp_sendto as a packet, and the buffer is
\* empty again, whatever it held beyond the packet and whatever udp_sendto answers.
Send ==
    /\ pc = "sample" /\ Len(Waiting) >= Packet /\ Len(Waiting) <= Room
    /\ send_buffer' = <<>> /\ NextId
    /\ noMemory' = 0
    /\ Receiver
    /\ pc' = "check"
    /\ UNCHANGED <<phyVars, freq_flag, asked>>

\* Mutant: the packet is given up at once.
NoMemoryDrops ==
    /\ pc = "sample" /\ Len(Waiting) >= Packet /\ Len(Waiting) <= Room
    /\ send_buffer' = <<>> /\ NextId
    /\ noMemory' = noMemory + 1
    /\ pc' = "check"
    /\ UNCHANGED <<phyVars, freq_flag, asked, next, missing>>

\* pbuf_alloc fails: everything stays, until there is memory after a later sample.
NoMemory ==
    /\ pc = "sample" /\ Len(Waiting) >= Packet /\ Len(Waiting) <= Room
    /\ send_buffer' = Waiting /\ NextId
    /\ noMemory' = noMemory + 1
    /\ pc' = "check"
    /\ UNCHANGED <<phyVars, freq_flag, asked, next, missing>>

\* The sample is written past the end of send_buffer; the model ends.
Overflow ==
    /\ pc = "sample" /\ Len(Waiting) > Room
    /\ pc' = "overflow"
    /\ UNCHANGED <<phyVars, streamVars>>

Loop == Poll \/ PollBusy \/ Check \/ Clear \/ Collect \/ Send \/ NoMemory \/ Overflow

Next == Tick \/ Phy \/ Loop

Spec == Init /\ [][Next]_vars

\* The processor runs the loop, the timer runs, a read on the MII bus ends. Nothing is
\* assumed of the link.
LiveSpec ==
    /\ Spec
    /\ WF_vars(Loop) /\ WF_vars(Tick)
    /\ WF_vars(MiiDone /\ UNCHANGED <<pc, streamVars>>)

-----------------------------------------------------------------------------
\* The receiver can account for every sample by the ids, whichever packets are lost: what
\* waits to be sent follows what it got last, but for whole packets that were lost once
\* main() had given them to udp_sendto, and one sample for every allocation that failed in
\* main(); and the sample taken next follows what waits.
Accounted ==
    /\ \A i \in 1 .. Len(send_buffer) : send_buffer[i] = (next + missing + i - 1) % IdMod
    /\ sample_id = (next + missing + Len(send_buffer)) % IdMod

\* send_buffer overflows only after Room - Packet + 1 allocations in a row have failed.
BufferFits == pc = "overflow" => noMemory > Room - Packet

\* A tick that comes once a sample has been begun is still there when it is done: only a
\* tick that follows another within one sample is lost.
TickPending == asked => freq_flag

\* main()'s loop gets out of its inner loop again and again: the ticks leave it time.
LoopTurns == []<>(pc = "turn")

\* A loss of the link is reported to lwIP, however short it is.
FlapReported == LoopTurns => ((up /\ ~link) ~> ~up)

\* Once the link stays as it is, the interface and the EMAC come to match it, whatever was
\* read while it changed.
LinkSettles ==
    LoopTurns =>
        /\ \A m \in Modes : <>[](link /\ splctl = m) => <>[](up /\ mac = m)
        /\ <>[]~link => <>[]~up

\* main() keeps giving packets to an interface that is up while there is a link, and
\* memory for them.
PacketsFlow ==
    LoopTurns /\ <>[](link /\ noMemory = 0) => []<><<Send /\ up>>_vars
=============================================================================
