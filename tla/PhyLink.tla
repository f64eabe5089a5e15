------------------------------ MODULE PhyLink ------------------------------
(***************************************************************************)
(* The link status of the streamer: lpcPHYStsPoll() of lpc_phy_smsc87x0.c, *)
(* a state machine that main()'s loop calls once a turn, and what main()   *)
(* does with its answer.                                                   *)
(*                                                                         *)
(* The PHY and the MII bus run by themselves. One reading of the status is *)
(* spread over three calls and two registers: the link bit of the basic    *)
(* status register, which latches low until it is read, and the speed and  *)
(* duplex mode, which is read later. The link may fail, and come back in   *)
(* another mode, between any two steps.                                    *)
(***************************************************************************)
EXTENDS Naturals

CONSTANTS
    Modes,     \* speed and duplex: what the EMAC can be set to
    Zero,      \* the mode of status bits that are all zero: 10 Mbps, half duplex
    Default,   \* the mode taken for an unknown code: 100 Mbps, full duplex
    Unknown    \* a code of the PHY that stands for no mode

ASSUME PhyAssumption == Zero \in Modes /\ Default \in Modes /\ Unknown \notin Modes

VARIABLES
    link,      \* whether the PHY has a link
    latch,     \* the link bit of the basic status register
    splctl,    \* the mode in the PHY's special control register
    mii,       \* the MII bus: whether it is busy, with which register, the data read
    phyustate, \* state of the poll
    sts,       \* the link bit read in the first half of the poll
    physts,    \* PHY status: connected, mode, and the changed flag
    olddphysts,
    up,        \* NETIF_FLAG_LINK_UP of the interface
    mac        \* the mode the EMAC is set to

hwVars == <<link, latch, splctl>>
phyVars == <<link, latch, splctl, mii, phyustate, sts, physts, olddphysts, up, mac>>

Codes == Modes \cup {Unknown}
Status == [connected : BOOLEAN, mode : Modes, changed : BOOLEAN]

PhyTypeOK ==
    /\ link \in BOOLEAN /\ latch \in BOOLEAN /\ splctl \in Codes
    /\ mii \in [busy : BOOLEAN, reg : {"BSR", "PHYSPLCTL"}, data : Codes \cup BOOLEAN]
    /\ phyustate \in 0 .. 2
    /\ sts \in BOOLEAN
    /\ physts \in Status /\ olddphysts \in Status
    /\ up \in BOOLEAN /\ mac \in Modes

\* After lpc_phy_init, before main()'s loop.
PhyInit ==
    /\ link = FALSE /\ latch = FALSE /\ splctl = Unknown
    /\ mii = [busy |-> FALSE, reg |-> "BSR", data |-> FALSE]
    /\ phyustate = 0 /\ sts = FALSE
    /\ physts = [connected |-> FALSE, mode |-> Zero, changed |-> FALSE]
    /\ olddphysts = physts
    /\ up = FALSE /\ mac \in Modes

-----------------------------------------------------------------------------
\* The PHY (external): the link is lost, the partner is negotiated with, the link is there.

LinkLost ==
    /\ link
    /\ link' = FALSE /\ latch' = FALSE
    /\ UNCHANGED <<splctl, mii, phyustate, sts, physts, olddphysts, up, mac>>

Negotiate ==
    /\ ~link
    /\ splctl' \in Codes
    /\ UNCHANGED <<link, latch, mii, phyustate, sts, physts, olddphysts, up, mac>>

LinkMade ==
    /\ ~link /\ splctl \in Modes
    /\ link' = TRUE
    /\ UNCHANGED <<latch, splctl, mii, phyustate, sts, physts, olddphysts, up, mac>>

\* The MII bus ends a read. Reading the link bit releases its latch.
MiiDone ==
    /\ mii.busy
    /\ \/ /\ mii.reg = "BSR"
          /\ mii' = [mii EXCEPT !.busy = FALSE, !.data = latch]
          /\ latch' = link
       \/ /\ mii.reg = "PHYSPLCTL"
          /\ mii' = [mii EXCEPT !.busy = FALSE, !.data = splctl]
          /\ UNCHANGED latch
    /\ UNCHANGED <<link, splctl, phyustate, sts, physts, olddphysts, up, mac>>

-----------------------------------------------------------------------------
\* Chip_ENET_StartMIIRead
StartMIIRead(reg) == mii' = [mii EXCEPT !.busy = TRUE, !.reg = reg]

\* Mutant: the bit is set with the link, never cleared.
ConnectedSticks(old, linksts, code) ==
    [connected |-> old.connected \/ linksts,
     mode |-> IF code \in Modes THEN code ELSE Default,
     changed |-> old.changed]

\* The bits of the status that smsc_update_phy_sts sets from the two registers.
NewStatus(old, linksts, code) ==
    [connected |-> linksts,
     mode |-> IF code \in Modes THEN code ELSE Default,
     changed |-> old.changed]

Differ(a, b) == a.connected # b.connected \/ a.mode # b.mode

\* Mutant: the old status is taken over though nobody is told.
UpdateUntold(linksts, code) ==
    LET new == NewStatus(physts, linksts, code)
    IN  /\ physts' = [new EXCEPT !.changed = new.changed \/ new.connected # olddphysts.connected]
        /\ olddphysts' = new

\* smsc_update_phy_sts
smsc_update_phy_sts(linksts, code) ==
    LET new == NewStatus(physts, linksts, code)
    IN  IF Differ(new, olddphysts)
        THEN /\ olddphysts' = new
             /\ physts' = [new EXCEPT !.changed = TRUE]
        ELSE /\ physts' = new
             /\ UNCHANGED olddphysts

\* Mutant: 10 Mbps is never set again.
OnlyFaster(ps) ==
    IF ps.changed
    THEN /\ up' = ps.connected
         /\ mac' = IF ps.connected /\ ps.mode # Zero THEN ps.mode ELSE mac
    ELSE UNCHANGED <<up, mac>>

\* Mutant: the interface is set up in the branch of 100 Mbps only.
UpOnlyFast(ps) ==
    IF ps.changed
    THEN /\ up' = (ps.connected /\ ps.mode # Zero)
         /\ mac' = IF ps.connected THEN ps.mode ELSE mac
    ELSE UNCHANGED <<up, mac>>

\* What main() does with the status that the poll returned.
LinkChange(ps) ==
    IF ps.changed
    THEN /\ up' = ps.connected
         /\ mac' = IF ps.connected THEN ps.mode ELSE mac
    ELSE UNCHANGED <<up, mac>>

\* lpcPHYStsPoll, in each state of the poll. A call that finds the bus busy does nothing.
PollStart ==
    /\ phyustate = 0
    /\ StartMIIRead("BSR")
    /\ physts' = [physts EXCEPT !.changed = FALSE]
    /\ phyustate' = 1
    /\ LinkChange(physts')
    /\ UNCHANGED <<hwVars, sts, olddphysts>>

PollSpeed ==
    /\ phyustate = 1 /\ ~mii.busy
    /\ sts' = mii.data
    /\ StartMIIRead("PHYSPLCTL")
    /\ phyustate' = 2
    /\ LinkChange(physts)
    /\ UNCHANGED <<hwVars, physts, olddphysts>>

PollUpdate ==
    /\ phyustate = 2 /\ ~mii.busy
    /\ smsc_update_phy_sts(sts, mii.data)
    /\ phyustate' = 0
    /\ LinkChange(physts')
    /\ UNCHANGED <<hwVars, mii, sts>>

lpcPHYStsPoll == PollStart \/ PollSpeed \/ PollUpdate

-----------------------------------------------------------------------------
\* The interface, the EMAC and the poll agree in every turn of main()'s loop: a status
\* the poll has taken over has been acted upon, and the changed flag is not seen twice.
LinkAgrees ==
    /\ up = olddphysts.connected
    /\ up => mac = olddphysts.mode
    /\ physts.connected = olddphysts.connected /\ physts.mode = olddphysts.mode
    /\ phyustate # 0 => ~physts.changed
=============================================================================
