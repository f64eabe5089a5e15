---------------------------- MODULE FlashWriter ----------------------------
(***************************************************************************)
(* The flash writer of the boot loader: write_flash() and its helpers in   *)
(* WEB_bare_loader/example/src/main.c, on top of the IAP routines of the   *)
(* boot ROM (external: prepare, erase, copy RAM to flash).                 *)
(*                                                                         *)
(* Addresses and lengths are counted in units, a unit being the smallest   *)
(* run of bytes the model tells apart; FLASH_BUF_SIZE is BlockSize units.  *)
(* Both callers pass exactly FLASH_BUF_SIZE bytes: flash_buf is empty when  *)
(* write_flash() is entered, full after a failed IAP call, or overrun.     *)
(***************************************************************************)
EXTENDS Integers

CONSTANTS
    BlockSize,    \* FLASH_BUF_SIZE
    UserStart,    \* SECTOR_START(USER_START_SECTOR)
    UserEnd,      \* SECTOR_END(MAX_USER_SECTOR)
    SectorStart,  \* SECTOR_START(i) for every user sector i
    Blank,        \* an erased flash cell (0xff)
    Zero,         \* a byte of zero-initialised RAM that no upload wrote
    Mixed,        \* a cell programmed twice with different data
    Faults        \* the disturbances the environment may produce

FaultKinds == {"iap", "erase", "disturb", "chain", "oversize", "tag"}

ASSUME FlashAssumption ==
    /\ BlockSize \in Nat \ {0}
    /\ UserStart \in Nat \ {0}
    /\ UserEnd \in Nat
    /\ UserStart + BlockSize - 1 <= UserEnd
    /\ SectorStart \subseteq UserStart .. UserEnd
    /\ UserStart \in SectorStart
    /\ Faults \subseteq FaultKinds

\* The byte at offset k of the body of upload u. Upload 0 is the firmware
\* that was in the flash before the first power-up.
Byte(u, k) == <<u, k>>

ASSUME CellAssumption ==
    /\ Blank \notin Nat \X Nat /\ Zero \notin Nat \X Nat /\ Mixed \notin Nat \X Nat
    /\ Blank # Zero /\ Blank # Mixed /\ Zero # Mixed

Cell == (Nat \X Nat) \cup {Blank, Zero, Mixed}
UserFlash == UserStart .. UserEnd
Block == [0 .. BlockSize - 1 -> Cell]

VARIABLES
    flash,          \* the user sectors
    flash_address,  \* destination of the pending block, 0 when there is none
    byte_ctr,       \* bytes held in flash_buf, and behind it
    result_table    \* result_table[0]: whether the last IAP call succeeded

flashVars == <<flash, flash_address, byte_ctr, result_table>>

\* What the boot ROM may answer to the calls of one write_flash() ("iap"), and to
\* those of the erase at power-up ("erase"): whether the prepare and the erase of a
\* sector both succeed, the prepare that follows, and the copy.
Answers(fault) ==
    LET ok == IF fault \in Faults THEN BOOLEAN ELSE {TRUE}
    IN  [erase : ok, prepare : ok, copy : ok]

IapOutcome == Answers("iap")

-----------------------------------------------------------------------------
\* Flash cells: erasing blanks them, programming can only turn blank into data.

Burn(old, new) ==
    IF old = Blank THEN new
    ELSE IF new = Blank \/ old = new THEN old ELSE Mixed

\* The cells of the sector that starts at address a.
SectorAt(a) == {x \in UserFlash : x >= a /\ \A s \in SectorStart : s > a => x < s}

EraseSector(f, a) == [x \in UserFlash |-> IF x \in SectorAt(a) THEN Blank ELSE f[x]]

CopyRamToFlash(f, a, src) ==
    [x \in UserFlash |-> IF x \in a .. a + BlockSize - 1 THEN Burn(f[x], src[x - a])
                         ELSE f[x]]

InUserFlash(a) == a >= UserStart /\ a + BlockSize - 1 <= UserEnd

\* Mutant: the sector of every block is erased.
EraseAlways(a, iap) ==
    LET first == CHOOSE s \in SectorStart : s <= a /\ \A t \in SectorStart : t <= a => t <= s
    IN  EraseSector(flash, first)

\* find_erase_prepare_sector: erases the sector when the address is its first
\* one; the result of the erase is overwritten by the second prepare. No sector
\* contains an address past the end, and the old result_table is left standing.
FindErasePrepare(a, iap) ==
    IF a \in SectorStart /\ iap.erase THEN EraseSector(flash, a) ELSE flash

Prepared(a, iap) == IF InUserFlash(a) THEN iap.prepare ELSE result_table

Address(dst) == IF flash_address = 0 THEN dst ELSE flash_address

\* The value write_flash() returns, CMD_SUCCESS being TRUE.
WriteOk(dst, iap) ==
    LET a == Address(dst) IN Prepared(a, iap) /\ InUserFlash(a) /\ iap.copy

\* write_flash() when flash_buf is empty. A failed IAP call returns early and
\* keeps byte_ctr and flash_address.
WriteFlash(dst, src, iap) ==
    LET a == Address(dst)
        erased == FindErasePrepare(a, iap)
    IN  /\ byte_ctr = 0
        /\ result_table' = WriteOk(dst, iap)
        /\ IF WriteOk(dst, iap)
           THEN /\ flash' = CopyRamToFlash(erased, a, src)
                /\ byte_ctr' = 0 /\ flash_address' = 0
           ELSE /\ flash' = erased
                /\ byte_ctr' = BlockSize /\ flash_address' = a

\* write_flash() when flash_buf still holds a block: the new one is copied behind it.
\* byte_ctr steps over FLASH_BUF_SIZE, so nothing is programmed, and CMD_SUCCESS is
\* returned. The linker placed result_table, among others, behind flash_buf.
WriteBehind ==
    /\ byte_ctr # 0
    /\ byte_ctr' = byte_ctr + BlockSize
    /\ result_table' \in BOOLEAN
    /\ UNCHANGED <<flash, flash_address>>

FlashTypeOK ==
    /\ flash \in [UserFlash -> Cell]
    /\ flash_address \in Nat
    /\ byte_ctr \in Nat
    /\ result_table \in BOOLEAN

FlashRamInit == flash_address = 0 /\ byte_ctr = 0
=============================================================================
