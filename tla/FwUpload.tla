------------------------------ MODULE FwUpload ------------------------------
(***************************************************************************)
(* The POST handler of the boot loader: the multipart state machine of     *)
(* WEB_bare_loader/example/src/post_example.c, which collects the body of  *)
(* an upload into blocks and hands them to write_flash().                  *)
(*                                                                         *)
(* Everything runs in the main loop, one callback at a time. A callback    *)
(* that received data is split at its loop iterations, so that the power   *)
(* may fail between two of them: pc says where the main loop is.           *)
(*                                                                         *)
(* The body of an upload is Preamble units (the last one holding the       *)
(* "application/octet-stream" line), the file, and Trailer units (the      *)
(* closing boundary). State HEADER skips every buffer: only a body that    *)
(* itself starts with "POST /upload" would be taken for a header, and that *)
(* is not modelled.                                                        *)
(***************************************************************************)
EXTENDS FlashWriter

CONSTANTS
    Conns,      \* the addresses malloc may give a struct http_state
    NULL,       \* no connection
    Preamble,   \* length of the multipart header in front of the file
    Trailer     \* length of the closing multipart boundary

ASSUME UploadAssumption ==
    /\ NULL \notin Conns
    /\ Preamble \in Nat \ {0}
    /\ Trailer \in Nat

VARIABLES
    fwstate,             \* fwupdate.state
    content_length,      \* fwupdate.content_length
    file_length,         \* fwupdate.file_length
    curlen,              \* file bytes taken so far
    flash_cnt,           \* bytes collected in dataArr
    flash_pos,           \* address of the block being collected
    dataArr,             \* the block being collected
    reboot,              \* jump to the application when the POST finishes
    current_connection,  \* the connection that owns the upload
    pc,                  \* where the main loop is
    rx                   \* the pbuf being processed and its connection

uploadVars == <<fwstate, content_length, file_length, curlen, flash_cnt, flash_pos,
                dataArr, reboot, current_connection>>

NoRx == [conn |-> NULL, id |-> 0, next |-> 0, end |-> 0, ok |-> TRUE]

Rx == [conn : Conns \cup {NULL}, id : Nat, next : Nat, end : Nat, ok : BOOLEAN]

UploadTypeOK ==
    /\ fwstate \in {"HEADER", "OCTET_START", "OCTET_STREAM"}
    /\ content_length \in Nat
    /\ file_length \in Int
    /\ curlen \in Nat
    /\ flash_cnt \in 0 .. BlockSize - 1
    /\ flash_pos \in Nat
    /\ dataArr \in Block
    /\ reboot \in BOOLEAN
    /\ current_connection \in Conns \cup {NULL}
    /\ pc \in {"idle", "stream", "tail", "return", "corrupt"}
    /\ rx \in Rx

\* The statically initialised variables after a reset.
UploadRamInit ==
    /\ fwstate = "HEADER"
    /\ content_length = 0 /\ file_length = 0
    /\ curlen = 0 /\ flash_cnt = 0 /\ flash_pos = UserStart
    /\ dataArr = [i \in 0 .. BlockSize - 1 |-> Zero]
    /\ reboot = FALSE
    /\ current_connection = NULL
    /\ pc = "idle" /\ rx = NoRx

UploadRamReset ==
    /\ fwstate' = "HEADER"
    /\ content_length' = 0 /\ file_length' = 0
    /\ curlen' = 0 /\ flash_cnt' = 0 /\ flash_pos' = UserStart
    /\ dataArr' = [i \in 0 .. BlockSize - 1 |-> Zero]
    /\ reboot' = FALSE
    /\ current_connection' = NULL
    /\ pc' = "idle" /\ rx' = NoRx

-----------------------------------------------------------------------------
\* httpd_post_begin accepts /upload from any connection but the current one.
BeginAccepts(c) == current_connection # c

\* Mutant: a new upload starts at the first user sector again, which nothing erased.
BeginAtStart(c, clen) ==
    /\ fwstate' = "OCTET_START"
    /\ content_length' = clen
    /\ current_connection' = c
    /\ flash_pos' = UserStart /\ curlen' = 0 /\ flash_cnt' = 0
    /\ UNCHANGED <<file_length, dataArr, reboot>>

\* It restarts the multipart state machine; curlen, flash_cnt and flash_pos keep
\* the values the previous upload left.
httpd_post_begin(c, clen) ==
    /\ fwstate' = "OCTET_START"
    /\ content_length' = clen
    /\ current_connection' = c
    /\ UNCHANGED <<file_length, curlen, flash_cnt, flash_pos, dataArr, reboot>>

\* httpd_post_receive_data up to the loop over the bytes, for the units
\* from .. from + len - 1 of upload id: len is the length of the first pbuf of the
\* chain. Begun is the state machine's state after an accepted httpd_post_begin
\* of the same callback, or the current one.
TagInBuffer(from, len) == from <= Preamble - 1 /\ Preamble - 1 < from + len

Ignore(c, ok) ==
    /\ pc' = "return"
    /\ rx' = [NoRx EXCEPT !.conn = c, !.ok = ok]
    /\ UNCHANGED <<file_length, curlen>>

\* OCTET_START: the tag must be in this very buffer.
StartStream(c, id, from, len, clen, body) ==
    /\ fwstate' = "OCTET_STREAM"
    /\ file_length' = clen - (body - from)
    /\ IF body < from + len
       THEN /\ curlen' = curlen + (from + len - body)
            /\ pc' = "stream"
            /\ rx' = [conn |-> c, id |-> id, next |-> body, end |-> from + len, ok |-> TRUE]
       ELSE /\ curlen' = curlen
            /\ pc' = "return"
            /\ rx' = [NoRx EXCEPT !.conn = c]

OctetStart(c, id, from, len, clen) ==
    IF TagInBuffer(from, len) THEN StartStream(c, id, from, len, clen, Preamble)
    ELSE \/ fwstate' = "HEADER" /\ Ignore(c, TRUE)
         \* strstr() runs past the buffer and finds the tag an earlier frame left
         \/ /\ "tag" \in Faults
            /\ \E stale \in 1 .. Preamble :
                   StartStream(c, id, from, len, clen, from + len + stale)

OctetStream(c, id, from, len) ==
    /\ curlen' = curlen + len
    /\ pc' = "stream"
    /\ rx' = [conn |-> c, id |-> id, next |-> from, end |-> from + len, ok |-> TRUE]
    /\ UNCHANGED <<fwstate, file_length>>

httpd_post_receive_data(c, id, from, len) ==
    /\ \/ current_connection # c /\ Ignore(c, FALSE) /\ UNCHANGED fwstate
       \/ /\ current_connection = c
          /\ \/ fwstate = "HEADER" /\ Ignore(c, TRUE) /\ UNCHANGED fwstate
             \/ fwstate = "OCTET_START" /\ OctetStart(c, id, from, len, content_length)
             \/ fwstate = "OCTET_STREAM" /\ OctetStream(c, id, from, len)
    /\ UNCHANGED <<content_length, flash_cnt, flash_pos, dataArr, reboot,
                   current_connection>>

\* httpd_post_begin followed, in the same callback, by httpd_post_receive_data
\* for the part of the body that came with the request.
BeginAndReceive(c, id, len, clen) ==
    /\ OctetStart(c, id, 0, len, clen)
    /\ content_length' = clen
    /\ current_connection' = c
    /\ UNCHANGED <<flash_cnt, flash_pos, dataArr, reboot>>

-----------------------------------------------------------------------------
\* One pass of the loop of OCTET_STREAM, up to the end of the pbuf or of the block.
Least(a, b) == IF a <= b THEN a ELSE b

Taken == Least(rx.end - rx.next, BlockSize - flash_cnt)

Collected(n) ==
    [i \in 0 .. BlockSize - 1 |->
        IF i \in flash_cnt .. flash_cnt + n - 1 THEN Byte(rx.id, rx.next + (i - flash_cnt))
        ELSE dataArr[i]]

\* Mutant: the index into dataArr restarts with every pbuf.
FillFromStart ==
    /\ flash_cnt + Taken < BlockSize
    /\ flash_cnt' = Taken
    /\ dataArr' = Collected(Taken)
    /\ UNCHANGED <<flash_pos, flashVars>>

\* Copy to dataArr; the block is not full yet.
FillBlock ==
    /\ flash_cnt + Taken < BlockSize
    /\ flash_cnt' = flash_cnt + Taken
    /\ dataArr' = Collected(Taken)
    /\ UNCHANGED <<flash_pos, flashVars>>

\* Mutant: flash_pos advances to the last byte of the block instead of past it.
WriteShort ==
    /\ flash_cnt + Taken = BlockSize
    /\ flash_cnt' = 0
    /\ \E iap \in IapOutcome : WriteFlash(flash_pos, Collected(Taken), iap)
    /\ flash_pos' = flash_pos + BlockSize - 1
    /\ dataArr' = Collected(Taken)

\* Mutant: flash_cnt is not reset.
WriteKeepingCount ==
    /\ flash_cnt + Taken = BlockSize
    /\ flash_cnt' = flash_cnt + Taken
    /\ \E iap \in IapOutcome : WriteFlash(flash_pos, Collected(Taken), iap)
    /\ flash_pos' = flash_pos + BlockSize
    /\ dataArr' = Collected(Taken)

\* Mutant: flash_pos advances whatever write_flash() returns.
WriteAndAdvance ==
    /\ flash_cnt + Taken = BlockSize
    /\ flash_cnt' = 0
    /\ \E iap \in IapOutcome : WriteFlash(flash_pos, Collected(Taken), iap)
    /\ flash_pos' = flash_pos + BlockSize
    /\ dataArr' = [i \in 0 .. BlockSize - 1 |-> Blank]

\* The block is full: write it out; on a failure flash_pos stays and the loop goes on.
WriteBlock ==
    /\ flash_cnt + Taken = BlockSize
    /\ flash_cnt' = 0
    /\ \E iap \in IapOutcome :
          /\ WriteFlash(flash_pos, Collected(Taken), iap)
          /\ IF WriteOk(flash_pos, iap)
             THEN /\ flash_pos' = flash_pos + BlockSize
                  /\ dataArr' = [i \in 0 .. BlockSize - 1 |-> Blank]
             ELSE /\ flash_pos' = flash_pos
                  /\ dataArr' = Collected(Taken)

StreamLoop ==
    /\ pc = "stream"
    /\ FillBlock \/ WriteBlock
    /\ rx' = [rx EXCEPT !.next = @ + Taken]
    /\ pc' = IF rx'.next = rx.end THEN "tail" ELSE "stream"
    /\ UNCHANGED <<fwstate, content_length, file_length, curlen, reboot,
                   current_connection>>

\* Mutant: off by one.
FinishedLate == curlen > file_length

\* After the loop: were file_length bytes counted?
Finished == curlen >= file_length

\* Mutant: a partly filled last block is not written.
DropLast == UNCHANGED flashVars

\* The last block, whole or not, is written.
WriteLast ==
    IF flash_cnt > 0 THEN \E iap \in IapOutcome : WriteFlash(flash_pos, dataArr, iap)
    ELSE UNCHANGED flashVars

\* The update is DONE, whatever write_flash() returned.
StreamTail ==
    /\ pc = "tail"
    /\ IF Finished THEN WriteLast /\ fwstate' = "HEADER" /\ reboot' = TRUE
       ELSE UNCHANGED <<flashVars, fwstate, reboot>>
    /\ pc' = "return"
    /\ UNCHANGED <<rx, content_length, file_length, curlen, flash_cnt, flash_pos, dataArr,
                   current_connection>>

\* What else lies behind flash_buf is overwritten with bytes of the block: curlen, of
\* which only matters whether it reaches file_length, and current_connection, which
\* then points anywhere.
Clobber ==
    /\ curlen' \in {0, content_length}
    /\ current_connection' \in Conns \cup {NULL}

\* A second block behind flash_buf also overwrites flash_cnt, fwupdate, reboot and the
\* heap; what the callback does with these is not followed.
After(place) == IF byte_ctr > BlockSize THEN "corrupt" ELSE place

\* The block is full while flash_buf holds one that could not be programmed: it is lost,
\* and flash_pos passes it, as write_flash() returned CMD_SUCCESS.
OverrunBlock ==
    /\ pc = "stream" /\ flash_cnt + Taken = BlockSize
    /\ WriteBehind /\ Clobber
    /\ flash_cnt' = 0
    /\ flash_pos' = flash_pos + BlockSize
    /\ dataArr' = [i \in 0 .. BlockSize - 1 |-> Blank]
    /\ rx' = [rx EXCEPT !.next = @ + Taken]
    /\ pc' = After(IF rx'.next = rx.end THEN "tail" ELSE "stream")
    /\ UNCHANGED <<fwstate, content_length, file_length, reboot>>

\* Likewise the last block. (It moves dataArr down in itself, which nothing reads again.)
OverrunLast ==
    /\ pc = "tail" /\ Finished /\ flash_cnt > 0
    /\ WriteBehind /\ Clobber
    /\ fwstate' = "HEADER" /\ reboot' = TRUE
    /\ pc' = After("return")
    /\ UNCHANGED <<rx, content_length, file_length, flash_cnt, flash_pos, dataArr>>

Overrun == OverrunBlock \/ OverrunLast

\* httpd_post_finished when it does not jump to the application.
Release(c) == current_connection' = IF current_connection = c THEN NULL
                                    ELSE current_connection
=============================================================================
