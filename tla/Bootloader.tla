----------------------------- MODULE Bootloader -----------------------------
(***************************************************************************)
(* The whole boot loader: power-up in main() of WEB_bare_loader, the       *)
(* connections of the web server (httpd.c) and their clients, and the      *)
(* upload of FwUpload. lwIP calls back one handler at a time from the main *)
(* loop, so a handler only starts when pc = "idle".                        *)
(***************************************************************************)
EXTENDS FwUpload

CONSTANTS
    FileLens,    \* lengths of the firmware files users upload
    MaxSeg,      \* most body units one received pbuf chain carries
    MaxRetries,  \* HTTPD_MAX_RETRIES
    MaxAccepts,  \* bound: connections accepted between two power cycles
    MaxBoots     \* bound: times the device is powered up

Capacity == UserEnd + 1 - UserStart

\* A file with its trailer leaves less than a block of the user flash unused at
\* worst one block short of the end: the last, partly filled block still fits.
Fits(n) == n + Trailer + BlockSize <= Capacity

ASSUME LoaderAssumption ==
    /\ FileLens \subseteq Nat
    /\ "oversize" \in Faults \/ \A n \in FileLens : Fits(n)
    /\ MaxSeg \in Nat \ {0} /\ MaxRetries \in Nat \ {0}
    /\ MaxAccepts \in Nat /\ MaxBoots \in Nat

VARIABLES
    mode,     \* "off", "loader" or "app"
    conn,     \* the struct http_state at each address, and its client
    accepts,  \* connections accepted since power-up: the number of the last one
    boots,    \* number of power-ups
    image     \* what was jumped to: the upload and the length of its file

loaderVars == <<mode, conn, accepts, boots, image>>
vars == <<flashVars, uploadVars, pc, rx, loaderVars>>

(***************************************************************************)
(* conn[c].up        an http_state lives at this address                   *)
(*        .left      post_content_len_left                                 *)
(*        .resp      the response prepared by http_init_file: none, the    *)
(*                   page (handle # NULL) or 404 headers (handle = NULL)   *)
(*        .retries   idle polls                                            *)
(*        .id        the number of the client's connection                 *)
(*        .len       the length of the file its client uploads             *)
(*        .sent      body units its client has sent                        *)
(*        .total     body units its client will send in all                *)
(***************************************************************************)
NoConn == [up |-> FALSE, left |-> 0, resp |-> "none", retries |-> 0,
           id |-> 0, len |-> 0, sent |-> 0, total |-> 0]

ConnState == [up : BOOLEAN, left : Nat, resp : {"none", "page", "404"},
              retries : 0 .. MaxRetries - 1, id : Nat, len : Nat, sent : Nat, total : Nat]

NoImage == [id |-> 0, len |-> 0]

LoaderTypeOK ==
    /\ mode \in {"off", "loader", "app"}
    /\ conn \in [Conns -> ConnState]
    /\ accepts \in Nat
    /\ boots \in Nat
    /\ image \in [id : Nat, len : Nat]

TypeOK == FlashTypeOK /\ UploadTypeOK /\ LoaderTypeOK

Init ==
    /\ flash = [x \in UserFlash |-> Byte(0, x - UserStart)]
    /\ FlashRamInit /\ result_table = TRUE
    /\ UploadRamInit
    /\ mode = "off"
    /\ conn = [c \in Conns |-> NoConn]
    /\ accepts = 0 /\ boots = 0
    /\ image = NoImage

-----------------------------------------------------------------------------
\* main(): with the boot pin high, jump to the application, whatever the flash
\* holds; with the pin low, erase every user sector and serve.
ColdStart ==
    /\ mode = "off" /\ boots < MaxBoots
    /\ boots' = boots + 1
    /\ mode' = "app"
    /\ UNCHANGED <<flashVars, uploadVars, pc, rx, conn, accepts, image>>

EnterLoader ==
    /\ mode = "off" /\ boots < MaxBoots
    /\ boots' = boots + 1
    /\ mode' = "loader"
    /\ \E iap \in Answers("erase") :
          /\ result_table' = iap.prepare
          /\ flash' = IF iap.erase THEN [x \in UserFlash |-> Blank] ELSE flash
    /\ UNCHANGED <<flash_address, byte_ctr, uploadVars, pc, rx, conn, accepts, image>>

\* The power fails: only the flash survives.
PowerLoss ==
    /\ mode # "off"
    /\ mode' = "off"
    /\ flash_address' = 0 /\ byte_ctr' = 0 /\ result_table' = TRUE
    /\ UploadRamReset
    /\ conn' = [c \in Conns |-> NoConn]
    /\ accepts' = 0
    /\ image' = NoImage
    /\ UNCHANGED <<flash, boots>>

\* The main loop is free to call a handler.
Ready == mode = "loader" /\ pc = "idle"

\* jump_to_app_section() out of httpd_post_finished for connection c.
Jump(c) ==
    /\ mode' = "app"
    /\ image' = [id |-> conn[c].id, len |-> conn[c].len]
    /\ UNCHANGED <<flashVars, uploadVars, conn, accepts, boots>>

\* An upload is disturbed when its connection ends, or another one takes the
\* upload over, after bytes of a file were taken.
Undisturbed == "disturb" \in Faults \/ curlen = 0

MayLeave(c) == current_connection = c => Undisturbed

-----------------------------------------------------------------------------
\* httpd.c: the life of a connection.

http_accept(c) ==
    /\ Ready /\ ~conn[c].up /\ accepts < MaxAccepts
    /\ accepts' = accepts + 1
    /\ conn' = [conn EXCEPT ![c] = [NoConn EXCEPT !.up = TRUE, !.id = accepts + 1]]
    /\ UNCHANGED <<flashVars, uploadVars, pc, rx, mode, boots, image>>

\* http_close_conn: tells the application only when POST data is outstanding.
http_close_conn(c) ==
    IF conn[c].left # 0 /\ reboot THEN Jump(c) /\ UNCHANGED <<pc, rx>>
    ELSE /\ conn' = [conn EXCEPT ![c] = NoConn]
         /\ IF conn[c].left # 0 THEN Release(c)
            ELSE UNCHANGED current_connection
         /\ UNCHANGED <<flashVars, fwstate, content_length, file_length, curlen, flash_cnt,
                        flash_pos, dataArr, reboot, pc, rx, mode, accepts, boots, image>>

\* The client closes its side (http_recv with no pbuf).
ClientCloses(c) == Ready /\ conn[c].up /\ MayLeave(c) /\ http_close_conn(c)

\* http_err: the pcb is gone (reset, retransmissions exhausted); the state is
\* freed and the POST handler hears nothing.
http_err(c) ==
    /\ Ready /\ conn[c].up /\ MayLeave(c)
    /\ conn' = [conn EXCEPT ![c] = NoConn]
    /\ UNCHANGED <<flashVars, uploadVars, pc, rx, mode, accepts, boots, image>>

\* Mutant: the retries are counted past the limit.
PollPast(c) ==
    /\ Ready /\ conn[c].up /\ conn[c].retries > MaxRetries
    /\ MayLeave(c)
    /\ http_close_conn(c)

\* http_poll: closes after HTTPD_MAX_RETRIES polls without progress; otherwise
\* tries again to send an open file, which ends in a close once it is all queued.
PollOut(c) ==
    /\ Ready /\ conn[c].up /\ conn[c].retries + 1 = MaxRetries
    /\ MayLeave(c)
    /\ http_close_conn(c)

PollSends(c) ==
    /\ Ready /\ conn[c].up /\ conn[c].retries + 1 # MaxRetries
    /\ conn[c].resp = "page" /\ MayLeave(c)
    /\ http_close_conn(c)

PollWaits(c) ==
    /\ Ready /\ conn[c].up /\ conn[c].retries + 1 # MaxRetries
    /\ conn' = [conn EXCEPT ![c].retries = @ + 1]
    /\ UNCHANGED <<flashVars, uploadVars, pc, rx, mode, accepts, boots, image>>

http_poll(c) == PollOut(c) \/ PollSends(c) \/ PollWaits(c)

\* http_sent: the response was acknowledged, the connection is closed.
http_sent(c) ==
    /\ Ready /\ conn[c].up /\ conn[c].resp # "none" /\ conn[c].left = 0
    /\ http_close_conn(c)

-----------------------------------------------------------------------------
\* http_recv: requests. A connection that has no file open parses what arrives.

Parses(c) == Ready /\ conn[c].up /\ conn[c].left = 0 /\ conn[c].resp # "page"

\* A client makes one request on a connection, as the server closes it after the
\* response.
FirstRequest(c) == Parses(c) /\ conn[c].resp = "none" /\ conn[c].total = 0

\* GET of the start page: the page fits the send buffer and the connection is
\* closed with it, or what is left waits for http_sent and http_poll.
GetPage(c) ==
    /\ FirstRequest(c)
    /\ \/ http_close_conn(c)
       \/ /\ conn' = [conn EXCEPT ![c].resp = "page", ![c].retries = 0]
          /\ UNCHANGED <<flashVars, uploadVars, pc, rx, mode, accepts, boots, image>>

\* GET of anything else: no such file, 404 headers.
GetOther(c) ==
    /\ FirstRequest(c)
    /\ conn' = [conn EXCEPT ![c].resp = "404", ![c].retries = 0]
    /\ UNCHANGED <<flashVars, uploadVars, pc, rx, mode, accepts, boots, image>>

\* A request that cannot be parsed, or the body of a refused POST: close.
BadRequest(c) == Parses(c) /\ http_close_conn(c)

\* POST /upload of a file of n units; len units of the body came with the
\* header. http_post_request sets post_content_len_left, then passes them on.
Content(n) == Preamble + n + Trailer

TakeOver(c) == current_connection \in Conns \ {c} => Undisturbed

AcceptPost(c, n, len) ==
    /\ BeginAccepts(c) /\ TakeOver(c)
    /\ conn' = [conn EXCEPT ![c].left = Content(n) - len, ![c].len = n,
                            ![c].sent = len, ![c].total = Content(n)]
    /\ IF len = 0
       THEN httpd_post_begin(c, Content(n)) /\ UNCHANGED <<pc, rx>>
       ELSE BeginAndReceive(c, conn[c].id, len, Content(n))

RefusePost(c, n, len) ==
    /\ ~BeginAccepts(c)
    /\ conn' = [conn EXCEPT ![c].resp = "404", ![c].retries = 0, ![c].len = n,
                            ![c].sent = len, ![c].total = Content(n)]
    /\ UNCHANGED <<uploadVars, pc, rx>>

PostRequest(c, n, len) ==
    /\ FirstRequest(c) /\ len <= Content(n)
    /\ AcceptPost(c, n, len) \/ RefusePost(c, n, len)
    /\ UNCHANGED <<flashVars, mode, accepts, boots, image>>

\* http_recv and http_post_rxpbuf: a chain of len units, head of them in its first
\* pbuf, for a POST that still expects data.
RecvPost(c, len, head) ==
    /\ Ready /\ conn[c].up /\ conn[c].left > 0
    /\ len <= conn[c].total - conn[c].sent
    /\ head = len \/ ("chain" \in Faults /\ head < len)
    /\ conn' = [conn EXCEPT ![c].retries = 0, ![c].sent = @ + len,
                            ![c].left = IF @ < len THEN 0 ELSE @ - len]
    /\ httpd_post_receive_data(c, conn[c].id, conn[c].sent, head)
    /\ UNCHANGED <<flashVars, mode, accepts, boots, image>>

\* Body data a client still sends after its POST was refused.
RecvAfterRefusal(c) ==
    /\ conn[c].sent < conn[c].total
    /\ BadRequest(c)

\* The rest of http_post_rxpbuf after httpd_post_receive_data: the POST is over
\* when the application refused the data or all of it has come. Unless it jumps, a callback
\* that overran flash_buf returns to lwIP with the interface, lpc_netif, overwritten.
PostOver == ~rx.ok \/ conn[rx.conn].left = 0

PostReturn ==
    /\ mode = "loader" /\ pc = "return"
    /\ pc' = After("idle") /\ rx' = NoRx
    /\ \/ ~PostOver /\ UNCHANGED <<flashVars, uploadVars, loaderVars>>
       \/ PostOver /\ reboot /\ Jump(rx.conn)
       \/ /\ PostOver /\ ~reboot
          /\ Release(rx.conn)
          /\ conn' = [conn EXCEPT ![rx.conn].resp = "404", ![rx.conn].retries = 0]
          /\ UNCHANGED <<flashVars, fwstate, content_length, file_length, curlen, flash_cnt,
                         flash_pos, dataArr, reboot, mode, accepts, boots, image>>

\* The steps of FwUpload inside the callback.
Loop == mode = "loader" /\ StreamLoop /\ UNCHANGED loaderVars

Tail == mode = "loader" /\ StreamTail /\ UNCHANGED loaderVars

Corrupt == mode = "loader" /\ Overrun /\ UNCHANGED loaderVars

-----------------------------------------------------------------------------
Request(c) ==
    \/ GetPage(c) \/ GetOther(c)
    \/ conn[c].total = 0 /\ BadRequest(c)
    \/ RecvAfterRefusal(c)
    \/ \E n \in FileLens, len \in 0 .. MaxSeg : PostRequest(c, n, len)

Receive(c) == \E len, head \in 1 .. MaxSeg : RecvPost(c, len, head)

ConnNext(c) ==
    \/ http_accept(c) \/ Request(c) \/ Receive(c)
    \/ ClientCloses(c) \/ http_err(c) \/ http_sent(c) \/ http_poll(c)

Handler == Loop \/ Tail \/ PostReturn \/ Corrupt

Power == ColdStart \/ EnterLoader \/ PowerLoss

Next == Power \/ Handler \/ \E c \in Conns : ConnNext(c)

Spec == Init /\ [][Next]_vars

\* The main loop runs a callback to its end, and the TCP slow timer keeps polling
\* every connection.
Fairness == WF_vars(Handler) /\ \A c \in Conns : WF_vars(http_poll(c))

LiveSpec == Spec /\ Fairness

\* In addition, a client that has body data left keeps sending it.
ClientFairness == \A c \in Conns : WF_vars(Receive(c))

SendingSpec == LiveSpec /\ ClientFairness

-----------------------------------------------------------------------------
\* The flash f begins with the first n bytes of the file of upload u.
Holds(f, u, n) == \A k \in 0 .. n - 1 : f[UserStart + k] = Byte(u, Preamble + k)

\* FirmwareUpdate as this loader implements it: an upload is stored as far as the
\* flash begins with the bytes of its file.
StoredPrefix(f, u) ==
    CHOOSE n \in 0 .. Capacity :
        /\ Holds(f, u, n)
        /\ n < Capacity => f[UserStart + n] # Byte(u, Preamble + n)

\* How much of any upload is stored.
MostStored(f) ==
    LET u == CHOOSE u \in 1 .. MaxAccepts + 1 :
             \A v \in 1 .. MaxAccepts + 1 : StoredPrefix(f, v) <= StoredPrefix(f, u)
    IN  StoredPrefix(f, u)

Running == IF mode # "app" THEN mode ELSE IF image.id = 0 THEN "cold" ELSE "image"

StoredNow == IF Running \in {"off", "cold"} THEN 0 ELSE MostStored(flash)

Update == INSTANCE FirmwareUpdate WITH
    Lengths <- FileLens, Chunk <- BlockSize,
    run <- Running, stored <- StoredNow, size <- image.len

\* The loader implements FirmwareUpdate: it stores in order, keeps what it stored
\* and hands over to complete images only.
ImplementsUpdate == Update!Spec

\* When an upload makes the loader jump, the application area holds the file of
\* that upload, complete and from its first byte. (post_example.c: DONE sets
\* reboot, httpd_post_finished jumps.)
ImageInFlash(u, n) == Holds(flash, u, n)

BootComplete ==
    mode = "app" /\ image.id # 0 => ImageInFlash(image.id, image.len)

\* No flash cell is programmed twice between two erases: writing a block at a
\* stale flash_pos would corrupt what is there.
NoDoubleProgram == \A x \in UserFlash : flash[x] # Mixed

\* While an upload streams, the blocks below flash_pos are exactly the first bytes
\* of its file and dataArr continues them: nothing lost, doubled or reordered on
\* the way from the pbufs through dataArr and flash_buf to the flash.
Collecting(u) ==
    /\ \A k \in 0 .. flash_pos - UserStart - 1 :
           flash[UserStart + k] = Byte(u, Preamble + k)
    /\ \A i \in 0 .. flash_cnt - 1 :
           dataArr[i] = Byte(u, Preamble + (flash_pos - UserStart) + i)

StreamIntact ==
    (mode = "loader" /\ fwstate = "OCTET_STREAM" /\ current_connection # NULL)
        => Collecting(conn[current_connection].id)

\* How far the flash is written: flash_pos, until a block is given to write_flash() while
\* an unprogrammed one is still in flash_buf. From then on nothing more is programmed, and
\* the image ends where that one should have begun.
StoredEnd == IF byte_ctr > BlockSize THEN flash_address ELSE flash_pos

\* The area that counts as written has no hole, whichever IAP calls fail and whatever
\* uploads were abandoned or taken over: a failed call leaves flash_pos where it is, and
\* only the blocks that are lost behind flash_buf, which write_flash() reports as
\* written, move it away from the end of the image.
NoHoles ==
    mode = "loader" => \A x \in UserFlash : x < StoredEnd => flash[x] # Blank

\* No byte of an upload lies above that, except in the last, partly filled block of an
\* update that is done: with NoHoles, StoredEnd is exactly how far the flash was
\* written, and the next block always meets erased cells, whatever uploads were
\* started, abandoned or taken over since the user sectors were erased.
FirstFree == IF reboot THEN StoredEnd + BlockSize ELSE StoredEnd

NothingAbove ==
    mode = "loader" => \A x \in UserFlash : x >= FirstFree => flash[x] = Blank

\* "Called for each pbuf of data that has been received for a POST" (httpd.h:203,
\* of httpd_post_receive_data): all the file bytes the server has acknowledged
\* and counted against Content-Length were handed to the state machine.
EveryPbufTaken ==
    (/\ mode = "loader" /\ pc = "idle"
     /\ fwstate = "OCTET_STREAM" /\ current_connection # NULL)
        => curlen = conn[current_connection].sent - Preamble

\* "Continue to process netconn_recv() buffers until file bytes are received"
\* (post_example.c:214): the update is only declared done when the client of the
\* current connection has sent its whole file.
DoneAfterAllBytes ==
    (mode = "loader" /\ reboot /\ current_connection # NULL) =>
        LET cc == conn[current_connection] IN cc.sent >= Preamble + cc.len

\* "We have accumulated enough bytes to trigger a flash write" (main.c:172): the
\* bytes accumulated in flash_buf never exceed FLASH_BUF_SIZE.
FlashBufBounded == byte_ctr <= BlockSize

\* Every connection ends: the web server sheds a client that stalls in the middle
\* of an upload or never asks for anything, so its state is not leaked.
ConnectionEnds ==
    \A c \in Conns : conn[c].up ~> ~conn[c].up \/ mode # "loader" \/ pc = "corrupt"

\* An upload of which a first file byte was taken ends in a jump to the new
\* application (or in a power failure) when its client keeps sending: no byte
\* count, poll or other connection makes it hang.
UploadBoots == (mode = "loader" /\ curlen > 0) ~> mode # "loader"

-----------------------------------------------------------------------------
(***************************************************************************)
(* The inductive invariant behind BootComplete, for Faults = {}.           *)
(***************************************************************************)

\* No block is left pending in flash_buf.
NothingPending == byte_ctr = 0 /\ flash_address = 0 /\ pc # "corrupt"

\* After a reset the statically initialised variables have their values.
OffInv ==
    mode = "off" =>
        /\ pc = "idle" /\ curlen = 0 /\ flash_cnt = 0 /\ flash_pos = UserStart
        /\ ~reboot /\ current_connection = NULL /\ image.id = 0
        /\ \A c \in Conns : conn[c].left = 0

\* The connection whose body the state machine is in the middle of.
Owner(c) ==
    /\ current_connection = c
    /\ conn[c].left > 0 \/ pc \in {"stream", "tail"} \/ reboot

\* The counters of httpd.c and post_example.c agree about the owner.
OwnerInv ==
    mode = "loader" => \A c \in Conns : Owner(c) =>
        /\ conn[c].up /\ conn[c].len \in FileLens
        /\ conn[c].total = Content(conn[c].len) /\ content_length = conn[c].total
        /\ conn[c].left = conn[c].total - conn[c].sent
        /\ fwstate = "OCTET_START" => conn[c].sent = 0
        /\ fwstate = "OCTET_STREAM" \/ reboot =>
               /\ file_length = conn[c].len + Trailer
               /\ conn[c].sent = Preamble + curlen

\* A freed or idle address expects no data.
DownInv == \A c \in Conns : ~conn[c].up => conn[c].left = 0

\* The pbuf being processed belongs to the upload.
RxInv ==
    mode = "loader" =>
        /\ pc \in {"stream", "tail"} =>
               /\ current_connection \in Conns /\ rx.conn = current_connection /\ rx.ok
               /\ rx.id = conn[current_connection].id
               /\ rx.end = conn[current_connection].sent
               /\ curlen > 0 /\ fwstate = "OCTET_STREAM" /\ ~reboot
        /\ pc = "stream" => Preamble <= rx.next /\ rx.next < rx.end
        /\ pc = "return" => rx.conn \in Conns /\ (rx.conn = current_connection => rx.ok)

\* flash_pos and flash_cnt account for every file byte taken.
Position ==
    mode = "loader" =>
        /\ flash_pos >= UserStart
        /\ (IF pc = "stream" THEN rx.next - Preamble ELSE curlen)
               = (flash_pos - UserStart) + flash_cnt

\* Once file bytes were taken the upload goes on to its end.
Progress ==
    mode = "loader" =>
        /\ curlen = 0 => ~reboot /\ flash_pos = UserStart
        /\ curlen > 0 =>
               /\ current_connection \in Conns /\ Owner(current_connection)
               /\ fwstate = "OCTET_STREAM" \/ reboot
               /\ pc \in {"idle", "return"} /\ ~reboot => curlen < file_length
        /\ reboot =>
               /\ pc = "return" /\ rx.conn = current_connection /\ fwstate = "HEADER"
               /\ curlen > 0 /\ file_length <= curlen

\* What has been stored is the beginning of the file, the rest is blank.
Stored ==
    mode = "loader" =>
        /\ curlen > 0 /\ ~reboot => Collecting(conn[current_connection].id)
        /\ ~reboot => \A x \in UserFlash : x >= flash_pos => flash[x] = Blank
        /\ reboot => ImageInFlash(conn[current_connection].id, curlen)

\* NoHoles is inductive with this: a block that waits in flash_buf belongs at flash_pos,
\* and the part of dataArr below flash_cnt holds bytes of an upload.
DataFilled ==
    /\ byte_ctr = 0 => flash_address = 0
    /\ 0 < byte_ctr /\ byte_ctr <= BlockSize => flash_address = flash_pos
    /\ \A i \in 0 .. flash_cnt - 1 : dataArr[i] # Blank
    /\ mode = "off" => flash_pos = UserStart /\ byte_ctr = 0

\* The invariant behind BootComplete and StreamIntact.
IndInv ==
    /\ NothingPending /\ OffInv /\ OwnerInv /\ DownInv /\ RxInv /\ Position
    /\ Progress /\ Stored /\ BootComplete
=============================================================================
