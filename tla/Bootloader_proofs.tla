-------------------------- MODULE Bootloader_proofs --------------------------
(***************************************************************************)
(* Proofs about the boot loader, for every size of block, flash, file and  *)
(* segment and any number of connections and power cycles:                 *)
(*   TypeCorrect   the type invariant, under every fault;                  *)
(*   NoHolesBelow  the flash area that counts as written has no hole,      *)
(*                 under every fault;                                      *)
(*   NothingIsAbove   and the area above it is erased, provided the erase  *)
(*                 at power-up does not fail.                              *)
(***************************************************************************)
EXTENDS Bootloader, TLAPS

\* The loop only runs while the pbuf holds unread bytes; a handler knows its
\* connection.
RxOrder ==
    /\ pc = "stream" => rx.next < rx.end
    /\ pc \in {"stream", "tail", "return"} => rx.conn \in Conns

TypeInv == TypeOK /\ RxOrder

\* Programming and erasing keep the flash a function from its addresses to cells.
LEMMA BurnType == ASSUME NEW o \in Cell, NEW n \in Cell PROVE Burn(o, n) \in Cell
BY DEF Burn, Cell

LEMMA CopyType ==
    ASSUME NEW f \in [UserFlash -> Cell], NEW a \in Nat, NEW src \in Block
    PROVE  CopyRamToFlash(f, a, src) \in [UserFlash -> Cell]
<1> SUFFICES ASSUME NEW x \in UserFlash, x \in a .. a + BlockSize - 1
             PROVE  Burn(f[x], src[x - a]) \in Cell
    BY DEF CopyRamToFlash
<1>1. x - a \in 0 .. BlockSize - 1
    BY FlashAssumption DEF UserFlash
<1>2. src[x - a] \in Cell /\ f[x] \in Cell
    BY <1>1 DEF Block
<1> QED BY <1>2, BurnType

LEMMA EraseType ==
    ASSUME NEW f \in [UserFlash -> Cell], NEW a
    PROVE  EraseSector(f, a) \in [UserFlash -> Cell]
BY DEF EraseSector, Cell

LEMMA IapType == ASSUME NEW fault, NEW iap \in Answers(fault)
                 PROVE  iap.erase \in BOOLEAN /\ iap.prepare \in BOOLEAN /\ iap.copy \in BOOLEAN
BY DEF Answers

LEMMA WriteFlashType ==
    ASSUME FlashTypeOK, NEW dst \in Nat, NEW src \in Block, NEW iap \in IapOutcome,
           WriteFlash(dst, src, iap)
    PROVE  FlashTypeOK'
<1> DEFINE a == Address(dst)
<1>1. a \in Nat
    BY DEF Address, FlashTypeOK
<1>2. FindErasePrepare(a, iap) \in [UserFlash -> Cell]
    BY EraseType DEF FindErasePrepare, FlashTypeOK
<1>3. WriteOk(dst, iap) \in BOOLEAN
    BY IapType DEF IapOutcome, WriteOk, Prepared, FlashTypeOK
<1>4. result_table' \in BOOLEAN
    BY <1>3 DEF WriteFlash
<1>5. CopyRamToFlash(FindErasePrepare(a, iap), a, src) \in [UserFlash -> Cell]
    BY <1>1, <1>2, CopyType
<1>6. CASE WriteOk(dst, iap)
    BY <1>4, <1>5, <1>6 DEF WriteFlash, FlashTypeOK
<1>7. CASE ~WriteOk(dst, iap)
    BY <1>1, <1>2, <1>4, <1>7, FlashAssumption DEF WriteFlash, FlashTypeOK
<1> QED BY <1>6, <1>7

-----------------------------------------------------------------------------
\* The handler of received data keeps the types.

LEMMA ByteType == ASSUME NEW u \in Nat, NEW k \in Nat PROVE Byte(u, k) \in Cell
BY DEF Byte, Cell

LEMMA CollectedType ==
    ASSUME TypeOK, NEW n \in Nat
    PROVE  Collected(n) \in Block
<1> SUFFICES ASSUME NEW i \in 0 .. BlockSize - 1
             PROVE  (IF i \in flash_cnt .. flash_cnt + n - 1
                     THEN Byte(rx.id, rx.next + (i - flash_cnt)) ELSE dataArr[i]) \in Cell
    BY DEF Collected, Block
<1>1. CASE i \in flash_cnt .. flash_cnt + n - 1
    <2>1. rx.id \in Nat /\ rx.next + (i - flash_cnt) \in Nat
        BY <1>1 DEF TypeOK, UploadTypeOK, Rx
    <2> QED BY <1>1, <2>1, ByteType
<1>2. CASE i \notin flash_cnt .. flash_cnt + n - 1
    BY <1>2 DEF TypeOK, UploadTypeOK, Block
<1> QED BY <1>1, <1>2

LEMMA TakenRange ==
    ASSUME TypeInv, pc = "stream"
    PROVE  Taken \in 1 .. BlockSize /\ flash_cnt + Taken <= BlockSize
           /\ rx.next + Taken <= rx.end
BY FlashAssumption DEF Taken, Least, TypeInv, RxOrder, TypeOK, UploadTypeOK, Rx

LEMMA LoopType == ASSUME TypeInv, Loop PROVE TypeInv'
<1>1. pc = "stream" /\ Taken \in 1 .. BlockSize /\ flash_cnt + Taken <= BlockSize
      /\ rx.next + Taken <= rx.end
    BY TakenRange DEF Loop, StreamLoop
<1>2. Collected(Taken) \in Block
    BY <1>1, CollectedType DEF TypeInv
<1>3. FlashTypeOK' /\ flash_cnt' \in 0 .. BlockSize - 1 /\ dataArr' \in Block /\ flash_pos' \in Nat
    <2>1. CASE FillBlock
        BY <2>1, <1>1, <1>2, FlashAssumption DEF FillBlock, TypeInv, TypeOK, FlashTypeOK, UploadTypeOK, flashVars
    <2>2. CASE WriteBlock
        <3>1. PICK iap \in IapOutcome :
                 /\ WriteFlash(flash_pos, Collected(Taken), iap)
                 /\ IF WriteOk(flash_pos, iap)
                    THEN /\ flash_pos' = flash_pos + BlockSize
                         /\ dataArr' = [i \in 0 .. BlockSize - 1 |-> Blank]
                    ELSE /\ flash_pos' = flash_pos
                         /\ dataArr' = Collected(Taken)
            BY <2>2 DEF WriteBlock
        <3>2. FlashTypeOK'
            BY <3>1, <1>2, WriteFlashType DEF TypeInv, TypeOK, UploadTypeOK
        <3>3. flash_pos' \in Nat /\ dataArr' \in Block
            BY <3>1, <1>2, FlashAssumption DEF TypeInv, TypeOK, UploadTypeOK, Block, Cell
        <3> QED BY <3>2, <3>3, <2>2, FlashAssumption DEF WriteBlock
    <2> QED BY <2>1, <2>2 DEF Loop, StreamLoop
<1>4. rx' \in Rx /\ RxOrder' /\ pc' \in {"stream", "tail"}
    BY <1>1 DEF Loop, StreamLoop, TypeInv, TypeOK, UploadTypeOK, Rx, RxOrder
<1> QED BY <1>3, <1>4 DEF Loop, StreamLoop, TypeInv, TypeOK, UploadTypeOK, LoaderTypeOK, loaderVars

\* Also when the block goes behind flash_buf.
LEMMA OverrunType == ASSUME TypeInv, Corrupt PROVE TypeInv'
<1>1. FlashTypeOK' /\ curlen' \in Nat /\ current_connection' \in Conns \cup {NULL}
    BY FlashAssumption DEF Corrupt, Overrun, OverrunBlock, OverrunLast, WriteBehind, Clobber,
       TypeInv, TypeOK, FlashTypeOK, UploadTypeOK
<1>2. LoaderTypeOK'
    BY DEF Corrupt, TypeInv, TypeOK, LoaderTypeOK, loaderVars
<1>3. CASE OverrunBlock
    <2>1. pc = "stream" /\ Taken \in 1 .. BlockSize /\ rx.next + Taken <= rx.end
        BY <1>3, TakenRange DEF OverrunBlock
    <2>2. rx' = [rx EXCEPT !.next = @ + Taken] /\ rx' \in Rx
        <3>1. rx' = [rx EXCEPT !.next = @ + Taken]
            BY <1>3 DEF OverrunBlock
        <3>2. rx \in Rx
            BY DEF TypeInv, TypeOK, UploadTypeOK
        <3> QED BY <2>1, <3>1, <3>2 DEF Rx
    <2>3. pc' \in {"stream", "tail", "corrupt"} /\ RxOrder'
        BY <1>3, <2>1, <2>2 DEF OverrunBlock, After, TypeInv, TypeOK, UploadTypeOK, Rx, RxOrder
    <2>4. flash_cnt' \in 0 .. BlockSize - 1 /\ flash_pos' \in Nat /\ dataArr' \in Block
        BY <1>3, FlashAssumption DEF OverrunBlock, TypeInv, TypeOK, UploadTypeOK, Block, Cell
    <2> QED BY <1>1, <1>2, <1>3, <2>2, <2>3, <2>4 DEF OverrunBlock, TypeInv, TypeOK, UploadTypeOK
<1>4. CASE OverrunLast
    <2>1. pc' \in {"return", "corrupt"} /\ RxOrder'
        BY <1>4 DEF OverrunLast, After, TypeInv, RxOrder
    <2> QED BY <1>1, <1>2, <1>4, <2>1 DEF OverrunLast, TypeInv, TypeOK, UploadTypeOK
<1> QED BY <1>3, <1>4 DEF Corrupt, Overrun

LEMMA TailType == ASSUME TypeInv, Tail PROVE TypeInv'
<1>1. FlashTypeOK'
    <2>1. CASE \E iap \in IapOutcome : WriteFlash(flash_pos, dataArr, iap)
        BY <2>1, WriteFlashType DEF TypeInv, TypeOK, UploadTypeOK
    <2>2. CASE UNCHANGED flashVars
        BY <2>2 DEF flashVars, FlashTypeOK, TypeInv, TypeOK
    <2> QED BY <2>1, <2>2 DEF Tail, StreamTail, WriteLast
<1> QED BY <1>1 DEF Tail, StreamTail, TypeInv, TypeOK, UploadTypeOK, LoaderTypeOK, loaderVars, RxOrder

\* What httpd_post_receive_data and httpd_post_begin do to the variables they change.
LEMMA IgnoreType ==
    ASSUME TypeInv, NEW c \in Conns, NEW ok \in BOOLEAN, Ignore(c, ok)
    PROVE  /\ pc' = "return" /\ rx' \in Rx /\ RxOrder'
           /\ file_length' \in Int /\ curlen' \in Nat
BY DEF Ignore, NoRx, Rx, RxOrder, TypeInv, TypeOK, UploadTypeOK

LEMMA StartStreamType ==
    ASSUME TypeInv, NEW c \in Conns, NEW id \in Nat, NEW from \in Nat, NEW len \in Nat,
           NEW clen \in Nat, NEW body \in Nat, StartStream(c, id, from, len, clen, body)
    PROVE  /\ fwstate' = "OCTET_STREAM" /\ file_length' \in Int /\ curlen' \in Nat
           /\ pc' \in {"stream", "return"} /\ rx' \in Rx /\ RxOrder'
<1>1. fwstate' = "OCTET_STREAM" /\ file_length' \in Int
    BY DEF StartStream
<1>2. CASE body < from + len
    <2>1. rx' = [conn |-> c, id |-> id, next |-> body, end |-> from + len, ok |-> TRUE]
          /\ curlen' = curlen + (from + len - body) /\ pc' = "stream"
        BY <1>2 DEF StartStream
    <2>2. curlen' \in Nat
        BY <1>2, <2>1 DEF TypeInv, TypeOK, UploadTypeOK
    <2>3. rx' \in Rx /\ RxOrder'
        BY <1>2, <2>1 DEF Rx, RxOrder
    <2> QED BY <1>1, <2>1, <2>2, <2>3
<1>3. CASE ~(body < from + len)
    <2>1. rx' = [NoRx EXCEPT !.conn = c] /\ curlen' = curlen /\ pc' = "return"
        BY <1>3 DEF StartStream
    <2> QED BY <1>1, <2>1 DEF Rx, NoRx, RxOrder, TypeInv, TypeOK, UploadTypeOK
<1> QED BY <1>2, <1>3

LEMMA OctetStartType ==
    ASSUME TypeInv, NEW c \in Conns, NEW id \in Nat, NEW from \in Nat, NEW len \in Nat,
           NEW clen \in Nat, OctetStart(c, id, from, len, clen)
    PROVE  /\ fwstate' \in {"HEADER", "OCTET_STREAM"} /\ file_length' \in Int /\ curlen' \in Nat
           /\ pc' \in {"stream", "return"} /\ rx' \in Rx /\ RxOrder'
<1>1. CASE StartStream(c, id, from, len, clen, Preamble)
    BY <1>1, StartStreamType, UploadAssumption
<1>2. CASE fwstate' = "HEADER" /\ Ignore(c, TRUE)
    BY <1>2, IgnoreType DEF RxOrder
<1>3. CASE \E stale \in 1 .. Preamble : StartStream(c, id, from, len, clen, from + len + stale)
    <2>1. PICK stale \in 1 .. Preamble : StartStream(c, id, from, len, clen, from + len + stale)
        BY <1>3
    <2>2. from + len + stale \in Nat
        BY UploadAssumption
    <2> QED BY <2>1, <2>2, StartStreamType
<1> QED BY <1>1, <1>2, <1>3 DEF OctetStart

LEMMA ReceiveType ==
    ASSUME TypeInv, NEW c \in Conns, NEW id \in Nat, NEW from \in Nat, NEW len \in Nat \ {0},
           httpd_post_receive_data(c, id, from, len)
    PROVE  UploadTypeOK' /\ RxOrder'
<1>1. /\ fwstate' \in {"HEADER", "OCTET_START", "OCTET_STREAM"}
      /\ file_length' \in Int /\ curlen' \in Nat
      /\ pc' \in {"stream", "return"} /\ rx' \in Rx /\ RxOrder'
    <2>1. CASE Ignore(c, FALSE) /\ UNCHANGED fwstate
        BY <2>1, IgnoreType DEF RxOrder, TypeInv, TypeOK, UploadTypeOK
    <2>2. CASE Ignore(c, TRUE) /\ UNCHANGED fwstate
        BY <2>2, IgnoreType DEF RxOrder, TypeInv, TypeOK, UploadTypeOK
    <2>3. CASE OctetStart(c, id, from, len, content_length)
        BY <2>3, OctetStartType DEF TypeInv, TypeOK, UploadTypeOK
    <2>4. CASE OctetStream(c, id, from, len)
        BY <2>4 DEF OctetStream, Rx, RxOrder, TypeInv, TypeOK, UploadTypeOK
    <2> QED BY <2>1, <2>2, <2>3, <2>4 DEF httpd_post_receive_data
<1> QED BY <1>1 DEF httpd_post_receive_data, TypeInv, TypeOK, UploadTypeOK

-----------------------------------------------------------------------------
\* The actions of httpd.c and main() keep the types.

LEMMA ConnType == NoConn \in ConnState
BY LoaderAssumption DEF NoConn, ConnState

LEMMA NoRetries == 0 \in 0 .. MaxRetries - 1
BY LoaderAssumption

\* Preparing a response, or counting an idle poll, keeps a connection a connection.
LEMMA RespType ==
    ASSUME NEW f \in [Conns -> ConnState], NEW c \in Conns, NEW r \in {"none", "page", "404"}
    PROVE  [f EXCEPT ![c].resp = r, ![c].retries = 0] \in [Conns -> ConnState]
<1>1. ASSUME NEW s \in ConnState
      PROVE  [s EXCEPT !.resp = r] \in ConnState /\ [s EXCEPT !.retries = 0] \in ConnState
    BY NoRetries DEF ConnState
<1> DEFINE g == [f EXCEPT ![c] = [f[c] EXCEPT !.resp = r]]
<1>2. g \in [Conns -> ConnState]
    BY <1>1
<1>3. [g EXCEPT ![c] = [g[c] EXCEPT !.retries = 0]] \in [Conns -> ConnState]
    BY <1>1, <1>2
<1> QED BY <1>3

\* An action that only touches the web server's own state.
LEMMA ServerOnlyType ==
    ASSUME TypeInv, UNCHANGED <<flashVars, uploadVars, pc, rx>>, LoaderTypeOK'
    PROVE  TypeInv'
BY DEF TypeInv, TypeOK, FlashTypeOK, UploadTypeOK, RxOrder, flashVars, uploadVars

LEMMA JumpType ==
    ASSUME TypeInv, NEW c \in Conns, Jump(c), pc' \in {"idle", "corrupt"}, rx' \in Rx
    PROVE  TypeInv'
BY DEF Jump, TypeInv, TypeOK, FlashTypeOK, UploadTypeOK, LoaderTypeOK, RxOrder, ConnState,
       flashVars, uploadVars

LEMMA CloseType ==
    ASSUME TypeInv, NEW c \in Conns, pc = "idle", http_close_conn(c)
    PROVE  TypeInv'
<1>1. CASE conn[c].left # 0 /\ reboot
    BY <1>1, JumpType DEF http_close_conn, TypeInv, TypeOK, UploadTypeOK
<1>2. CASE ~(conn[c].left # 0 /\ reboot)
    <2>1. conn' = [conn EXCEPT ![c] = NoConn]
          /\ current_connection' \in Conns \cup {NULL}
        BY <1>2 DEF http_close_conn, Release, TypeInv, TypeOK, UploadTypeOK
    <2>2. conn' \in [Conns -> ConnState]
        BY <2>1, ConnType DEF TypeInv, TypeOK, LoaderTypeOK
    <2> QED BY <1>2, <2>1, <2>2 DEF http_close_conn, TypeInv, TypeOK, FlashTypeOK, UploadTypeOK,
               LoaderTypeOK, RxOrder, flashVars
<1> QED BY <1>1, <1>2

LEMMA PostRequestType ==
    ASSUME TypeInv, NEW c \in Conns, NEW n \in FileLens, NEW len \in 0 .. MaxSeg,
           PostRequest(c, n, len)
    PROVE  TypeInv'
<1>1. n \in Nat /\ len \in Nat /\ Content(n) \in Nat /\ Content(n) - len \in Nat
    BY LoaderAssumption, UploadAssumption DEF PostRequest, Content
<1>2. conn[c] \in ConnState /\ conn \in [Conns -> ConnState] /\ pc = "idle"
    BY DEF TypeInv, TypeOK, LoaderTypeOK, PostRequest, FirstRequest, Parses, Ready
<1>3. CASE AcceptPost(c, n, len)
    <2>1. conn' \in [Conns -> ConnState]
        BY <1>1, <1>2, <1>3 DEF AcceptPost, ConnState
    <2>2. UploadTypeOK' /\ RxOrder'
        <3>1. CASE len = 0
            BY <1>1, <1>3, <3>1 DEF AcceptPost, httpd_post_begin, TypeInv, TypeOK, UploadTypeOK,
               RxOrder
        <3>2. CASE len # 0
            <4>1. BeginAndReceive(c, conn[c].id, len, Content(n))
                BY <1>3, <3>2 DEF AcceptPost
            <4>2. conn[c].id \in Nat
                BY <1>2 DEF ConnState
            <4>3. OctetStart(c, conn[c].id, 0, len, Content(n))
                BY <4>1 DEF BeginAndReceive
            <4>4. /\ fwstate' \in {"HEADER", "OCTET_STREAM"} /\ file_length' \in Int
                  /\ curlen' \in Nat /\ pc' \in {"stream", "return"} /\ rx' \in Rx /\ RxOrder'
                BY <1>1, <4>2, <4>3, OctetStartType
            <4> QED BY <1>1, <4>1, <4>4 DEF BeginAndReceive, TypeInv, TypeOK, UploadTypeOK
        <3> QED BY <3>1, <3>2
    <2> QED BY <2>1, <2>2 DEF PostRequest, TypeInv, TypeOK, FlashTypeOK, LoaderTypeOK, flashVars
<1>4. CASE RefusePost(c, n, len)
    <2>1. conn' \in [Conns -> ConnState]
        BY <1>1, <1>2, <1>4, NoRetries DEF RefusePost, ConnState
    <2>2. LoaderTypeOK'
        BY <2>1 DEF PostRequest, LoaderTypeOK, TypeInv, TypeOK
    <2>3. UNCHANGED <<flashVars, uploadVars, pc, rx>>
        BY <1>4 DEF RefusePost, PostRequest
    <2> QED BY <2>2, <2>3, ServerOnlyType
<1> QED BY <1>3, <1>4 DEF PostRequest

LEMMA RecvPostType ==
    ASSUME TypeInv, NEW c \in Conns, NEW len \in 1 .. MaxSeg, NEW head \in 1 .. MaxSeg,
           RecvPost(c, len, head)
    PROVE  TypeInv'
<1>1. conn[c] \in ConnState /\ conn \in [Conns -> ConnState]
    BY DEF TypeInv, TypeOK, LoaderTypeOK
<1>2. conn[c].id \in Nat /\ conn[c].sent \in Nat /\ conn[c].left \in Nat
    BY <1>1 DEF ConnState
<1>3. UploadTypeOK' /\ RxOrder'
    BY <1>2, LoaderAssumption, ReceiveType DEF RecvPost
<1>4. conn' \in [Conns -> ConnState]
    BY <1>1, <1>2, LoaderAssumption DEF RecvPost, ConnState
<1> QED BY <1>3, <1>4 DEF RecvPost, TypeInv, TypeOK, FlashTypeOK, LoaderTypeOK, flashVars

LEMMA ReturnType == ASSUME TypeInv, PostReturn PROVE TypeInv'
<1>0. pc' \in {"idle", "corrupt"} /\ rx' = NoRx /\ rx' \in Rx /\ rx.conn \in Conns
    BY DEF PostReturn, After, NoRx, Rx, TypeInv, RxOrder
<1>1. CASE ~PostOver /\ UNCHANGED <<flashVars, uploadVars, loaderVars>>
    BY <1>0, <1>1 DEF TypeInv, TypeOK, FlashTypeOK, UploadTypeOK, LoaderTypeOK, RxOrder,
       flashVars, uploadVars, loaderVars
<1>2. CASE PostOver /\ reboot /\ Jump(rx.conn)
    BY <1>0, <1>2, JumpType
<1>3. CASE PostOver /\ ~reboot
    <2>1. conn' = [conn EXCEPT ![rx.conn].resp = "404", ![rx.conn].retries = 0]
          /\ current_connection' \in Conns \cup {NULL}
        BY <1>3 DEF PostReturn, Release, TypeInv, TypeOK, UploadTypeOK, Jump
    <2>2. conn' \in [Conns -> ConnState]
        BY <1>0, <2>1, RespType DEF TypeInv, TypeOK, LoaderTypeOK
    <2> QED BY <1>0, <1>3, <2>1, <2>2 DEF PostReturn, TypeInv, TypeOK, FlashTypeOK, UploadTypeOK,
               LoaderTypeOK, RxOrder, flashVars
<1> QED BY <1>1, <1>2, <1>3 DEF PostReturn

-----------------------------------------------------------------------------
LEMMA RamType ==
    /\ [i \in 0 .. BlockSize - 1 |-> Zero] \in Block
    /\ NoRx \in Rx
    /\ 0 \in 0 .. BlockSize - 1 /\ 0 \in Nat /\ 0 \in Int /\ UserStart \in Nat
<1>1. 0 \in 0 .. BlockSize - 1 /\ 0 \in Nat /\ 0 \in Int /\ UserStart \in Nat
    BY FlashAssumption
<1>2. [i \in 0 .. BlockSize - 1 |-> Zero] \in Block
    BY DEF Block, Cell
<1>3. NoRx \in Rx
    BY DEF NoRx, Rx
<1> QED BY <1>1, <1>2, <1>3

LEMMA TypeInit == Init => TypeInv
<1> SUFFICES ASSUME Init PROVE TypeInv
    OBVIOUS
<1>1. FlashTypeOK
    <2>1. ASSUME NEW x \in UserFlash PROVE Byte(0, x - UserStart) \in Cell
        BY FlashAssumption, ByteType DEF UserFlash
    <2> QED BY <2>1, FlashAssumption DEF Init, FlashRamInit, FlashTypeOK
<1>2. UploadTypeOK /\ RxOrder
    BY RamType DEF Init, UploadRamInit, UploadTypeOK, RxOrder
<1>3. LoaderTypeOK
    <2>1. NoImage \in [id : Nat, len : Nat]
        BY DEF NoImage
    <2>2. conn \in [Conns -> ConnState]
        BY ConnType DEF Init
    <2> QED BY <2>1, <2>2 DEF Init, LoaderTypeOK
<1> QED BY <1>1, <1>2, <1>3 DEF TypeInv, TypeOK

LEMMA PowerType == ASSUME TypeInv, Power PROVE TypeInv'
<1>1. CASE ColdStart
    BY <1>1 DEF ColdStart, TypeInv, TypeOK, FlashTypeOK, UploadTypeOK, LoaderTypeOK, RxOrder,
       flashVars, uploadVars
<1>2. CASE EnterLoader
    <2>1. FlashTypeOK'
        <3>1. PICK iap \in Answers("erase") :
                 /\ result_table' = iap.prepare
                 /\ flash' = IF iap.erase THEN [x \in UserFlash |-> Blank]
                             ELSE flash
            BY <1>2 DEF EnterLoader
        <3> QED BY <1>2, <3>1, IapType DEF EnterLoader, TypeInv, TypeOK, FlashTypeOK, Cell
    <2>2. UploadTypeOK' /\ RxOrder'
        BY <1>2 DEF EnterLoader, TypeInv, TypeOK, UploadTypeOK, RxOrder, uploadVars
    <2>3. LoaderTypeOK'
        BY <1>2 DEF EnterLoader, TypeInv, TypeOK, LoaderTypeOK
    <2> QED BY <2>1, <2>2, <2>3 DEF TypeInv, TypeOK
<1>3. CASE PowerLoss
    <2>1. FlashTypeOK'
        BY <1>3 DEF PowerLoss, TypeInv, TypeOK, FlashTypeOK
    <2>2. UploadTypeOK' /\ RxOrder'
        BY <1>3, RamType DEF PowerLoss, UploadRamReset, UploadTypeOK, RxOrder
    <2>3. LoaderTypeOK'
        BY <1>3, ConnType DEF PowerLoss, LoaderTypeOK, NoImage, TypeInv, TypeOK
    <2> QED BY <2>1, <2>2, <2>3 DEF TypeInv, TypeOK
<1> QED BY <1>1, <1>2, <1>3 DEF Power

LEMMA ConnNextType == ASSUME TypeInv, NEW c \in Conns, ConnNext(c) PROVE TypeInv'
<1>0. conn[c] \in ConnState /\ conn \in [Conns -> ConnState] /\ LoaderTypeOK
    BY DEF TypeInv, TypeOK, LoaderTypeOK
<1>1. CASE http_accept(c)
    <2>1. LoaderTypeOK'
        <3>1. accepts + 1 \in Nat
            BY <1>0 DEF LoaderTypeOK
        <3>2. [NoConn EXCEPT !.up = TRUE, !.id = accepts + 1] \in ConnState
            BY <3>1, NoRetries DEF NoConn, ConnState
        <3>3. conn' \in [Conns -> ConnState]
            BY <1>0, <1>1, <3>2 DEF http_accept
        <3> QED BY <1>0, <1>1, <3>1, <3>3 DEF http_accept, LoaderTypeOK
    <2> QED BY <1>1, <2>1, ServerOnlyType DEF http_accept
<1>2. ASSUME Ready, http_close_conn(c) PROVE TypeInv'
    BY <1>2, CloseType DEF Ready
<1>3. CASE Request(c)
    <2>1. CASE GetPage(c) /\ ~http_close_conn(c)
        <3>1. LoaderTypeOK'
            <4>1. conn' = [conn EXCEPT ![c].resp = "page", ![c].retries = 0]
                BY <2>1 DEF GetPage
            <4>2. conn' \in [Conns -> ConnState]
                BY <1>0, <4>1, RespType
            <4> QED BY <1>0, <2>1, <4>2 DEF GetPage, LoaderTypeOK
        <3> QED BY <2>1, <3>1, ServerOnlyType DEF GetPage
    <2>2. CASE GetOther(c)
        <3>1. LoaderTypeOK'
            <4>1. conn' \in [Conns -> ConnState]
                BY <1>0, <2>2, RespType DEF GetOther
            <4> QED BY <1>0, <2>2, <4>1 DEF GetOther, LoaderTypeOK
        <3> QED BY <2>2, <3>1, ServerOnlyType DEF GetOther
    <2>3. CASE \E n \in FileLens, len \in 0 .. MaxSeg : PostRequest(c, n, len)
        BY <2>3, PostRequestType
    <2>4. CASE BadRequest(c) \/ (GetPage(c) /\ http_close_conn(c))
        BY <1>2, <2>4 DEF BadRequest, GetPage, FirstRequest, Parses
    <2> QED BY <1>3, <2>1, <2>2, <2>3, <2>4 DEF Request, RecvAfterRefusal
<1>4. CASE Receive(c)
    BY <1>4, RecvPostType DEF Receive
<1>5. CASE ClientCloses(c) \/ http_sent(c) \/ PollOut(c) \/ PollSends(c)
    BY <1>2, <1>5 DEF ClientCloses, http_sent, PollOut, PollSends
<1>6. CASE http_err(c)
    <2>1. LoaderTypeOK'
        BY <1>0, <1>6, ConnType DEF http_err, LoaderTypeOK
    <2> QED BY <1>6, <2>1, ServerOnlyType DEF http_err
<1>7. CASE PollWaits(c)
    <2>1. conn[c].retries + 1 \in 0 .. MaxRetries - 1
        BY <1>0, <1>7, LoaderAssumption DEF PollWaits, ConnState
    <2>2. LoaderTypeOK'
        BY <1>0, <1>7, <2>1 DEF PollWaits, LoaderTypeOK, ConnState
    <2> QED BY <1>7, <2>2, ServerOnlyType DEF PollWaits
<1> QED BY <1>1, <1>3, <1>4, <1>5, <1>6, <1>7 DEF ConnNext, http_poll

LEMMA TypeNext == TypeInv /\ [Next]_vars => TypeInv'
<1> SUFFICES ASSUME TypeInv, [Next]_vars PROVE TypeInv'
    OBVIOUS
<1>1. CASE Power
    BY <1>1, PowerType
<1>2. CASE Loop
    BY <1>2, LoopType
<1>3. CASE Tail
    BY <1>3, TailType
<1>4. CASE PostReturn
    BY <1>4, ReturnType
<1>5. CASE Corrupt
    BY <1>5, OverrunType
<1>6. CASE \E c \in Conns : ConnNext(c)
    BY <1>6, ConnNextType
<1>7. CASE UNCHANGED vars
    BY <1>7 DEF vars, TypeInv, TypeOK, FlashTypeOK, UploadTypeOK, LoaderTypeOK, RxOrder,
       flashVars, uploadVars, loaderVars
<1> QED BY <1>1, <1>2, <1>3, <1>4, <1>5, <1>6, <1>7 DEF Next, Handler

\* THEOREM: every state the loader reaches, under every fault, is well typed: flash_cnt
\* never leaves dataArr, the retries stay below the limit, and a handler only reads bytes
\* its pbuf holds. (byte_ctr is only a number: a failed IAP call leads past flash_buf.)
THEOREM TypeCorrect == Spec => []TypeOK
<1>1. Spec => []TypeInv
    BY TypeInit, TypeNext, PTL DEF Spec
<1>2. TypeInv => TypeOK
    BY DEF TypeInv
<1> QED BY <1>1, <1>2, PTL

-----------------------------------------------------------------------------
\* The flash below StoredEnd.

HoleInv == TypeInv /\ DataFilled /\ NoHoles

\* A block is burned, and its sector erased, at its address and above it.
LEMMA WriteAbove ==
    ASSUME FlashTypeOK, byte_ctr = 0 => flash_address = 0, NEW a \in Nat, NEW src \in Block,
           NEW iap \in IapOutcome, WriteFlash(a, src, iap)
    PROVE  /\ \A x \in UserFlash : x < a => flash'[x] = flash[x]
           /\ WriteOk(a, iap) /\ (\A i \in 0 .. BlockSize - 1 : src[i] # Blank) =>
                  \A x \in UserFlash : a <= x /\ x < a + BlockSize => flash'[x] # Blank
           /\ \A x \in UserFlash :
                 ~WriteOk(a, iap) \/ x >= a + BlockSize => flash'[x] \in {flash[x], Blank}
           /\ byte_ctr = 0 /\ byte_ctr' \in {0, BlockSize}
           /\ flash_address' = IF byte_ctr' = 0 THEN 0 ELSE a
<1> DEFINE e == FindErasePrepare(a, iap)
<1>0. flash \in [UserFlash -> Cell] /\ BlockSize \in Nat \ {0} /\ UserFlash \subseteq Int
    BY FlashAssumption DEF FlashTypeOK, UserFlash
<1>1. Address(a) = a
    BY DEF Address, WriteFlash
<1>2. \/ WriteOk(a, iap) /\ flash' = CopyRamToFlash(e, a, src)
      \/ ~WriteOk(a, iap) /\ flash' = e
    BY <1>1 DEF WriteFlash
<1>3. ASSUME NEW x \in UserFlash, x < a PROVE e[x] = flash[x]
    BY <1>0, <1>3 DEF FindErasePrepare, EraseSector, SectorAt
<1>4. ASSUME NEW x \in UserFlash, x < a PROVE flash'[x] = flash[x]
    <2>1. x \notin a .. a + BlockSize - 1
        BY <1>0, <1>4
    <2> QED BY <1>2, <1>3, <1>4, <2>1 DEF CopyRamToFlash
<1>5. ASSUME WriteOk(a, iap), \A i \in 0 .. BlockSize - 1 : src[i] # Blank,
             NEW x \in UserFlash, a <= x, x < a + BlockSize
      PROVE  flash'[x] # Blank
    <2>1. x \in a .. a + BlockSize - 1 /\ x - a \in 0 .. BlockSize - 1
        BY <1>0, <1>5
    <2>2. flash'[x] = Burn(e[x], src[x - a]) /\ src[x - a] # Blank
        BY <1>2, <1>5, <2>1 DEF CopyRamToFlash
    <2> QED BY <2>2, CellAssumption DEF Burn
<1>6. /\ byte_ctr = 0 /\ byte_ctr' \in {0, BlockSize}
      /\ flash_address' = IF byte_ctr' = 0 THEN 0 ELSE a
    BY <1>0, <1>1 DEF WriteFlash
<1>7. ASSUME NEW x \in UserFlash, ~WriteOk(a, iap) \/ x >= a + BlockSize
      PROVE  flash'[x] \in {flash[x], Blank}
    <2>1. e[x] \in {flash[x], Blank}
        BY <1>0 DEF FindErasePrepare, EraseSector
    <2>2. WriteOk(a, iap) => x \notin a .. a + BlockSize - 1
        BY <1>0, <1>7
    <2> QED BY <1>2, <2>1, <2>2 DEF CopyRamToFlash
<1> QED BY <1>4, <1>5, <1>6, <1>7

\* A step that leaves the flash writer and the block being collected alone.
LEMMA SameHoles ==
    ASSUME HoleInv, TypeInv', mode = "loader", mode' \in {"loader", "app"},
           UNCHANGED <<flashVars, flash_cnt, flash_pos, dataArr>>
    PROVE  HoleInv'
BY DEF HoleInv, DataFilled, NoHoles, StoredEnd, flashVars

\* A block that write_flash() takes over, programmed or not.
LEMMA TakenOver ==
    ASSUME byte_ctr = 0, byte_ctr' \in {0, BlockSize},
           flash_address' = IF byte_ctr' = 0 THEN 0 ELSE flash_pos,
           byte_ctr' # 0 => flash_pos' = flash_pos
    PROVE  /\ StoredEnd = flash_pos /\ StoredEnd' = flash_pos'
           /\ byte_ctr' = 0 => flash_address' = 0
           /\ 0 < byte_ctr' /\ byte_ctr' <= BlockSize => flash_address' = flash_pos'
BY FlashAssumption DEF StoredEnd

\* A block that is lost behind flash_buf moves flash_pos, but not the end of the image.
LEMMA LostBlock ==
    ASSUME TypeOK, DataFilled, Corrupt
    PROVE  StoredEnd' = StoredEnd /\ byte_ctr' > BlockSize /\ flash' = flash
<1>1. byte_ctr # 0 /\ byte_ctr' = byte_ctr + BlockSize /\ UNCHANGED <<flash, flash_address>>
    BY DEF Corrupt, Overrun, OverrunBlock, OverrunLast, WriteBehind
<1> QED BY <1>1, FlashAssumption DEF TypeOK, FlashTypeOK, DataFilled, StoredEnd

LEMMA LostHoles == ASSUME HoleInv, TypeInv', Corrupt PROVE HoleInv'
<1>1. StoredEnd' = StoredEnd /\ byte_ctr' > BlockSize /\ flash' = flash
    BY LostBlock DEF HoleInv, TypeInv
<1>2. mode = "loader" /\ mode' = "loader"
    BY DEF Corrupt, loaderVars
<1>3. byte_ctr' # 0 /\ ~(byte_ctr' <= BlockSize)
    BY <1>1, FlashAssumption DEF TypeInv, TypeOK, FlashTypeOK
<1>4. \A i \in 0 .. flash_cnt' - 1 : dataArr'[i] # Blank
    <2>1. CASE OverrunBlock
        BY <2>1 DEF OverrunBlock
    <2>2. CASE OverrunLast
        BY <2>2 DEF OverrunLast, HoleInv, DataFilled
    <2> QED BY <2>1, <2>2 DEF Corrupt, Overrun
<1>5. DataFilled'
    BY <1>2, <1>3, <1>4 DEF DataFilled
<1> QED BY <1>1, <1>2, <1>5 DEF HoleInv, NoHoles

LEMMA LoopHoles == ASSUME HoleInv, TypeInv', Loop PROVE HoleInv'
<1>1. pc = "stream" /\ Taken \in 1 .. BlockSize /\ flash_cnt + Taken <= BlockSize
      /\ mode = "loader" /\ mode' = "loader"
    BY TakenRange DEF Loop, StreamLoop, HoleInv, loaderVars
<1>2. flash_cnt \in Nat /\ flash_pos \in Nat /\ BlockSize \in Nat \ {0} /\ UserFlash \subseteq Int
    BY FlashAssumption DEF HoleInv, TypeInv, TypeOK, UploadTypeOK, UserFlash
<1>3. ASSUME NEW i \in 0 .. flash_cnt + Taken - 1
      PROVE  i \in 0 .. BlockSize - 1 /\ Collected(Taken)[i] # Blank
    <2>1. i \in 0 .. BlockSize - 1
        BY <1>1, <1>2
    <2>2. CASE i \in flash_cnt .. flash_cnt + Taken - 1
        <3>1. rx.id \in Nat /\ rx.next + (i - flash_cnt) \in Nat
            BY <1>2, <2>2 DEF HoleInv, TypeInv, TypeOK, UploadTypeOK, Rx
        <3>2. Byte(rx.id, rx.next + (i - flash_cnt)) \in Nat \X Nat
            BY <3>1 DEF Byte
        <3>3. Collected(Taken)[i] = Byte(rx.id, rx.next + (i - flash_cnt))
            BY <2>1, <2>2 DEF Collected
        <3> QED BY <2>1, <3>2, <3>3, CellAssumption
    <2>3. CASE i \notin flash_cnt .. flash_cnt + Taken - 1
        <3>1. i \in 0 .. flash_cnt - 1
            BY <1>1, <1>2, <2>3
        <3>2. Collected(Taken)[i] = dataArr[i]
            BY <2>1, <2>3 DEF Collected
        <3> QED BY <2>1, <3>1, <3>2 DEF HoleInv, DataFilled
    <2> QED BY <2>2, <2>3
<1>4. CASE FillBlock
    <2>1. flash' = flash /\ byte_ctr' = byte_ctr /\ flash_address' = flash_address
          /\ flash_pos' = flash_pos /\ flash_cnt' = flash_cnt + Taken
          /\ dataArr' = Collected(Taken)
        BY <1>4 DEF FillBlock, flashVars
    <2>2. ASSUME NEW i \in 0 .. flash_cnt' - 1 PROVE dataArr'[i] # Blank
        <3>1. i \in 0 .. flash_cnt + Taken - 1
            BY <1>1, <1>2, <2>1
        <3> QED BY <1>3, <2>1, <3>1
    <2> QED BY <1>1, <2>1, <2>2 DEF HoleInv, DataFilled, NoHoles, StoredEnd
<1>5. CASE WriteBlock
    <2>1. PICK iap \in IapOutcome :
             /\ WriteFlash(flash_pos, Collected(Taken), iap)
             /\ IF WriteOk(flash_pos, iap)
                THEN /\ flash_pos' = flash_pos + BlockSize
                     /\ dataArr' = [i \in 0 .. BlockSize - 1 |-> Blank]
                ELSE /\ flash_pos' = flash_pos
                     /\ dataArr' = Collected(Taken)
        BY <1>5 DEF WriteBlock
    <2>2. flash_cnt' = 0 /\ flash_cnt + Taken = BlockSize
        BY <1>5 DEF WriteBlock
    <2>3. \A i \in 0 .. flash_cnt' - 1 : dataArr'[i] # Blank
        BY <2>2
    <2>4. \A i \in 0 .. BlockSize - 1 : Collected(Taken)[i] # Blank
        <3>1. \A i \in 0 .. BlockSize - 1 : i \in 0 .. flash_cnt + Taken - 1
            BY <1>1, <1>2, <2>2
        <3> QED BY <1>3, <3>1
    <2>5. Collected(Taken) \in Block
        BY <1>1, CollectedType DEF HoleInv, TypeInv
    <2>6. /\ \A x \in UserFlash : x < flash_pos => flash'[x] = flash[x]
          /\ WriteOk(flash_pos, iap) =>
                 \A x \in UserFlash :
                     flash_pos <= x /\ x < flash_pos + BlockSize => flash'[x] # Blank
          /\ byte_ctr = 0 /\ byte_ctr' \in {0, BlockSize}
          /\ flash_address' = IF byte_ctr' = 0 THEN 0 ELSE flash_pos
        BY <1>2, <2>1, <2>4, <2>5, WriteAbove DEF HoleInv, DataFilled, TypeInv, TypeOK
    <2>8. byte_ctr' # 0 => flash_pos' = flash_pos
        BY <2>1, FlashAssumption DEF WriteFlash
    <2>9. /\ StoredEnd = flash_pos /\ StoredEnd' = flash_pos'
          /\ byte_ctr' = 0 => flash_address' = 0
          /\ 0 < byte_ctr' /\ byte_ctr' <= BlockSize => flash_address' = flash_pos'
        BY <2>6, <2>8, TakenOver
    <2>7. ASSUME NEW x \in UserFlash, x < flash_pos' PROVE flash'[x] # Blank
        <3>1. CASE x < flash_pos
            BY <1>1, <2>6, <2>9, <3>1 DEF HoleInv, NoHoles
        <3>2. CASE x >= flash_pos
            <4>1. WriteOk(flash_pos, iap) /\ x < flash_pos + BlockSize
                BY <1>2, <2>1, <2>7, <3>2
            <4> QED BY <2>6, <3>2, <4>1
        <3> QED BY <1>2, <3>1, <3>2
    <2> QED BY <1>1, <2>3, <2>7, <2>9 DEF HoleInv, DataFilled, NoHoles
<1> QED BY <1>4, <1>5 DEF Loop, StreamLoop

LEMMA TailHoles == ASSUME HoleInv, TypeInv', Tail PROVE HoleInv'
<1>1. mode = "loader" /\ mode' = "loader" /\ UNCHANGED <<flash_cnt, flash_pos, dataArr>>
    BY DEF Tail, StreamTail, loaderVars
<1>2. CASE UNCHANGED flashVars
    BY <1>1, <1>2, SameHoles
<1>3. CASE \E iap \in IapOutcome : WriteFlash(flash_pos, dataArr, iap)
    <2>1. PICK iap \in IapOutcome : WriteFlash(flash_pos, dataArr, iap)
        BY <1>3
    <2>2. /\ \A x \in UserFlash : x < flash_pos => flash'[x] = flash[x]
          /\ byte_ctr = 0 /\ byte_ctr' \in {0, BlockSize}
          /\ flash_address' = IF byte_ctr' = 0 THEN 0 ELSE flash_pos
        BY <2>1, WriteAbove DEF HoleInv, DataFilled, TypeInv, TypeOK, UploadTypeOK
    <2>3. /\ StoredEnd = flash_pos /\ StoredEnd' = flash_pos'
          /\ byte_ctr' = 0 => flash_address' = 0
          /\ 0 < byte_ctr' /\ byte_ctr' <= BlockSize => flash_address' = flash_pos'
        BY <1>1, <2>2, TakenOver
    <2> QED BY <1>1, <2>2, <2>3 DEF HoleInv, DataFilled, NoHoles
<1> QED BY <1>2, <1>3 DEF Tail, StreamTail, WriteLast

\* The server's actions leave the block being collected and the flash alone.
LEMMA ServerHoles ==
    ASSUME HoleInv, NEW c \in Conns, ConnNext(c)
    PROVE  /\ mode = "loader" /\ mode' \in {"loader", "app"}
           /\ UNCHANGED <<flashVars, flash_cnt, flash_pos, dataArr>>
<1>1. mode = "loader"
    BY DEF ConnNext, Request, RecvAfterRefusal, Receive, RecvPost, PostRequest, BadRequest,
       GetPage, GetOther, FirstRequest, Parses, http_accept, ClientCloses, http_err, http_sent,
       http_poll, PollOut, PollSends, PollWaits, Ready
<1>2. ASSUME http_close_conn(c)
      PROVE  mode' \in {"loader", "app"} /\ UNCHANGED <<flashVars, flash_cnt, flash_pos, dataArr>>
    BY <1>1, <1>2 DEF http_close_conn, Jump, uploadVars
<1>3. CASE \E n \in FileLens, len \in 0 .. MaxSeg : PostRequest(c, n, len)
    BY <1>1, <1>3 DEF PostRequest, AcceptPost, RefusePost, httpd_post_begin, BeginAndReceive,
       uploadVars
<1>4. CASE Receive(c)
    BY <1>1, <1>4 DEF Receive, RecvPost, httpd_post_receive_data
<1>5. CASE http_accept(c) \/ http_err(c) \/ GetPage(c) \/ GetOther(c) \/ PollWaits(c)
    BY <1>1, <1>2, <1>5 DEF http_accept, http_err, GetPage, GetOther, PollWaits, uploadVars
<1>6. CASE BadRequest(c) \/ ClientCloses(c) \/ http_sent(c) \/ PollOut(c) \/ PollSends(c)
    BY <1>1, <1>2, <1>6 DEF BadRequest, ClientCloses, http_sent, PollOut, PollSends
<1> QED BY <1>1, <1>3, <1>4, <1>5, <1>6 DEF ConnNext, Request, RecvAfterRefusal, http_poll

LEMMA HoleNext == HoleInv /\ [Next]_vars => HoleInv'
<1> SUFFICES ASSUME HoleInv, [Next]_vars PROVE HoleInv'
    OBVIOUS
<1>0. TypeInv'
    BY TypeNext DEF HoleInv
<1>1. CASE ColdStart
    BY <1>0, <1>1 DEF ColdStart, HoleInv, DataFilled, NoHoles, StoredEnd, flashVars, uploadVars
<1>2. CASE EnterLoader
    <2>1. /\ flash_pos' = UserStart /\ flash_cnt' = flash_cnt /\ dataArr' = dataArr
          /\ byte_ctr' = byte_ctr /\ flash_address' = flash_address /\ mode' = "loader"
        BY <1>2 DEF EnterLoader, uploadVars, HoleInv, DataFilled
    <2>2. \A x \in UserFlash : ~(x < UserStart)
        BY FlashAssumption DEF UserFlash
    <2>3. StoredEnd' = UserStart
        BY <1>2, <2>1, FlashAssumption DEF HoleInv, DataFilled, EnterLoader, StoredEnd
    <2> QED BY <1>0, <1>2, <2>1, <2>2, <2>3 DEF EnterLoader, HoleInv, DataFilled, NoHoles, StoredEnd
<1>3. CASE PowerLoss
    BY <1>0, <1>3 DEF PowerLoss, UploadRamReset, HoleInv, DataFilled, NoHoles, StoredEnd
<1>4. CASE Loop
    BY <1>0, <1>4, LoopHoles
<1>5. CASE Tail
    BY <1>0, <1>5, TailHoles
<1>6. CASE PostReturn
    BY <1>0, <1>6, SameHoles DEF PostReturn, Jump, uploadVars, loaderVars
<1>7. CASE Corrupt
    BY <1>0, <1>7, LostHoles
<1>8. CASE \E c \in Conns : ConnNext(c)
    BY <1>0, <1>8, ServerHoles, SameHoles
<1>9. CASE UNCHANGED vars
    BY <1>0, <1>9 DEF vars, flashVars, uploadVars, loaderVars, HoleInv, DataFilled, NoHoles, StoredEnd
<1> QED BY <1>1, <1>2, <1>3, <1>4, <1>5, <1>6, <1>7, <1>8, <1>9 DEF Next, Power, Handler

\* THEOREM: whichever IAP calls fail and whatever else happens, every cell between the
\* start of the user flash and StoredEnd was programmed. That is flash_pos, which
\* advances over blocks that write_flash() stored; once a block was lost behind
\* flash_buf, it is the address of the block that could not be programmed, which
\* write_flash() keeps.
THEOREM NoHolesBelow == Spec => []NoHoles
<1>1. Init => HoleInv
    BY TypeInit DEF Init, FlashRamInit, UploadRamInit, HoleInv, DataFilled, NoHoles, StoredEnd
<1>2. HoleInv => NoHoles
    BY DEF HoleInv
<1> QED BY <1>1, <1>2, HoleNext, PTL DEF Spec

-----------------------------------------------------------------------------
\* The flash from FirstFree on.

LEMMA SameAbove ==
    ASSUME NothingAbove, mode = "loader", UNCHANGED <<flash, StoredEnd, reboot>>
    PROVE  NothingAbove'
BY DEF NothingAbove, FirstFree

LEMMA SameEnd ==
    ASSUME UNCHANGED <<byte_ctr, flash_address, flash_pos>>
    PROVE  UNCHANGED StoredEnd
BY DEF StoredEnd

LEMMA LostAbove == ASSUME HoleInv, NothingAbove, Corrupt PROVE NothingAbove'
<1>1. StoredEnd' = StoredEnd /\ flash' = flash
    BY LostBlock DEF HoleInv, TypeInv
<1>2. mode = "loader" /\ (reboot' = reboot \/ reboot')
    BY DEF Corrupt, Overrun, OverrunBlock, OverrunLast
<1>3. StoredEnd \in Nat /\ BlockSize \in Nat /\ UserFlash \subseteq Int
    BY FlashAssumption DEF HoleInv, TypeInv, TypeOK, FlashTypeOK, UploadTypeOK, StoredEnd, UserFlash
<1>4. ASSUME NEW x \in UserFlash, x >= FirstFree' PROVE x >= FirstFree
    BY <1>1, <1>2, <1>3, <1>4 DEF FirstFree
<1> QED BY <1>1, <1>2, <1>4 DEF NothingAbove

LEMMA LoopAbove == ASSUME HoleInv, NothingAbove, Loop PROVE NothingAbove'
<1>1. pc = "stream" /\ mode = "loader" /\ reboot' = reboot /\ Taken \in 1 .. BlockSize
    BY TakenRange DEF Loop, StreamLoop, HoleInv
<1>2. flash_pos \in Nat /\ BlockSize \in Nat \ {0} /\ UserFlash \subseteq Int
    BY FlashAssumption DEF HoleInv, TypeInv, TypeOK, UploadTypeOK, UserFlash
<1>3. CASE FillBlock
    BY <1>1, <1>3, SameAbove, SameEnd DEF FillBlock, flashVars
<1>4. CASE WriteBlock
    <2>1. PICK iap \in IapOutcome :
             /\ WriteFlash(flash_pos, Collected(Taken), iap)
             /\ flash_pos' = IF WriteOk(flash_pos, iap) THEN flash_pos + BlockSize ELSE flash_pos
        BY <1>4 DEF WriteBlock
    <2>2. Collected(Taken) \in Block
        BY <1>1, CollectedType DEF HoleInv, TypeInv
    <2>3. /\ \A x \in UserFlash :
                 ~WriteOk(flash_pos, iap) \/ x >= flash_pos + BlockSize
                     => flash'[x] \in {flash[x], Blank}
          /\ byte_ctr = 0 /\ byte_ctr' \in {0, BlockSize}
          /\ flash_address' = IF byte_ctr' = 0 THEN 0 ELSE flash_pos
        BY <1>2, <2>1, <2>2, WriteAbove DEF HoleInv, DataFilled, TypeInv, TypeOK
    <2>5. StoredEnd = flash_pos /\ StoredEnd' = flash_pos'
        <3>1. byte_ctr' # 0 => flash_pos' = flash_pos
            BY <2>1, FlashAssumption DEF WriteFlash
        <3> QED BY <2>3, <3>1, TakenOver
    <2>4. ASSUME NEW x \in UserFlash, x >= FirstFree' PROVE flash'[x] = Blank
        <3>1. x >= FirstFree
            BY <1>1, <1>2, <2>1, <2>4, <2>5 DEF FirstFree
        <3>2. flash[x] = Blank
            BY <1>1, <3>1 DEF NothingAbove
        <3>3. ~WriteOk(flash_pos, iap) \/ x >= flash_pos + BlockSize
            BY <1>1, <1>2, <2>1, <2>4, <2>5 DEF FirstFree
        <3> QED BY <2>3, <3>2, <3>3
    <2> QED BY <2>4 DEF NothingAbove
<1> QED BY <1>3, <1>4 DEF Loop, StreamLoop

LEMMA TailAbove == ASSUME HoleInv, NothingAbove, Tail PROVE NothingAbove'
<1>1. mode = "loader" /\ flash_pos' = flash_pos
    BY DEF Tail, StreamTail
<1>2. flash_pos \in Nat /\ BlockSize \in Nat \ {0} /\ UserFlash \subseteq Int
    BY FlashAssumption DEF HoleInv, TypeInv, TypeOK, UploadTypeOK, UserFlash
<1>3. CASE ~Finished
    BY <1>1, <1>3, SameAbove, SameEnd DEF Tail, StreamTail, flashVars
<1>4. CASE Finished
    <2>1. reboot' /\ WriteLast
        BY <1>4 DEF Tail, StreamTail
    <2>2. /\ StoredEnd' = StoredEnd
          /\ \A x \in UserFlash : x >= StoredEnd + BlockSize => flash'[x] \in {flash[x], Blank}
        <3>1. CASE UNCHANGED flashVars
            BY <1>1, <3>1, SameEnd DEF flashVars
        <3>2. CASE \E iap \in IapOutcome : WriteFlash(flash_pos, dataArr, iap)
            <4>1. PICK iap \in IapOutcome : WriteFlash(flash_pos, dataArr, iap)
                BY <3>2
            <4>2. /\ \A x \in UserFlash :
                         x >= flash_pos + BlockSize => flash'[x] \in {flash[x], Blank}
                  /\ byte_ctr = 0 /\ byte_ctr' \in {0, BlockSize}
                  /\ flash_address' = IF byte_ctr' = 0 THEN 0 ELSE flash_pos
                BY <4>1, WriteAbove DEF HoleInv, DataFilled, TypeInv, TypeOK, UploadTypeOK
            <4>3. StoredEnd = flash_pos /\ StoredEnd' = flash_pos
                BY <1>1, <4>2, TakenOver
            <4> QED BY <4>2, <4>3
        <3> QED BY <2>1, <3>1, <3>2 DEF WriteLast
    <2>4. StoredEnd \in Nat
        BY DEF HoleInv, TypeInv, TypeOK, FlashTypeOK, UploadTypeOK, StoredEnd
    <2>3. ASSUME NEW x \in UserFlash, x >= FirstFree' PROVE flash'[x] = Blank
        <3>1. x >= StoredEnd + BlockSize /\ x >= FirstFree
            BY <1>2, <2>1, <2>2, <2>3, <2>4 DEF FirstFree
        <3> QED BY <1>1, <2>2, <3>1 DEF NothingAbove
    <2> QED BY <2>3 DEF NothingAbove
<1> QED BY <1>3, <1>4

LEMMA ServerAbove ==
    ASSUME NothingAbove, NEW c \in Conns, ConnNext(c), mode = "loader",
           UNCHANGED <<flash, StoredEnd>>
    PROVE  NothingAbove'
<1>1. ASSUME http_close_conn(c) PROVE reboot' = reboot
    BY <1>1 DEF http_close_conn, Jump, uploadVars
<1>2. CASE \E n \in FileLens, len \in 0 .. MaxSeg : PostRequest(c, n, len)
    BY <1>2, SameAbove DEF PostRequest, AcceptPost, RefusePost, httpd_post_begin, BeginAndReceive,
       uploadVars
<1>3. CASE Receive(c)
    BY <1>3, SameAbove DEF Receive, RecvPost, httpd_post_receive_data
<1>4. CASE http_accept(c) \/ http_err(c) \/ GetPage(c) \/ GetOther(c) \/ PollWaits(c)
    BY <1>1, <1>4, SameAbove DEF http_accept, http_err, GetPage, GetOther, PollWaits, uploadVars
<1>5. CASE BadRequest(c) \/ ClientCloses(c) \/ http_sent(c) \/ PollOut(c) \/ PollSends(c)
    BY <1>1, <1>5, SameAbove DEF BadRequest, ClientCloses, http_sent, PollOut, PollSends
<1> QED BY <1>2, <1>3, <1>4, <1>5 DEF ConnNext, Request, RecvAfterRefusal, http_poll

\* THEOREM: provided the erase at power-up succeeds, what lies above StoredEnd is
\* erased, whatever uploads were started, abandoned or taken over since, and
\* whichever other IAP calls failed; only the last block of an update that is
\* done may lie there.
THEOREM NothingIsAbove == "erase" \notin Faults => (Spec => []NothingAbove)
<1> SUFFICES ASSUME "erase" \notin Faults PROVE Spec => []NothingAbove
    OBVIOUS
<1>1. Init => HoleInv /\ NothingAbove
    BY TypeInit DEF Init, FlashRamInit, UploadRamInit, HoleInv, DataFilled, NoHoles, NothingAbove
<1>2. ASSUME HoleInv, NothingAbove, [Next]_vars PROVE NothingAbove'
    <2>1. CASE ColdStart \/ PowerLoss
        BY <2>1 DEF ColdStart, PowerLoss, NothingAbove
    <2>2. CASE EnterLoader
        <3>1. flash' = [x \in UserFlash |-> Blank]
            BY <2>2 DEF EnterLoader, Answers
        <3> QED BY <3>1 DEF NothingAbove
    <2>3. CASE Loop
        BY <1>2, <2>3, LoopAbove
    <2>4. CASE Tail
        BY <1>2, <2>4, TailAbove
    <2>5. CASE PostReturn
        BY <1>2, <2>5, SameAbove, SameEnd DEF PostReturn, Jump, flashVars, uploadVars, loaderVars
    <2>6. CASE Corrupt
        BY <1>2, <2>6, LostAbove
    <2>7. CASE \E c \in Conns : ConnNext(c)
        <3>1. PICK c \in Conns : ConnNext(c)
            BY <2>7
        <3>2. mode = "loader" /\ UNCHANGED <<flash, StoredEnd>>
            BY <1>2, <3>1, ServerHoles, SameEnd DEF flashVars
        <3> QED BY <1>2, <3>1, <3>2, ServerAbove
    <2>8. CASE UNCHANGED vars
        BY <1>2, <2>8 DEF vars, flashVars, uploadVars, loaderVars, NothingAbove, FirstFree, StoredEnd
    <2> QED BY <1>2, <2>1, <2>2, <2>3, <2>4, <2>5, <2>6, <2>7, <2>8 DEF Next, Power, Handler
<1> QED BY <1>1, <1>2, HoleNext, PTL DEF Spec
=============================================================================
