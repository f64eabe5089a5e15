------------------------- MODULE BootComplete_proofs -------------------------
(***************************************************************************)
(* When the environment disturbs nothing (Faults = {}), the boot loader    *)
(* only jumps to a complete image: BootComplete, for every size of block,  *)
(* flash, file and segment and any number of connections and power cycles. *)
(*                                                                         *)
(* The argument is the invariant IndInv of Bootloader: the byte counters   *)
(* of httpd.c and post_example.c agree (OwnerInv), they agree with where   *)
(* the flash writer is (Position), and below that place the flash holds    *)
(* the beginning of the file (Stored).                                     *)
(***************************************************************************)
EXTENDS Bootloader_proofs

Quiet == Faults = {}

Inv == TypeInv /\ IndInv

-----------------------------------------------------------------------------
\* What holds at the places of the main loop.

LEMMA ConnAt ==
    ASSUME TypeInv, NEW c \in Conns
    PROVE  /\ conn[c] \in ConnState /\ conn[c].up \in BOOLEAN
           /\ conn[c].left \in Nat /\ conn[c].id \in Nat /\ conn[c].len \in Nat
           /\ conn[c].sent \in Nat /\ conn[c].total \in Nat
BY DEF TypeInv, TypeOK, LoaderTypeOK, ConnState

LEMMA IdleFacts ==
    ASSUME Inv, Ready
    PROVE  /\ ~reboot /\ mode = "loader" /\ pc = "idle"
           /\ \A c \in Conns : Owner(c) <=> current_connection = c /\ conn[c].left > 0
<1>1. mode = "loader" /\ pc = "idle"
    BY DEF Ready
<1>2. ~reboot
    BY <1>1 DEF Inv, IndInv, Progress
<1> QED BY <1>1, <1>2 DEF Owner

\* A connection without outstanding data does not own a started upload.
LEMMA NotOwner ==
    ASSUME Inv, Ready, NEW c \in Conns, conn[c].left = 0 \/ MayLeave(c), Quiet
    PROVE  current_connection = c => curlen = 0
<1>1. CASE MayLeave(c)
    BY <1>1 DEF MayLeave, Undisturbed, Quiet
<1>2. CASE conn[c].left = 0
    <2>1. SUFFICES ASSUME current_connection = c, curlen # 0 PROVE FALSE
        OBVIOUS
    <2>2. curlen > 0
        BY <2>1 DEF Inv, TypeInv, TypeOK, UploadTypeOK
    <2>3. Owner(c)
        BY <2>1, <2>2 DEF Inv, IndInv, Progress, Ready
    <2> QED BY <2>3, <1>2, IdleFacts
<1> QED BY <1>1, <1>2

-----------------------------------------------------------------------------
\* Steps of the web server that leave the flash and the state machine alone.

\* The state at c changes to one that expects no data, and the upload is not c's
\* or has not started; c may give the upload up.
LEMMA FreeStep ==
    ASSUME Inv, TypeInv', Ready, NEW c \in Conns, current_connection = c => curlen = 0,
           UNCHANGED <<flashVars, fwstate, content_length, file_length, curlen, flash_cnt,
                       flash_pos, dataArr, reboot, pc, rx, mode, image>>,
           \/ current_connection' = current_connection
           \/ current_connection = c /\ current_connection' = NULL,
           conn'[c].left = 0,
           \A d \in Conns \ {c} : conn'[d] = conn[d]
    PROVE  IndInv'
<1>0. ~reboot /\ mode = "loader" /\ pc = "idle" /\ NULL \notin Conns
    BY IdleFacts, UploadAssumption
<1>1. \A d \in Conns : Owner(d)' => d # c /\ Owner(d) /\ conn'[d] = conn[d]
    BY <1>0 DEF Owner
<1>2. NothingPending' /\ OffInv' /\ RxInv' /\ Position' /\ BootComplete'
    BY <1>0 DEF Inv, IndInv, NothingPending, OffInv, RxInv, Position, BootComplete, flashVars
<1>3. OwnerInv'
    <2> SUFFICES ASSUME NEW d \in Conns, Owner(d)'
                 PROVE  /\ conn'[d].up /\ conn'[d].len \in FileLens
                        /\ conn'[d].total = Content(conn'[d].len)
                        /\ content_length' = conn'[d].total
                        /\ conn'[d].left = conn'[d].total - conn'[d].sent
                        /\ fwstate' = "OCTET_START" => conn'[d].sent = 0
                        /\ fwstate' = "OCTET_STREAM" \/ reboot' =>
                               /\ file_length' = conn'[d].len + Trailer
                               /\ conn'[d].sent = Preamble + curlen'
        BY DEF OwnerInv
    <2>1. Owner(d) /\ conn'[d] = conn[d]
        BY <1>1
    <2> QED BY <1>0, <2>1 DEF Inv, IndInv, OwnerInv
<1>4. DownInv'
    BY DEF Inv, IndInv, DownInv
<1>5. curlen > 0 => /\ current_connection' = current_connection /\ current_connection \in Conns
                    /\ current_connection # c
                    /\ conn'[current_connection] = conn[current_connection]
                    /\ Owner(current_connection)
    BY <1>0 DEF Inv, IndInv, Progress
<1>6. Progress'
    <2>1. curlen > 0 => Owner(current_connection)'
        BY <1>0, <1>5 DEF Owner
    <2> QED BY <1>0, <1>5, <2>1 DEF Inv, IndInv, Progress
<1>7. Stored'
    BY <1>0, <1>5 DEF Inv, IndInv, Stored, Collecting, flashVars
<1> QED BY <1>2, <1>3, <1>4, <1>6, <1>7 DEF IndInv

\* The counters of the connections stay as they are.
LEMMA SameStep ==
    ASSUME Inv, TypeInv', Ready,
           UNCHANGED <<flashVars, uploadVars, pc, rx, mode, image>>,
           \A d \in Conns : /\ conn'[d].up = conn[d].up /\ conn'[d].left = conn[d].left
                            /\ conn'[d].id = conn[d].id /\ conn'[d].len = conn[d].len
                            /\ conn'[d].sent = conn[d].sent /\ conn'[d].total = conn[d].total
    PROVE  IndInv'
<1>0. ~reboot /\ mode = "loader" /\ pc = "idle" /\ NULL \notin Conns
    BY IdleFacts, UploadAssumption
<1>1. \A d \in Conns : Owner(d)' <=> Owner(d)
    BY DEF Owner, uploadVars
<1>2. NothingPending' /\ OffInv' /\ RxInv' /\ Position' /\ BootComplete'
    BY <1>0 DEF Inv, IndInv, NothingPending, OffInv, RxInv, Position, BootComplete, flashVars,
       uploadVars
<1>3. OwnerInv'
    BY <1>0, <1>1 DEF Inv, IndInv, OwnerInv, uploadVars
<1>4. DownInv'
    BY DEF Inv, IndInv, DownInv
<1>6. Progress'
    BY <1>0, <1>1 DEF Inv, IndInv, Progress, uploadVars
<1>7. Stored'
    BY <1>0 DEF Inv, IndInv, Stored, Progress, Collecting, flashVars, uploadVars
<1> QED BY <1>2, <1>3, <1>4, <1>6, <1>7 DEF IndInv

LEMMA CloseStep ==
    ASSUME Inv, TypeInv', Quiet, Ready, NEW c \in Conns, conn[c].left = 0 \/ MayLeave(c),
           http_close_conn(c)
    PROVE  IndInv'
<1>1. ~reboot
    BY IdleFacts
<1>2. conn' = [conn EXCEPT ![c] = NoConn]
      /\ UNCHANGED <<flashVars, fwstate, content_length, file_length, curlen, flash_cnt,
                     flash_pos, dataArr, reboot, pc, rx, mode, accepts, boots, image>>
      /\ (current_connection' = current_connection \/ Release(c))
    BY <1>1 DEF http_close_conn
<1>3. \/ current_connection' = current_connection
      \/ current_connection = c /\ current_connection' = NULL
    <2>1. CASE Release(c)
        BY <2>1 DEF Release
    <2> QED BY <1>2, <2>1
<1>4. conn'[c].left = 0 /\ \A d \in Conns \ {c} : conn'[d] = conn[d]
    <2>1. conn \in [Conns -> ConnState]
        BY DEF Inv, TypeInv, TypeOK, LoaderTypeOK
    <2> QED BY <1>2, <2>1 DEF NoConn
<1> QED BY <1>2, <1>3, <1>4, NotOwner, FreeStep

\* Every action of httpd.c that does not pass data to the POST handler.
LEMMA ServerStep ==
    ASSUME Inv, TypeInv', Quiet, NEW c \in Conns,
           \/ http_accept(c) \/ ClientCloses(c) \/ http_err(c) \/ http_sent(c)
           \/ http_poll(c) \/ GetPage(c) \/ GetOther(c) \/ BadRequest(c)
    PROVE  IndInv'
<1>0. conn \in [Conns -> ConnState]
    BY DEF Inv, TypeInv, TypeOK, LoaderTypeOK
<1>1. CASE http_accept(c)
    <2>1. Ready /\ conn[c].left = 0
        BY <1>1 DEF http_accept, Inv, IndInv, DownInv
    <2>2. conn'[c].left = 0 /\ \A d \in Conns \ {c} : conn'[d] = conn[d]
        BY <1>0, <1>1 DEF http_accept, NoConn
    <2> QED BY <1>1, <2>1, <2>2, NotOwner, FreeStep DEF http_accept, uploadVars
<1>2. CASE http_err(c)
    <2>1. Ready /\ MayLeave(c)
        BY <1>2 DEF http_err
    <2>2. conn'[c].left = 0 /\ \A d \in Conns \ {c} : conn'[d] = conn[d]
        BY <1>0, <1>2 DEF http_err, NoConn
    <2> QED BY <1>2, <2>1, <2>2, NotOwner, FreeStep DEF http_err, uploadVars
<1>3. CASE ClientCloses(c) \/ http_sent(c) \/ PollOut(c) \/ PollSends(c) \/ BadRequest(c)
    BY <1>3, CloseStep DEF ClientCloses, http_sent, PollOut, PollSends, BadRequest, Parses
<1>4. CASE PollWaits(c)
    <2>1. \A d \in Conns : /\ conn'[d].up = conn[d].up /\ conn'[d].left = conn[d].left
                           /\ conn'[d].id = conn[d].id /\ conn'[d].len = conn[d].len
                           /\ conn'[d].sent = conn[d].sent /\ conn'[d].total = conn[d].total
        BY <1>0, <1>4 DEF PollWaits, ConnState
    <2> QED BY <1>4, <2>1, SameStep DEF PollWaits
<1>5. CASE GetPage(c) \/ GetOther(c)
    <2>1. Ready /\ conn[c].left = 0
        BY <1>5 DEF GetPage, GetOther, FirstRequest, Parses
    <2>2. CASE http_close_conn(c)
        BY <2>1, <2>2, CloseStep
    <2>3. CASE ~http_close_conn(c)
        <3>1. PICK r \in {"page", "404"} :
                 conn' = [conn EXCEPT ![c].resp = r, ![c].retries = 0]
            BY <1>5, <2>3 DEF GetPage, GetOther
        <3>2. \A d \in Conns : /\ conn'[d].up = conn[d].up /\ conn'[d].left = conn[d].left
                               /\ conn'[d].id = conn[d].id /\ conn'[d].len = conn[d].len
                               /\ conn'[d].sent = conn[d].sent /\ conn'[d].total = conn[d].total
            BY <1>0, <3>1 DEF ConnState
        <3> QED BY <1>5, <2>1, <2>3, <3>2, SameStep DEF GetPage, GetOther
    <2> QED BY <2>2, <2>3
<1> QED BY <1>1, <1>2, <1>3, <1>4, <1>5 DEF http_poll

-----------------------------------------------------------------------------
\* The upload starts.

\* Before any file byte was taken the flash is blank.
LEMMA NotStarted ==
    ASSUME Inv, mode = "loader", curlen = 0, pc # "stream"
    PROVE  /\ flash_pos = UserStart /\ flash_cnt = 0 /\ ~reboot
           /\ \A x \in UserFlash : x >= UserStart => flash[x] = Blank
<1>1. flash_pos = UserStart /\ ~reboot
    BY DEF Inv, IndInv, Progress
<1>2. flash_cnt = 0
    BY <1>1, FlashAssumption DEF Inv, IndInv, Position, TypeInv, TypeOK, UploadTypeOK
<1>3. \A x \in UserFlash : x >= UserStart => flash[x] = Blank
    BY <1>1 DEF Inv, IndInv, Stored
<1> QED BY <1>1, <1>2, <1>3

\* A new owner c of an upload of a file of n units, of which no file byte was taken.
LEMMA OwnerStep ==
    ASSUME Inv, TypeInv', mode = "loader", pc # "stream", curlen = 0,
           NEW c \in Conns, NEW n \in FileLens,
           UNCHANGED <<flashVars, flash_cnt, flash_pos, dataArr, reboot, mode, image>>,
           current_connection' = c,
           \A d \in Conns \ {c} : conn'[d] = conn[d],
           conn'[c].up, conn'[c].len = n, conn'[c].total = Content(n),
           content_length' = Content(n),
           conn'[c].left = conn'[c].total - conn'[c].sent,
           \/ /\ fwstate' \in {"OCTET_START", "HEADER"} /\ curlen' = 0
              /\ fwstate' = "OCTET_START" => conn'[c].sent = 0
              /\ pc' = "idle" \/ (pc' = "return" /\ rx'.conn = c /\ rx'.ok)
           \/ /\ fwstate' = "OCTET_STREAM" /\ file_length' = n + Trailer
              /\ conn'[c].sent = Preamble + curlen'
              /\ curlen' = 0 => pc' = "return" /\ rx'.conn = c /\ rx'.ok
              /\ curlen' > 0 =>
                    /\ pc' = "stream"
                    /\ rx' = [conn |-> c, id |-> conn'[c].id, next |-> Preamble,
                              end |-> conn'[c].sent, ok |-> TRUE]
    PROVE  IndInv'
<1>0. /\ flash_pos = UserStart /\ flash_cnt = 0 /\ ~reboot /\ NULL \notin Conns
      /\ \A x \in UserFlash : x >= UserStart => flash[x] = Blank
      /\ curlen' \in Nat /\ Preamble \in Nat \ {0} /\ UserStart \in Nat
    BY NotStarted, UploadAssumption, FlashAssumption DEF TypeInv, TypeOK, UploadTypeOK
<1>1. pc' # "tail" /\ pc' # "corrupt" /\ (pc' = "stream" => curlen' > 0)
    BY <1>0
<1>2. \A d \in Conns : Owner(d)' => d = c
    BY DEF Owner
<1>3. NothingPending' /\ OffInv' /\ BootComplete'
    BY <1>1 DEF Inv, IndInv, NothingPending, OffInv, BootComplete, flashVars
<1>4. RxInv'
    BY <1>0, <1>1 DEF RxInv
<1>5. Position'
    BY <1>0 DEF Position
<1>6. OwnerInv'
    BY <1>0, <1>2 DEF OwnerInv
<1>7. DownInv'
    BY DEF Inv, IndInv, DownInv
<1>8. Progress'
    BY <1>0, <1>1 DEF Progress, Owner
<1>9. Stored'
    BY <1>0 DEF Stored, Collecting, flashVars
<1> QED BY <1>3, <1>4, <1>5, <1>6, <1>7, <1>8, <1>9 DEF IndInv

LEMMA PostStep ==
    ASSUME Inv, TypeInv', Quiet, NEW c \in Conns, NEW n \in FileLens, NEW len \in 0 .. MaxSeg,
           PostRequest(c, n, len)
    PROVE  IndInv'
<1>0. /\ conn \in [Conns -> ConnState] /\ Ready /\ conn[c].up /\ conn[c].left = 0
      /\ n \in Nat /\ Content(n) \in Nat /\ len \in Nat /\ len <= Content(n)
      /\ Preamble \in Nat \ {0} /\ Trailer \in Nat
    BY LoaderAssumption, UploadAssumption
       DEF PostRequest, FirstRequest, Parses, Content, Inv, TypeInv, TypeOK, LoaderTypeOK
<1>1. CASE RefusePost(c, n, len)
    <2>1. conn'[c].left = 0 /\ \A d \in Conns \ {c} : conn'[d] = conn[d]
        BY <1>0, <1>1 DEF RefusePost, ConnState
    <2> QED BY <1>0, <1>1, <2>1, NotOwner, FreeStep DEF RefusePost, PostRequest, uploadVars
<1>2. CASE AcceptPost(c, n, len)
    <2>1. curlen = 0
        <3> SUFFICES ASSUME curlen # 0 PROVE FALSE
            OBVIOUS
        <3>1. curlen > 0
            BY DEF Inv, TypeInv, TypeOK, UploadTypeOK
        <3>2. current_connection \in Conns
            BY <3>1, <1>0 DEF Inv, IndInv, Progress, Ready
        <3> QED BY <3>2, <1>2 DEF AcceptPost, BeginAccepts, TakeOver, Undisturbed, Quiet
    <2>2. /\ conn'[c].up /\ conn'[c].len = n /\ conn'[c].total = Content(n)
          /\ conn'[c].left = Content(n) - len /\ conn'[c].sent = len
          /\ conn'[c].id = conn[c].id
          /\ \A d \in Conns \ {c} : conn'[d] = conn[d]
        BY <1>0, <1>2 DEF AcceptPost, ConnState
    <2>3. CASE len = 0
        <3>1. httpd_post_begin(c, Content(n)) /\ UNCHANGED <<pc, rx>>
            BY <1>2, <2>3 DEF AcceptPost
        <3> QED BY <1>0, <2>1, <2>2, <2>3, <3>1, OwnerStep DEF httpd_post_begin, PostRequest, Ready
    <2>4. CASE len # 0
        <3>1. BeginAndReceive(c, conn[c].id, len, Content(n))
            BY <1>2, <2>4 DEF AcceptPost
        <3>2. CASE fwstate' = "HEADER" /\ Ignore(c, TRUE)
            <4>1. curlen' = 0 /\ pc' = "return" /\ rx'.conn = c /\ rx'.ok
                BY <2>1, <3>2 DEF Ignore, NoRx
            <4> QED BY <1>0, <2>1, <2>2, <3>1, <3>2, <4>1, OwnerStep
                    DEF BeginAndReceive, PostRequest, Ready
        <3>3. CASE TagInBuffer(0, len) /\ StartStream(c, conn[c].id, 0, len, Content(n), Preamble)
            <4>1. fwstate' = "OCTET_STREAM" /\ file_length' = n + Trailer /\ len >= Preamble
                BY <1>0, <3>3 DEF StartStream, Content, TagInBuffer
            <4>2. /\ conn'[c].sent = Preamble + curlen'
                  /\ curlen' = 0 => pc' = "return" /\ rx'.conn = c /\ rx'.ok
                  /\ curlen' > 0 =>
                        /\ pc' = "stream"
                        /\ rx' = [conn |-> c, id |-> conn'[c].id, next |-> Preamble,
                                  end |-> conn'[c].sent, ok |-> TRUE]
                BY <1>0, <2>1, <2>2, <3>3, <4>1 DEF StartStream, NoRx
            <4> QED BY <1>0, <2>1, <2>2, <3>1, <4>1, <4>2, OwnerStep
                    DEF BeginAndReceive, PostRequest, Ready
        <3> QED BY <3>1, <3>2, <3>3 DEF BeginAndReceive, OctetStart, Quiet
    <2> QED BY <2>3, <2>4
<1> QED BY <1>1, <1>2 DEF PostRequest

-----------------------------------------------------------------------------
\* Data arrives for a POST.

\* Data of a connection that does not own the upload is refused.
LEMMA RefuseStep ==
    ASSUME Inv, TypeInv', Ready, NEW c \in Conns, current_connection # c,
           UNCHANGED <<flashVars, uploadVars, mode, image>>,
           pc' = "return", rx'.conn = c, conn'[c].up,
           \A d \in Conns \ {c} : conn'[d] = conn[d]
    PROVE  IndInv'
<1>0. ~reboot /\ mode = "loader" /\ pc = "idle" /\ NULL \notin Conns
    BY IdleFacts, UploadAssumption
<1>1. \A d \in Conns : Owner(d)' => d # c /\ Owner(d) /\ conn'[d] = conn[d]
    BY <1>0 DEF Owner, uploadVars
<1>2. NothingPending' /\ OffInv' /\ RxInv' /\ Position' /\ BootComplete' /\ DownInv'
    BY <1>0 DEF Inv, IndInv, NothingPending, OffInv, RxInv, Position, BootComplete, DownInv,
       flashVars, uploadVars
<1>3. OwnerInv'
    BY <1>0, <1>1 DEF Inv, IndInv, OwnerInv, uploadVars
<1>4. curlen > 0 => /\ current_connection \in Conns /\ Owner(current_connection)
                    /\ conn'[current_connection] = conn[current_connection]
    BY <1>0 DEF Inv, IndInv, Progress
<1>5. Progress'
    <2>1. curlen > 0 => Owner(current_connection)'
        BY <1>0, <1>4 DEF Owner, uploadVars
    <2> QED BY <1>0, <1>4, <2>1 DEF Inv, IndInv, Progress, uploadVars
<1>6. Stored'
    BY <1>0, <1>4 DEF Inv, IndInv, Stored, Collecting, flashVars, uploadVars
<1> QED BY <1>2, <1>3, <1>5, <1>6 DEF IndInv

LEMMA RecvStep ==
    ASSUME Inv, TypeInv', Quiet, NEW c \in Conns, NEW len \in 1 .. MaxSeg,
           NEW head \in 1 .. MaxSeg, RecvPost(c, len, head)
    PROVE  IndInv'
<1>0. /\ conn \in [Conns -> ConnState] /\ conn[c].up /\ conn[c].left > 0 /\ head = len
      /\ mode = "loader" /\ pc = "idle" /\ ~reboot /\ Ready
      /\ len \in Nat \ {0} /\ len <= conn[c].total - conn[c].sent
    BY LoaderAssumption, IdleFacts
       DEF RecvPost, Quiet, Ready, Inv, TypeInv, TypeOK, LoaderTypeOK
<1>1. /\ conn[c].sent \in Nat /\ conn[c].left \in Nat /\ conn[c].total \in Nat
      /\ conn[c].len \in Nat /\ curlen \in Nat /\ Preamble \in Nat \ {0} /\ Trailer \in Nat
    BY ConnAt, UploadAssumption DEF Inv, TypeInv, TypeOK, UploadTypeOK
<1>2. /\ conn'[c].up = conn[c].up /\ conn'[c].len = conn[c].len
      /\ conn'[c].total = conn[c].total /\ conn'[c].sent = conn[c].sent + len
      /\ conn'[c].left = IF conn[c].left < len THEN 0 ELSE conn[c].left - len
      /\ conn'[c].id = conn[c].id
      /\ \A d \in Conns \ {c} : conn'[d] = conn[d]
    BY <1>0 DEF RecvPost, ConnState
<1>3. httpd_post_receive_data(c, conn[c].id, conn[c].sent, len)
      /\ UNCHANGED <<flashVars, mode, image>>
    BY <1>0 DEF RecvPost
<1>4. UNCHANGED <<content_length, flash_cnt, flash_pos, dataArr, reboot, current_connection>>
    BY <1>3 DEF httpd_post_receive_data
<1>5. CASE current_connection # c
    <2>1. Ignore(c, FALSE) /\ UNCHANGED fwstate
        BY <1>3, <1>5 DEF httpd_post_receive_data
    <2>2. pc' = "return" /\ rx'.conn = c /\ UNCHANGED <<file_length, curlen>>
        BY <2>1 DEF Ignore, NoRx
    <2> QED BY <1>0, <1>2, <1>3, <1>4, <1>5, <2>1, <2>2, RefuseStep DEF uploadVars
<1>6. CASE current_connection = c
    <2>1. Owner(c)
        BY <1>0, <1>6 DEF Owner
    <2>2. /\ conn[c].len \in FileLens /\ conn[c].total = Content(conn[c].len)
          /\ content_length = conn[c].total
          /\ conn[c].left = conn[c].total - conn[c].sent
          /\ fwstate = "OCTET_START" => conn[c].sent = 0
          /\ fwstate = "OCTET_STREAM" => /\ file_length = conn[c].len + Trailer
                                         /\ conn[c].sent = Preamble + curlen
        BY <1>0, <2>1 DEF Inv, IndInv, OwnerInv
    <2>3. conn'[c].left = conn'[c].total - conn'[c].sent
        BY <1>0, <1>1, <1>2, <2>2
    <2>4. fwstate # "OCTET_STREAM" => curlen = 0
        BY <1>0, <1>1 DEF Inv, IndInv, Progress
    <2>5. CASE fwstate' = "HEADER" /\ Ignore(c, TRUE) /\ fwstate # "OCTET_STREAM"
        <3>1. curlen' = 0 /\ pc' = "return" /\ rx'.conn = c /\ rx'.ok
            BY <2>4, <2>5 DEF Ignore, NoRx
        <3> QED BY <1>0, <1>2, <1>3, <1>4, <1>6, <2>2, <2>3, <2>4, <2>5, <3>1, OwnerStep
    <2>6. CASE fwstate = "OCTET_START" /\ TagInBuffer(conn[c].sent, len)
               /\ StartStream(c, conn[c].id, conn[c].sent, len, content_length, Preamble)
        <3>1. /\ fwstate' = "OCTET_STREAM" /\ file_length' = conn[c].len + Trailer
              /\ len >= Preamble /\ conn[c].sent = 0
            BY <1>1, <2>2, <2>6 DEF StartStream, Content, TagInBuffer
        <3>2. /\ conn'[c].sent = Preamble + curlen'
              /\ curlen' = 0 => pc' = "return" /\ rx'.conn = c /\ rx'.ok
              /\ curlen' > 0 =>
                    /\ pc' = "stream"
                    /\ rx' = [conn |-> c, id |-> conn'[c].id, next |-> Preamble,
                              end |-> conn'[c].sent, ok |-> TRUE]
            BY <1>0, <1>1, <1>2, <2>4, <2>6, <3>1 DEF StartStream, NoRx
        <3> QED BY <1>0, <1>2, <1>3, <1>4, <1>6, <2>2, <2>3, <2>4, <2>6, <3>1, <3>2, OwnerStep
    <2>7. CASE fwstate = "OCTET_STREAM" /\ OctetStream(c, conn[c].id, conn[c].sent, len)
        <3>1. /\ curlen' = curlen + len /\ pc' = "stream" /\ fwstate' = "OCTET_STREAM"
              /\ file_length' = file_length /\ rx'.conn = c /\ rx'.ok /\ rx'.id = conn'[c].id
              /\ rx'.next = conn[c].sent /\ rx'.end = conn'[c].sent
            BY <1>2, <2>7 DEF OctetStream
        <3>2. conn[c].sent = Preamble + curlen /\ conn'[c].sent = Preamble + curlen'
              /\ curlen' > 0 /\ curlen' \in Nat
            BY <1>1, <1>2, <2>2, <2>7, <3>1, <1>0
        <3>3. NothingPending' /\ OffInv' /\ BootComplete' /\ DownInv'
            BY <1>0, <1>2, <1>3, <3>1
               DEF Inv, IndInv, NothingPending, OffInv, BootComplete, DownInv, flashVars
        <3>4. RxInv'
            BY <1>0, <1>1, <1>2, <1>4, <1>6, <3>1, <3>2 DEF RxInv
        <3>5. Position'
            BY <1>0, <1>1, <1>4, <3>1, <3>2 DEF Inv, IndInv, Position
        <3>6. \A d \in Conns : Owner(d)' => d = c
            BY <1>4, <1>6 DEF Owner
        <3>7. OwnerInv'
            BY <1>0, <1>2, <1>4, <2>2, <2>3, <2>7, <3>1, <3>2, <3>6 DEF OwnerInv
        <3>8. Progress'
            BY <1>0, <1>4, <1>6, <3>1, <3>2 DEF Progress, Owner
        <3>9. Stored'
            <4>1. \A x \in UserFlash : x >= flash_pos => flash[x] = Blank
                BY <1>0 DEF Inv, IndInv, Stored
            <4>2. Collecting(conn[c].id)
                <5>1. CASE curlen > 0
                    BY <1>0, <1>6, <5>1 DEF Inv, IndInv, Stored
                <5>2. CASE curlen = 0
                    BY <1>0, <5>2, NotStarted, FlashAssumption DEF Collecting
                <5> QED BY <5>1, <5>2, <1>1
            <4>3. Collecting(conn[c].id)'
                BY <1>2, <1>3, <1>4, <4>2 DEF Collecting, flashVars
            <4> QED BY <1>0, <1>2, <1>3, <1>4, <1>6, <4>1, <4>3 DEF Stored, flashVars, Collecting
        <3> QED BY <3>3, <3>4, <3>5, <3>7, <3>8, <3>9 DEF IndInv
    <2> QED BY <1>3, <1>6, <2>5, <2>6, <2>7
            DEF httpd_post_receive_data, OctetStart, Quiet, Ignore
<1> QED BY <1>5, <1>6

-----------------------------------------------------------------------------
\* The flash writer.

\* Writing a block to blank flash: it changes exactly the cells of the block.
LEMMA WriteBlank ==
    ASSUME Inv, Quiet, NEW iap \in IapOutcome, NEW src \in Block, NEW a \in Nat,
           InUserFlash(a), \A x \in UserFlash : x >= a => flash[x] = Blank,
           WriteFlash(a, src, iap)
    PROVE  /\ WriteOk(a, iap) /\ byte_ctr' = 0 /\ flash_address' = 0
           /\ \A x \in UserFlash : x < a => flash'[x] = flash[x]
           /\ \A i \in 0 .. BlockSize - 1 : a + i \in UserFlash /\ flash'[a + i] = src[i]
           /\ \A x \in UserFlash : x >= a + BlockSize => flash'[x] = Blank
<1>0. /\ flash \in [UserFlash -> Cell] /\ BlockSize \in Nat \ {0} /\ UserStart \in Nat
      /\ UserEnd \in Nat
    BY FlashAssumption DEF Inv, TypeInv, TypeOK, FlashTypeOK
<1>1. Address(a) = a
    BY DEF Address, Inv, IndInv, NothingPending
<1>2. WriteOk(a, iap)
    BY <1>1 DEF WriteOk, Prepared, IapOutcome, Answers, Quiet
<1>3. byte_ctr' = 0 /\ flash_address' = 0
      /\ flash' = CopyRamToFlash(FindErasePrepare(a, iap), a, src)
    BY <1>1, <1>2 DEF WriteFlash
<1> DEFINE e == FindErasePrepare(a, iap)
<1>4. e \in [UserFlash -> Cell] /\ \A x \in UserFlash : e[x] = flash[x]
    BY <1>0 DEF FindErasePrepare, EraseSector, SectorAt, Cell
<1>5. \A x \in UserFlash :
          flash'[x] = IF x \in a .. a + BlockSize - 1 THEN Burn(e[x], src[x - a]) ELSE e[x]
    BY <1>3 DEF CopyRamToFlash
<1>6. ASSUME NEW x \in UserFlash, x < a PROVE flash'[x] = flash[x]
    <2>1. x \notin a .. a + BlockSize - 1
        BY <1>0, <1>6 DEF UserFlash
    <2> QED BY <1>4, <1>5, <2>1
<1>7. ASSUME NEW x \in UserFlash, x >= a + BlockSize PROVE flash'[x] = Blank
    <2>1. x \notin a .. a + BlockSize - 1 /\ x >= a
        BY <1>0, <1>7 DEF UserFlash
    <2> QED BY <1>4, <1>5, <2>1
<1>8. ASSUME NEW i \in 0 .. BlockSize - 1
      PROVE  a + i \in UserFlash /\ flash'[a + i] = src[i]
    <2>1. /\ a + i \in UserFlash /\ a + i \in a .. a + BlockSize - 1 /\ a + i >= a
          /\ (a + i) - a = i
        BY <1>0 DEF UserFlash, InUserFlash
    <2>2. flash'[a + i] = Burn(Blank, src[i])
        BY <1>4, <1>5, <2>1
    <2> QED BY <2>1, <2>2 DEF Burn
<1> QED BY <1>2, <1>3, <1>6, <1>7, <1>8

\* While a pbuf is processed: who owns it, and how much of the file was taken.
LEMMA StreamFacts ==
    ASSUME Inv, Quiet, mode = "loader", pc \in {"stream", "tail"}
    PROVE  /\ current_connection \in Conns /\ rx.conn = current_connection /\ rx.ok
           /\ rx.id = conn[current_connection].id /\ rx.end = conn[current_connection].sent
           /\ curlen > 0 /\ fwstate = "OCTET_STREAM" /\ ~reboot
           /\ Owner(current_connection) /\ conn[current_connection].up
           /\ conn[current_connection].len \in FileLens
           /\ conn[current_connection].left = file_length - curlen
           /\ file_length = conn[current_connection].len + Trailer
           /\ rx.end = Preamble + curlen
           /\ curlen + BlockSize <= Capacity
           /\ Collecting(conn[current_connection].id)
           /\ \A x \in UserFlash : x >= flash_pos => flash[x] = Blank
<1> DEFINE cc == conn[current_connection]
<1>1. /\ current_connection \in Conns /\ rx.conn = current_connection /\ rx.ok
      /\ rx.id = cc.id /\ rx.end = cc.sent /\ curlen > 0 /\ fwstate = "OCTET_STREAM" /\ ~reboot
    BY DEF Inv, IndInv, RxInv
<1>2. Owner(current_connection)
    BY DEF Owner
<1>3. /\ cc.up /\ cc.len \in FileLens /\ cc.total = Content(cc.len)
      /\ cc.left = cc.total - cc.sent /\ file_length = cc.len + Trailer
      /\ cc.sent = Preamble + curlen
    BY <1>1, <1>2 DEF Inv, IndInv, OwnerInv
<1>4. /\ cc.len \in Nat /\ cc.sent \in Nat /\ cc.left \in Nat /\ curlen \in Nat
      /\ Preamble \in Nat /\ Trailer \in Nat /\ BlockSize \in Nat /\ UserStart \in Nat
      /\ UserEnd \in Nat
    BY <1>1, ConnAt, UploadAssumption, FlashAssumption DEF Inv, TypeInv, TypeOK, UploadTypeOK
<1>5. cc.left = file_length - curlen
    BY <1>3, <1>4 DEF Content
<1>6. curlen + BlockSize <= Capacity
    BY <1>3, <1>4, <1>5, LoaderAssumption DEF Fits, Capacity, Quiet
<1>7. Collecting(cc.id) /\ \A x \in UserFlash : x >= flash_pos => flash[x] = Blank
    BY <1>1 DEF Inv, IndInv, Stored
<1> QED BY <1>1, <1>2, <1>3, <1>5, <1>6, <1>7

\* A step inside the callback: what it must show.
LEMMA StreamStep ==
    ASSUME Inv, TypeInv', Quiet, mode = "loader", pc \in {"stream", "tail"}, rx \in Rx,
           UNCHANGED <<mode, conn, image, current_connection, content_length, file_length,
                       curlen>>,
           byte_ctr' = 0, flash_address' = 0, pc' # "corrupt", pc' # "idle",
           rx'.conn = rx.conn, rx'.ok = rx.ok,
           rx'.id = rx.id, rx'.end = rx.end,
           ~reboot' => fwstate' = "OCTET_STREAM", reboot' => fwstate' = "HEADER",
           pc' = "stream" => Preamble <= rx'.next /\ rx'.next < rx'.end,
           pc' \in {"stream", "tail"} => ~reboot',
           pc' = "return" /\ ~reboot' => curlen < file_length,
           reboot' => pc' = "return" /\ file_length <= curlen,
           Position',
           ~reboot' => Collecting(conn[current_connection].id)',
           ~reboot' => \A x \in UserFlash : x >= flash_pos' => flash'[x] = Blank,
           reboot' => ImageInFlash(conn[current_connection].id, curlen)'
    PROVE  IndInv'
<1> DEFINE cc == conn[current_connection]
<1>0. /\ current_connection \in Conns /\ rx.conn = current_connection /\ rx.ok
      /\ rx.id = cc.id /\ rx.end = cc.sent /\ curlen > 0 /\ fwstate = "OCTET_STREAM"
      /\ Owner(current_connection) /\ cc.up /\ cc.len \in FileLens
      /\ cc.left = file_length - curlen
    BY StreamFacts
<1>1. /\ cc.total = Content(cc.len) /\ content_length = cc.total /\ cc.left = cc.total - cc.sent
      /\ file_length = cc.len + Trailer /\ cc.sent = Preamble + curlen
      /\ curlen \in Nat /\ file_length \in Int
    BY <1>0 DEF Inv, IndInv, OwnerInv, TypeInv, TypeOK, UploadTypeOK
<1>2. NothingPending' /\ OffInv' /\ BootComplete' /\ DownInv'
    BY DEF Inv, IndInv, NothingPending, OffInv, BootComplete, DownInv
<1>3. RxInv'
    BY <1>0 DEF RxInv
<1>4. OwnerInv'
    BY <1>0, <1>1 DEF OwnerInv, Owner
<1>5. pc' \in {"stream", "tail", "return"}
    BY DEF TypeInv, TypeOK, UploadTypeOK
<1>6. Owner(current_connection)'
    <2>1. CASE pc' \in {"stream", "tail"} \/ reboot'
        BY <2>1 DEF Owner
    <2>2. CASE pc' = "return" /\ ~reboot'
        BY <1>0, <1>1, <2>2 DEF Owner
    <2> QED BY <1>5, <2>1, <2>2
<1>7. Progress'
    BY <1>0, <1>1, <1>5, <1>6 DEF Progress
<1>8. Stored'
    BY <1>0 DEF Stored
<1> QED BY <1>2, <1>3, <1>4, <1>7, <1>8 DEF IndInv

LEMMA LoopStep == ASSUME Inv, TypeInv', Quiet, Loop PROVE IndInv'
<1> DEFINE u == conn[current_connection].id
<1>0. /\ mode = "loader" /\ pc = "stream" /\ StreamLoop /\ UNCHANGED loaderVars
      /\ UNCHANGED <<fwstate, content_length, file_length, curlen, reboot, current_connection>>
    BY DEF Loop, StreamLoop
<1>1. /\ rx \in Rx /\ rx.next \in Nat /\ rx.end \in Nat /\ flash_cnt \in Nat
      /\ flash_pos \in Nat /\ dataArr \in Block
      /\ BlockSize \in Nat \ {0} /\ UserStart \in Nat /\ UserEnd \in Nat /\ Preamble \in Nat
      /\ UserStart + BlockSize - 1 <= UserEnd
    BY FlashAssumption, UploadAssumption DEF Inv, TypeInv, TypeOK, UploadTypeOK, Rx
<1>2. Taken \in 1 .. BlockSize /\ flash_cnt + Taken <= BlockSize /\ rx.next + Taken <= rx.end
    BY <1>0, TakenRange DEF Inv
<1>3. /\ rx.id = u /\ ~reboot /\ fwstate = "OCTET_STREAM" /\ rx.end = Preamble + curlen
      /\ curlen + BlockSize <= Capacity /\ Collecting(u) /\ curlen \in Nat
      /\ \A x \in UserFlash : x >= flash_pos => flash[x] = Blank
    BY <1>0, StreamFacts DEF Inv, TypeInv, TypeOK, UploadTypeOK
<1>4. /\ flash_pos >= UserStart /\ Preamble <= rx.next
      /\ rx.next - Preamble = (flash_pos - UserStart) + flash_cnt
    BY <1>0 DEF Inv, IndInv, Position, RxInv
<1>5. /\ rx' = [rx EXCEPT !.next = @ + Taken]
      /\ pc' = IF rx'.next = rx.end THEN "tail" ELSE "stream"
    BY DEF Loop, StreamLoop
<1>6. /\ rx'.next = rx.next + Taken /\ rx'.conn = rx.conn /\ rx'.ok = rx.ok
      /\ rx'.id = rx.id /\ rx'.end = rx.end
    BY <1>1, <1>5 DEF Rx
<1>7. Collected(Taken) \in Block
    BY <1>2, CollectedType DEF Inv, TypeInv
<1>8. \A i \in 0 .. flash_cnt + Taken - 1 :
          i \in 0 .. BlockSize - 1
          /\ Collected(Taken)[i] = Byte(u, Preamble + (flash_pos - UserStart) + i)
    <2> SUFFICES ASSUME NEW i \in 0 .. flash_cnt + Taken - 1
                 PROVE  Collected(Taken)[i] = Byte(u, Preamble + (flash_pos - UserStart) + i)
        BY <1>1, <1>2
    <2>1. i \in 0 .. BlockSize - 1
        BY <1>1, <1>2
    <2>2. CASE i < flash_cnt
        <3>1. Collected(Taken)[i] = dataArr[i]
            BY <1>1, <1>2, <2>1, <2>2 DEF Collected
        <3>2. i \in 0 .. flash_cnt - 1
            BY <1>1, <2>2
        <3> QED BY <1>3, <3>1, <3>2 DEF Collecting
    <2>3. CASE i >= flash_cnt
        <3>1. i \in flash_cnt .. flash_cnt + Taken - 1
            BY <1>1, <1>2, <2>3
        <3>2. Collected(Taken)[i] = Byte(rx.id, rx.next + (i - flash_cnt))
            BY <2>1, <3>1 DEF Collected
        <3>3. rx.next + (i - flash_cnt) = Preamble + (flash_pos - UserStart) + i
            BY <1>1, <1>2, <1>4, <2>1
        <3> QED BY <1>3, <3>2, <3>3
    <2> QED BY <1>1, <2>1, <2>2, <2>3
<1>9. CASE FillBlock
    <2>1. /\ flash_cnt' = flash_cnt + Taken /\ dataArr' = Collected(Taken)
          /\ flash_pos' = flash_pos /\ flash' = flash /\ byte_ctr' = byte_ctr
          /\ flash_address' = flash_address
        BY <1>9 DEF FillBlock, flashVars
    <2>2. Position'
        BY <1>0, <1>1, <1>2, <1>3, <1>4, <1>5, <1>6, <2>1 DEF Position
    <2>3. Collecting(conn[current_connection].id)'
        <3>1. \A k \in 0 .. flash_pos' - UserStart - 1 : flash'[UserStart + k] = Byte(u, Preamble + k)
            BY <1>3, <2>1 DEF Collecting
        <3>2. \A i \in 0 .. flash_cnt' - 1 :
                  dataArr'[i] = Byte(u, Preamble + (flash_pos' - UserStart) + i)
            <4> TAKE i \in 0 .. flash_cnt' - 1
            <4>1. i \in 0 .. flash_cnt + Taken - 1
                BY <1>1, <1>2, <2>1
            <4>2. Collected(Taken)[i] = Byte(u, Preamble + (flash_pos - UserStart) + i)
                BY <1>8, <4>1
            <4> QED BY <2>1, <4>2
        <3> QED BY <1>0, <3>1, <3>2 DEF Collecting, loaderVars
    <2>4. byte_ctr' = 0 /\ flash_address' = 0
        BY <2>1 DEF Inv, IndInv, NothingPending
    <2>5. /\ ~reboot' /\ fwstate' = "OCTET_STREAM" /\ pc' \in {"stream", "tail"}
          /\ pc' = "stream" => Preamble <= rx'.next /\ rx'.next < rx'.end
        BY <1>0, <1>1, <1>2, <1>3, <1>4, <1>5, <1>6
    <2>6. \A x \in UserFlash : x >= flash_pos' => flash'[x] = Blank
        BY <1>3, <2>1
    <2> QED BY <1>0, <1>1, <1>6, <2>2, <2>3, <2>4, <2>5, <2>6, StreamStep DEF loaderVars
<1>10. CASE WriteBlock
    <2>1. PICK iap \in IapOutcome :
             /\ WriteFlash(flash_pos, Collected(Taken), iap)
             /\ IF WriteOk(flash_pos, iap)
                THEN /\ flash_pos' = flash_pos + BlockSize
                     /\ dataArr' = [i \in 0 .. BlockSize - 1 |-> Blank]
                ELSE /\ flash_pos' = flash_pos
                     /\ dataArr' = Collected(Taken)
        BY <1>10 DEF WriteBlock
    <2>2. flash_cnt + Taken = BlockSize /\ flash_cnt' = 0
        BY <1>10 DEF WriteBlock
    <2>3. InUserFlash(flash_pos)
        BY <1>1, <1>2, <1>3, <1>4, <2>2 DEF InUserFlash, Capacity
    <2>4. /\ WriteOk(flash_pos, iap) /\ byte_ctr' = 0 /\ flash_address' = 0
          /\ \A x \in UserFlash : x < flash_pos => flash'[x] = flash[x]
          /\ \A i \in 0 .. BlockSize - 1 :
                 flash_pos + i \in UserFlash /\ flash'[flash_pos + i] = Collected(Taken)[i]
          /\ \A x \in UserFlash : x >= flash_pos + BlockSize => flash'[x] = Blank
        BY <1>1, <1>3, <1>7, <2>1, <2>3, WriteBlank
    <2>5. flash_pos' = flash_pos + BlockSize
        BY <2>1, <2>4
    <2>6. Position'
        BY <1>0, <1>1, <1>2, <1>3, <1>4, <1>5, <1>6, <2>2, <2>5 DEF Position
    <2>7. ASSUME NEW k \in 0 .. flash_pos' - UserStart - 1
          PROVE  flash'[UserStart + k] = Byte(u, Preamble + k)
        <3>1. CASE k < flash_pos - UserStart
            <4>1. /\ k \in 0 .. flash_pos - UserStart - 1 /\ UserStart + k \in UserFlash
                  /\ UserStart + k < flash_pos
                BY <1>1, <1>4, <2>3, <2>5, <3>1 DEF UserFlash, InUserFlash
            <4> QED BY <1>3, <2>4, <4>1 DEF Collecting
        <3>2. CASE k >= flash_pos - UserStart
            <4> DEFINE i == k - (flash_pos - UserStart)
            <4>1. /\ i \in 0 .. BlockSize - 1 /\ i \in 0 .. flash_cnt + Taken - 1
                  /\ flash_pos + i = UserStart + k
                  /\ Preamble + (flash_pos - UserStart) + i = Preamble + k
                <5>1. k \in Int /\ k <= flash_pos + BlockSize - UserStart - 1
                    BY <1>1, <2>5
                <5>2. i \in Int /\ 0 <= i /\ i <= BlockSize - 1
                    BY <1>1, <3>2, <5>1
                <5>3. flash_cnt + Taken - 1 = BlockSize - 1
                    BY <1>1, <1>2, <2>2
                <5>4. flash_pos + i = UserStart + k
                      /\ Preamble + (flash_pos - UserStart) + i = Preamble + k
                    BY <1>1, <5>1
                <5> QED BY <1>1, <5>2, <5>3, <5>4
            <4>2. flash'[flash_pos + i] = Collected(Taken)[i]
                BY <2>4, <4>1
            <4> QED BY <1>8, <4>1, <4>2
        <3> QED BY <1>1, <2>5, <3>1, <3>2
    <2>8. Collecting(conn[current_connection].id)'
        BY <1>0, <2>2, <2>7 DEF Collecting, loaderVars
    <2>9. \A x \in UserFlash : x >= flash_pos' => flash'[x] = Blank
        BY <2>4, <2>5
    <2> QED BY <1>0, <1>1, <1>2, <1>3, <1>4, <1>5, <1>6, <2>4, <2>6, <2>8, <2>9, StreamStep
            DEF loaderVars
<1> QED BY <1>9, <1>10 DEF Loop, StreamLoop

LEMMA TailStep == ASSUME Inv, TypeInv', Quiet, Tail PROVE IndInv'
<1> DEFINE u == conn[current_connection].id
<1>0. /\ mode = "loader" /\ pc = "tail" /\ pc' = "return" /\ UNCHANGED loaderVars
      /\ UNCHANGED <<rx, content_length, file_length, curlen, flash_cnt, flash_pos, dataArr,
                     current_connection>>
    BY DEF Tail, StreamTail
<1>1. /\ rx \in Rx /\ flash_cnt \in 0 .. BlockSize - 1 /\ flash_pos \in Nat /\ dataArr \in Block
      /\ curlen \in Nat /\ file_length \in Int
      /\ BlockSize \in Nat \ {0} /\ UserStart \in Nat /\ UserEnd \in Nat
      /\ UserStart + BlockSize - 1 <= UserEnd
    BY FlashAssumption DEF Inv, TypeInv, TypeOK, UploadTypeOK
<1>2. /\ ~reboot /\ fwstate = "OCTET_STREAM" /\ curlen + BlockSize <= Capacity /\ Collecting(u)
      /\ \A x \in UserFlash : x >= flash_pos => flash[x] = Blank
    BY <1>0, StreamFacts
<1>3. flash_pos >= UserStart /\ curlen = (flash_pos - UserStart) + flash_cnt
    BY <1>0 DEF Inv, IndInv, Position
<1>4. Position'
    BY <1>0, <1>3 DEF Position, loaderVars
<1>5. CASE ~Finished
    <2>1. /\ flash' = flash /\ byte_ctr' = byte_ctr /\ flash_address' = flash_address
          /\ fwstate' = fwstate /\ reboot' = reboot /\ curlen < file_length
        BY <1>1, <1>5 DEF Tail, StreamTail, Finished, flashVars
    <2>2. byte_ctr' = 0 /\ flash_address' = 0
        BY <2>1 DEF Inv, IndInv, NothingPending
    <2>3. Collecting(conn[current_connection].id)'
        BY <1>0, <1>2, <2>1 DEF Collecting, loaderVars
    <2> QED BY <1>0, <1>1, <1>2, <1>4, <2>1, <2>2, <2>3, StreamStep DEF loaderVars
<1>6. CASE Finished
    <2>1. fwstate' = "HEADER" /\ reboot' /\ WriteLast /\ file_length <= curlen
        BY <1>1, <1>6 DEF Tail, StreamTail, Finished
    <2>2. /\ byte_ctr' = 0 /\ flash_address' = 0
          /\ \A x \in UserFlash : x < flash_pos => flash'[x] = flash[x]
          /\ \A i \in 0 .. flash_cnt - 1 : flash'[flash_pos + i] = dataArr[i]
        <3>1. CASE flash_cnt > 0
            <4>1. PICK iap \in IapOutcome : WriteFlash(flash_pos, dataArr, iap)
                BY <2>1, <3>1 DEF WriteLast
            <4>2. InUserFlash(flash_pos)
                BY <1>1, <1>2, <1>3, <3>1 DEF InUserFlash, Capacity
            <4>3. \A i \in 0 .. flash_cnt - 1 : i \in 0 .. BlockSize - 1
                BY <1>1
            <4> QED BY <1>1, <1>2, <4>1, <4>2, <4>3, WriteBlank
        <3>2. CASE ~(flash_cnt > 0)
            <4>1. UNCHANGED flashVars
                BY <2>1, <3>2 DEF WriteLast
            <4>2. \A i \in 0 .. flash_cnt - 1 : FALSE
                BY <1>1, <3>2
            <4> QED BY <4>1, <4>2 DEF flashVars, Inv, IndInv, NothingPending
        <3> QED BY <3>1, <3>2
    <2>3. ASSUME NEW k \in 0 .. curlen - 1
          PROVE  flash'[UserStart + k] = Byte(u, Preamble + k)
        <3>1. CASE k < flash_pos - UserStart
            <4>1. /\ k \in 0 .. flash_pos - UserStart - 1 /\ UserStart + k \in UserFlash
                  /\ UserStart + k < flash_pos
                BY <1>1, <1>2, <1>3, <3>1 DEF UserFlash, Capacity
            <4> QED BY <1>2, <2>2, <4>1 DEF Collecting
        <3>2. CASE k >= flash_pos - UserStart
            <4> DEFINE i == k - (flash_pos - UserStart)
            <4>1. i \in 0 .. flash_cnt - 1 /\ flash_pos + i = UserStart + k
                BY <1>1, <1>3, <3>2
            <4>2. UploadAssumption
                BY UploadAssumption
            <4>3. Preamble + (flash_pos - UserStart) + i = Preamble + k
                BY <1>1, <4>1, <4>2 DEF UploadAssumption
            <4> QED BY <1>2, <2>2, <4>1, <4>3 DEF Collecting
        <3> QED BY <1>1, <3>1, <3>2
    <2>4. ImageInFlash(conn[current_connection].id, curlen)'
        BY <1>0, <2>3 DEF ImageInFlash, Holds, loaderVars
    <2> QED BY <1>0, <1>1, <1>4, <2>1, <2>2, <2>4, StreamStep DEF loaderVars
<1> QED BY <1>5, <1>6

-----------------------------------------------------------------------------
\* Nothing goes behind flash_buf, and the image ends at flash_pos.
LEMMA NotBehind ==
    ASSUME Inv
    PROVE  ~Corrupt /\ StoredEnd = flash_pos /\ \A place : After(place) = place
<1>1. byte_ctr = 0 /\ BlockSize \in Nat
    BY FlashAssumption DEF Inv, IndInv, NothingPending
<1> QED BY <1>1 DEF Corrupt, Overrun, OverrunBlock, OverrunLast, WriteBehind, StoredEnd, After

\* The callback returns: it jumps when the update is done.
LEMMA ReturnStep == ASSUME Inv, TypeInv', Quiet, PostReturn PROVE IndInv'
<1>0. /\ mode = "loader" /\ pc = "return" /\ pc' = "idle" /\ rx' = NoRx
      /\ conn \in [Conns -> ConnState] /\ rx.conn \in Conns /\ NULL \notin Conns
      /\ rx.conn = current_connection => rx.ok
    BY UploadAssumption, NotBehind
       DEF PostReturn, Inv, TypeInv, TypeOK, LoaderTypeOK, RxOrder, IndInv, RxInv
<1>1. /\ curlen \in Nat /\ file_length \in Int /\ Trailer \in Nat /\ Preamble \in Nat
    BY UploadAssumption DEF Inv, TypeInv, TypeOK, UploadTypeOK
<1>2. curlen > 0 => current_connection \in Conns /\ Owner(current_connection)
    BY <1>0 DEF Inv, IndInv, Progress
<1>3. curlen > 0 /\ ~reboot => conn[current_connection].left > 0
    BY <1>0, <1>2 DEF Owner
<1>4. reboot =>
        /\ current_connection = rx.conn /\ curlen > 0 /\ file_length <= curlen
        /\ file_length = conn[rx.conn].len + Trailer
        /\ conn[rx.conn].left = file_length - curlen /\ conn[rx.conn].left \in Nat
        /\ conn[rx.conn].len \in Nat
    <2> HAVE reboot
    <2>1. current_connection = rx.conn /\ curlen > 0 /\ file_length <= curlen
        BY <1>0 DEF Inv, IndInv, Progress
    <2>2. /\ conn[rx.conn].total = Content(conn[rx.conn].len)
          /\ conn[rx.conn].left = conn[rx.conn].total - conn[rx.conn].sent
          /\ file_length = conn[rx.conn].len + Trailer
          /\ conn[rx.conn].sent = Preamble + curlen
        BY <1>0, <1>2, <2>1 DEF Inv, IndInv, OwnerInv
    <2>3. conn[rx.conn].left \in Nat /\ conn[rx.conn].len \in Nat
        BY <1>0, ConnAt DEF Inv
    <2> QED BY <1>1, <2>1, <2>2, <2>3 DEF Content
<1>5. CASE ~PostOver /\ UNCHANGED <<flashVars, uploadVars, loaderVars>>
    <2>1. ~reboot
        BY <1>1, <1>4, <1>5 DEF PostOver
    <2>2. \A d \in Conns : Owner(d)' => Owner(d)
        BY <1>0, <1>5, <2>1 DEF Owner, uploadVars, loaderVars
    <2>3. curlen > 0 => Owner(current_connection)'
        BY <1>3, <1>5 DEF Owner, uploadVars, loaderVars
    <2>4. NothingPending' /\ OffInv' /\ RxInv' /\ Position' /\ BootComplete' /\ DownInv'
        BY <1>0, <1>5 DEF Inv, IndInv, NothingPending, OffInv, RxInv, Position, BootComplete,
           ImageInFlash, Holds, DownInv, flashVars, uploadVars, loaderVars
    <2>5. OwnerInv'
        BY <1>0, <1>5, <2>1, <2>2 DEF Inv, IndInv, OwnerInv, uploadVars, loaderVars
    <2>6. Progress'
        BY <1>0, <1>2, <1>5, <2>1, <2>3 DEF Inv, IndInv, Progress, uploadVars, loaderVars
    <2>7. Stored'
        BY <1>0, <1>5 DEF Inv, IndInv, Stored, Collecting, flashVars, uploadVars, loaderVars,
           ImageInFlash, Holds
    <2> QED BY <2>4, <2>5, <2>6, <2>7 DEF IndInv
<1>6. CASE PostOver /\ reboot /\ Jump(rx.conn)
    <2>1. mode' = "app" /\ image' = [id |-> conn[rx.conn].id, len |-> conn[rx.conn].len]
          /\ UNCHANGED <<flashVars, uploadVars, conn, accepts, boots>>
        BY <1>6 DEF Jump
    <2>2. ImageInFlash(conn[rx.conn].id, curlen)
        BY <1>0, <1>4, <1>6 DEF Inv, IndInv, Stored
    <2>3. conn[rx.conn].len <= curlen
        BY <1>1, <1>4, <1>6
    <2>4. ImageInFlash(image.id, image.len)'
        BY <1>1, <1>4, <1>6, <2>1, <2>2, <2>3 DEF ImageInFlash, Holds, flashVars
    <2>5. BootComplete'
        BY <2>4 DEF BootComplete
    <2>6. NothingPending' /\ DownInv'
        BY <1>0, <2>1 DEF Inv, IndInv, NothingPending, DownInv, flashVars
    <2> QED BY <2>1, <2>5, <2>6
            DEF IndInv, OffInv, OwnerInv, RxInv, Position, Progress, Stored
<1>7. CASE /\ PostOver /\ ~reboot /\ Release(rx.conn)
           /\ conn' = [conn EXCEPT ![rx.conn].resp = "404", ![rx.conn].retries = 0]
           /\ UNCHANGED <<flashVars, fwstate, content_length, file_length, curlen, flash_cnt,
                          flash_pos, dataArr, reboot, mode, accepts, boots, image>>
    <2>1. \A d \in Conns : /\ conn'[d].up = conn[d].up /\ conn'[d].left = conn[d].left
                           /\ conn'[d].id = conn[d].id /\ conn'[d].len = conn[d].len
                           /\ conn'[d].sent = conn[d].sent /\ conn'[d].total = conn[d].total
        BY <1>0, <1>7 DEF ConnState
    <2>2. curlen > 0 => current_connection # rx.conn
        BY <1>0, <1>3, <1>7 DEF PostOver
    <2>3. /\ current_connection' = current_connection \/ current_connection' = NULL
          /\ curlen > 0 => current_connection' = current_connection
        BY <1>7, <2>2 DEF Release
    <2>4. \A d \in Conns : Owner(d)' => Owner(d)
        BY <1>0, <1>7, <2>1, <2>3 DEF Owner
    <2>5. curlen > 0 => Owner(current_connection)'
        BY <1>0, <1>2, <1>3, <1>7, <2>1, <2>3 DEF Owner
    <2>6. NothingPending' /\ OffInv' /\ RxInv' /\ Position' /\ BootComplete' /\ DownInv'
        <3>1. NothingPending' /\ OffInv' /\ RxInv' /\ DownInv'
            BY <1>0, <1>7, <2>1 DEF Inv, IndInv, NothingPending, OffInv, RxInv, DownInv, flashVars
        <3>2. Position' /\ BootComplete'
            BY <1>0, <1>7 DEF Inv, IndInv, Position, BootComplete, flashVars
        <3> QED BY <3>1, <3>2
    <2>7. OwnerInv'
        <3> SUFFICES ASSUME NEW d \in Conns, Owner(d)'
                     PROVE  /\ conn'[d].up /\ conn'[d].len \in FileLens
                            /\ conn'[d].total = Content(conn'[d].len)
                            /\ content_length' = conn'[d].total
                            /\ conn'[d].left = conn'[d].total - conn'[d].sent
                            /\ fwstate' = "OCTET_START" => conn'[d].sent = 0
                            /\ fwstate' = "OCTET_STREAM" \/ reboot' =>
                                   /\ file_length' = conn'[d].len + Trailer
                                   /\ conn'[d].sent = Preamble + curlen'
            BY DEF OwnerInv
        <3>1. Owner(d) /\ conn'[d].up = conn[d].up /\ conn'[d].left = conn[d].left
              /\ conn'[d].len = conn[d].len /\ conn'[d].sent = conn[d].sent
              /\ conn'[d].total = conn[d].total
            BY <2>1, <2>4
        <3> QED BY <1>0, <1>7, <3>1 DEF Inv, IndInv, OwnerInv
    <2>8. Progress'
        BY <1>0, <1>2, <1>7, <2>3, <2>5 DEF Inv, IndInv, Progress
    <2>9. Stored'
        BY <1>0, <1>2, <1>7, <2>1, <2>3 DEF Inv, IndInv, Stored, Collecting, flashVars
    <2> QED BY <2>6, <2>7, <2>8, <2>9 DEF IndInv
<1> QED BY <1>5, <1>6, <1>7 DEF PostReturn

-----------------------------------------------------------------------------
\* Power-up and power failure.
LEMMA InitStep == Init => IndInv
<1> SUFFICES ASSUME Init PROVE IndInv
    OBVIOUS
<1>1. NothingPending /\ OffInv /\ DownInv
    BY DEF Init, FlashRamInit, UploadRamInit, NothingPending, OffInv, DownInv, NoConn, NoImage
<1>2. OwnerInv /\ RxInv /\ Position /\ Progress /\ Stored /\ BootComplete
    BY DEF Init, OwnerInv, RxInv, Position, Progress, Stored, BootComplete
<1> QED BY <1>1, <1>2 DEF IndInv

LEMMA PowerStep == ASSUME Inv, TypeInv', Quiet, Power PROVE IndInv'
<1>1. CASE ColdStart
    <2>1. /\ mode = "off" /\ mode' = "app" /\ image.id = 0
          /\ UNCHANGED <<flashVars, uploadVars, pc, rx, conn, image>>
        BY <1>1 DEF ColdStart, Inv, IndInv, OffInv
    <2>2. NothingPending' /\ OffInv' /\ DownInv' /\ BootComplete'
        BY <2>1 DEF Inv, IndInv, NothingPending, OffInv, DownInv, BootComplete, flashVars
    <2> QED BY <2>1, <2>2 DEF IndInv, OwnerInv, RxInv, Position, Progress, Stored
<1>2. CASE EnterLoader
    <2>1. /\ pc = "idle" /\ curlen = 0 /\ flash_cnt = 0 /\ flash_pos = UserStart
          /\ ~reboot /\ current_connection = NULL /\ NULL \notin Conns
        BY <1>2, UploadAssumption DEF EnterLoader, Inv, IndInv, OffInv
    <2>2. mode' = "loader"
          /\ UNCHANGED <<flash_address, byte_ctr, uploadVars, pc, rx, conn, accepts, image>>
        BY <1>2 DEF EnterLoader
    <2>3. \A x \in UserFlash : flash'[x] = Blank
        BY <1>2 DEF EnterLoader, Answers, Quiet
    <2>4. UserStart \in Nat
        BY FlashAssumption
    <2>5. NothingPending' /\ OffInv' /\ DownInv' /\ BootComplete' /\ OwnerInv' /\ RxInv'
        BY <2>1, <2>2 DEF Inv, IndInv, NothingPending, OffInv, DownInv, BootComplete, OwnerInv,
           RxInv, Owner, uploadVars
    <2>6. Position' /\ Progress' /\ Stored'
        BY <2>1, <2>2, <2>3, <2>4 DEF Position, Progress, Stored, uploadVars
    <2> QED BY <2>5, <2>6 DEF IndInv
<1>3. CASE PowerLoss
    <2>1. mode' = "off" /\ conn' = [c \in Conns |-> NoConn] /\ image' = NoImage
          /\ byte_ctr' = 0 /\ flash_address' = 0 /\ UploadRamReset
        BY <1>3 DEF PowerLoss
    <2>2. NothingPending' /\ OffInv' /\ DownInv'
        BY <2>1 DEF UploadRamReset, NothingPending, OffInv, DownInv, NoConn, NoImage
    <2>3. OwnerInv' /\ RxInv' /\ Position' /\ Progress' /\ Stored' /\ BootComplete'
        BY <2>1 DEF OwnerInv, RxInv, Position, Progress, Stored, BootComplete
    <2> QED BY <2>2, <2>3 DEF IndInv
<1> QED BY <1>1, <1>2, <1>3 DEF Power

-----------------------------------------------------------------------------
LEMMA NextStep == ASSUME Inv, TypeInv', Quiet, [Next]_vars PROVE IndInv'
<1>1. CASE Power
    BY <1>1, PowerStep
<1>2. CASE Loop
    BY <1>2, LoopStep
<1>3. CASE Tail
    BY <1>3, TailStep
<1>4. CASE PostReturn
    BY <1>4, ReturnStep
<1>5. CASE Corrupt
    BY <1>5, NotBehind
<1>6. ASSUME NEW c \in Conns, ConnNext(c) PROVE IndInv'
    <2>1. CASE \E n \in FileLens, len \in 0 .. MaxSeg : PostRequest(c, n, len)
        BY <2>1, PostStep
    <2>2. CASE Receive(c)
        BY <2>2, RecvStep DEF Receive
    <2> QED BY <1>6, <2>1, <2>2, ServerStep DEF ConnNext, Request, RecvAfterRefusal
<1>7. CASE UNCHANGED vars
    <2>1. /\ NothingPending' = NothingPending /\ OffInv' = OffInv /\ DownInv' = DownInv
          /\ RxInv' = RxInv /\ Position' = Position /\ BootComplete' = BootComplete
        BY <1>7 DEF vars, flashVars, uploadVars, loaderVars, NothingPending, OffInv, DownInv,
           RxInv, Position, BootComplete, ImageInFlash, Holds
    <2>2. OwnerInv' = OwnerInv /\ Progress' = Progress /\ Stored' = Stored
        BY <1>7 DEF vars, flashVars, uploadVars, loaderVars, OwnerInv, Owner, Progress, Stored,
           Collecting, ImageInFlash, Holds
    <2> QED BY <2>1, <2>2 DEF Inv, IndInv
<1> QED BY <1>1, <1>2, <1>3, <1>4, <1>5, <1>6, <1>7 DEF Next, Handler

LEMMA InvAlways == Quiet => (Spec => []Inv)
<1> SUFFICES ASSUME Quiet PROVE Spec => []Inv
    OBVIOUS
<1>1. Init => Inv
    BY TypeInit, InitStep DEF Inv
<1>2. Inv /\ [Next]_vars => Inv'
    BY TypeNext, NextStep DEF Inv
<1> QED BY <1>1, <1>2, PTL DEF Spec

\* THEOREM: when nothing disturbs an upload, a loader that jumps because of it has
\* stored the whole file of the upload, from its first byte, and nothing else in
\* its place (jump_to_app_section out of httpd_post_finished).
THEOREM BootIsComplete == Faults = {} => (Spec => []BootComplete)
<1> SUFFICES ASSUME Quiet PROVE Spec => []BootComplete
    BY DEF Quiet
<1>1. Inv => BootComplete
    BY DEF Inv, IndInv
<1> QED BY <1>1, InvAlways, PTL

LEMMA StreamFollows == Inv => StreamIntact
<1> SUFFICES ASSUME Inv, mode = "loader", fwstate = "OCTET_STREAM", current_connection # NULL
             PROVE  Collecting(conn[current_connection].id)
    BY DEF StreamIntact
<1>1. ~reboot /\ curlen \in Nat
    BY DEF Inv, IndInv, Progress, TypeInv, TypeOK, UploadTypeOK
<1>2. CASE curlen > 0
    BY <1>1, <1>2 DEF Inv, IndInv, Stored
<1>3. CASE curlen = 0
    <2>1. pc # "stream"
        BY <1>3 DEF Inv, IndInv, RxInv
    <2> QED BY <1>3, <2>1, NotStarted, FlashAssumption DEF Collecting
<1> QED BY <1>1, <1>2, <1>3

\* THEOREM: when nothing disturbs an upload, at every moment of it the blocks in the
\* flash and the block in dataArr are together the beginning of its file
\* (httpd_post_receive_data's OCTET_STREAM loop and write_flash).
THEOREM StreamIsIntact == Faults = {} => (Spec => []StreamIntact)
<1> SUFFICES ASSUME Quiet PROVE Spec => []StreamIntact
    BY DEF Quiet
<1> QED BY InvAlways, StreamFollows, PTL

LEMMA DoneFollows == Inv => DoneAfterAllBytes
<1> SUFFICES ASSUME Inv, mode = "loader", reboot
             PROVE  conn[current_connection].sent >= Preamble + conn[current_connection].len
    BY DEF DoneAfterAllBytes
<1>1. /\ current_connection \in Conns /\ Owner(current_connection)
      /\ curlen > 0 /\ file_length <= curlen
    BY DEF Inv, IndInv, Progress
<1>2. /\ file_length = conn[current_connection].len + Trailer
      /\ conn[current_connection].sent = Preamble + curlen
    BY <1>1 DEF Inv, IndInv, OwnerInv
<1>3. conn[current_connection].len \in Nat /\ curlen \in Nat
    BY <1>1, ConnAt DEF Inv, TypeInv, TypeOK, UploadTypeOK
<1> QED BY <1>1, <1>2, <1>3, UploadAssumption

\* THEOREM: what the run "retry" refutes holds when no upload is disturbed: the update is only
\* declared done when the client has sent its whole file (OCTET_STREAM, file_length).
THEOREM DoneMeansSent == Faults = {} => (Spec => []DoneAfterAllBytes)
<1> SUFFICES ASSUME Quiet PROVE Spec => []DoneAfterAllBytes
    BY DEF Quiet
<1> QED BY InvAlways, DoneFollows, PTL

\* THEOREM: what the run "iap_fails" refutes holds when the IAP calls succeed and every file
\* fits: write_flash never finds flash_buf full, so nothing is copied behind it.
THEOREM NoOverrun == Faults = {} => (Spec => []FlashBufBounded)
<1> SUFFICES ASSUME Quiet PROVE Spec => []FlashBufBounded
    BY DEF Quiet
<1>1. Inv => FlashBufBounded
    BY FlashAssumption DEF Inv, IndInv, NothingPending, FlashBufBounded
<1> QED BY <1>1, InvAlways, PTL

-----------------------------------------------------------------------------
\* No cell of the flash, and no byte that waits to be written, is damaged.
NoMixed == NoDoubleProgram /\ \A i \in 0 .. BlockSize - 1 : dataArr[i] # Mixed

LEMMA ByteNotMixed == ASSUME NEW u \in Nat, NEW k \in Nat PROVE Byte(u, k) # Mixed
BY CellAssumption DEF Byte

LEMMA WriteUnmixed ==
    ASSUME Inv, Quiet, NoDoubleProgram, NEW iap \in IapOutcome, NEW src \in Block,
           NEW a \in Nat, InUserFlash(a), \A x \in UserFlash : x >= a => flash[x] = Blank,
           WriteFlash(a, src, iap), \A i \in 0 .. BlockSize - 1 : src[i] # Mixed
    PROVE  WriteOk(a, iap) /\ NoDoubleProgram'
<1>1. /\ WriteOk(a, iap)
      /\ \A x \in UserFlash : x < a => flash'[x] = flash[x]
      /\ \A i \in 0 .. BlockSize - 1 : flash'[a + i] = src[i]
      /\ \A x \in UserFlash : x >= a + BlockSize => flash'[x] = Blank
    BY WriteBlank
<1>2. ASSUME NEW x \in UserFlash PROVE flash'[x] # Mixed
    <2>0. x \in Int /\ BlockSize \in Nat /\ UserStart \in Nat /\ UserEnd \in Nat
        BY FlashAssumption DEF UserFlash
    <2>1. CASE x < a
        BY <1>1, <2>1 DEF NoDoubleProgram
    <2>2. CASE x >= a + BlockSize
        BY <1>1, <2>2, CellAssumption
    <2>3. CASE a <= x /\ x < a + BlockSize
        <3>1. x - a \in 0 .. BlockSize - 1 /\ a + (x - a) = x
            BY <2>0, <2>3
        <3> QED BY <1>1, <3>1
    <2> QED BY <2>0, <2>1, <2>2, <2>3
<1> QED BY <1>1, <1>2 DEF NoDoubleProgram

LEMMA LoopUnmixed == ASSUME Inv, Quiet, NoMixed, Loop PROVE NoMixed'
<1>0. /\ mode = "loader" /\ pc = "stream" /\ StreamLoop
      /\ rx.id \in Nat /\ rx.next \in Nat /\ flash_cnt \in Nat /\ flash_pos \in Nat
      /\ BlockSize \in Nat \ {0} /\ UserStart \in Nat /\ UserEnd \in Nat /\ Preamble \in Nat
    BY FlashAssumption, UploadAssumption
       DEF Loop, StreamLoop, Inv, TypeInv, TypeOK, UploadTypeOK, Rx
<1>1. Taken \in 1 .. BlockSize /\ flash_cnt + Taken <= BlockSize /\ Collected(Taken) \in Block
    BY <1>0, TakenRange, CollectedType DEF Inv, TypeInv
<1>2. ASSUME NEW i \in 0 .. BlockSize - 1 PROVE Collected(Taken)[i] # Mixed
    <2>1. CASE i \in flash_cnt .. flash_cnt + Taken - 1
        <3>1. rx.next + (i - flash_cnt) \in Nat
            BY <1>0, <1>1, <2>1
        <3> QED BY <1>0, <2>1, <3>1, ByteNotMixed DEF Collected
    <2> QED BY <2>1 DEF Collected, NoMixed
<1>3. CASE FillBlock
    BY <1>2, <1>3 DEF FillBlock, NoMixed, NoDoubleProgram, flashVars
<1>4. CASE WriteBlock
    <2>1. PICK iap \in IapOutcome :
             /\ WriteFlash(flash_pos, Collected(Taken), iap)
             /\ WriteOk(flash_pos, iap) => dataArr' = [i \in 0 .. BlockSize - 1 |-> Blank]
        BY <1>4 DEF WriteBlock
    <2>2. /\ curlen + BlockSize <= Capacity /\ rx.end = Preamble + curlen
          /\ \A x \in UserFlash : x >= flash_pos => flash[x] = Blank
        BY <1>0, StreamFacts
    <2>3. /\ flash_pos >= UserStart /\ curlen \in Nat /\ rx.next + Taken <= rx.end
          /\ rx.next - Preamble = (flash_pos - UserStart) + flash_cnt
          /\ flash_cnt + Taken = BlockSize
        BY <1>0, <1>4, TakenRange
           DEF WriteBlock, Inv, IndInv, Position, TypeInv, TypeOK, UploadTypeOK
    <2>4. InUserFlash(flash_pos)
        BY <1>0, <1>1, <2>2, <2>3 DEF InUserFlash, Capacity
    <2>5. WriteOk(flash_pos, iap) /\ NoDoubleProgram'
        BY <1>0, <1>1, <1>2, <2>1, <2>2, <2>4, WriteUnmixed DEF NoMixed
    <2> QED BY <2>1, <2>5, CellAssumption DEF NoMixed
<1> QED BY <1>0, <1>3, <1>4 DEF StreamLoop

LEMMA TailUnmixed == ASSUME Inv, Quiet, NoMixed, Tail PROVE NoMixed'
<1>0. mode = "loader" /\ pc = "tail" /\ dataArr' = dataArr
    BY DEF Tail, StreamTail
<1>1. CASE UNCHANGED flashVars
    BY <1>0, <1>1 DEF NoMixed, NoDoubleProgram, flashVars
<1>2. CASE ~UNCHANGED flashVars
    <2>1. flash_cnt > 0 /\ \E iap \in IapOutcome : WriteFlash(flash_pos, dataArr, iap)
        BY <1>2 DEF Tail, StreamTail, WriteLast
    <2>2. PICK iap \in IapOutcome : WriteFlash(flash_pos, dataArr, iap)
        BY <2>1
    <2>3. /\ curlen + BlockSize <= Capacity /\ curlen \in Nat
          /\ \A x \in UserFlash : x >= flash_pos => flash[x] = Blank
          /\ flash_pos >= UserStart /\ curlen = (flash_pos - UserStart) + flash_cnt
        BY <1>0, StreamFacts DEF Inv, IndInv, Position, TypeInv, TypeOK, UploadTypeOK
    <2>4. /\ flash_pos \in Nat /\ flash_cnt \in Nat /\ dataArr \in Block
          /\ BlockSize \in Nat /\ UserStart \in Nat /\ UserEnd \in Nat
        BY FlashAssumption DEF Inv, TypeInv, TypeOK, UploadTypeOK
    <2>5. InUserFlash(flash_pos)
        BY <2>1, <2>3, <2>4 DEF InUserFlash, Capacity
    <2>6. NoDoubleProgram'
        BY <2>2, <2>3, <2>4, <2>5, WriteUnmixed DEF NoMixed
    <2> QED BY <1>0, <2>6 DEF NoMixed
<1> QED BY <1>1, <1>2

LEMMA UnmixedNext == ASSUME Inv, HoleInv, Quiet, NoMixed, [Next]_vars PROVE NoMixed'
<1>1. CASE EnterLoader
    <2>1. flash' = [x \in UserFlash |-> Blank] /\ dataArr' = dataArr
        BY <1>1 DEF EnterLoader, Answers, Quiet, uploadVars
    <2> QED BY <2>1, CellAssumption DEF NoMixed, NoDoubleProgram
<1>2. CASE PowerLoss
    BY <1>2, CellAssumption DEF PowerLoss, UploadRamReset, NoMixed, NoDoubleProgram
<1>3. CASE Loop
    BY <1>3, LoopUnmixed
<1>4. CASE Tail
    BY <1>4, TailUnmixed
<1>5. CASE ColdStart \/ PostReturn \/ Corrupt \/ UNCHANGED vars
    BY <1>5, NotBehind DEF ColdStart, PostReturn, Jump, vars, flashVars, uploadVars,
       loaderVars, NoMixed, NoDoubleProgram
<1>6. ASSUME NEW c \in Conns, ConnNext(c) PROVE NoMixed'
    BY <1>6, ServerHoles DEF flashVars, NoMixed, NoDoubleProgram
<1> QED BY <1>1, <1>2, <1>3, <1>4, <1>5, <1>6 DEF Next, Power, Handler

\* THEOREM: when nothing disturbs an upload, no cell is programmed twice between two
\* erases: every block meets erased cells, at each sector boundary and between
\* (write_flash and find_erase_prepare_sector).
THEOREM NoByteTwice == Faults = {} => (Spec => []NoDoubleProgram)
<1> SUFFICES ASSUME Quiet PROVE Spec => []NoDoubleProgram
    BY DEF Quiet
<1>1. Init => HoleInv /\ NoMixed
    <2> SUFFICES ASSUME Init PROVE HoleInv /\ NoMixed
        OBVIOUS
    <2>1. HoleInv
        BY TypeInit DEF Init, FlashRamInit, UploadRamInit, HoleInv, DataFilled, NoHoles
    <2>2. ASSUME NEW x \in UserFlash PROVE flash[x] # Mixed
        <3>1. x - UserStart \in Nat /\ flash[x] = Byte(0, x - UserStart)
            BY FlashAssumption DEF Init, UserFlash
        <3> QED BY <3>1, ByteNotMixed
    <2>3. \A i \in 0 .. BlockSize - 1 : dataArr[i] # Mixed
        BY CellAssumption DEF Init, UploadRamInit
    <2> QED BY <2>1, <2>2, <2>3 DEF NoMixed, NoDoubleProgram
<1>2. Inv /\ HoleInv /\ NoMixed /\ [Next]_vars => NoMixed'
    BY UnmixedNext
<1>3. NoMixed => NoDoubleProgram
    BY DEF NoMixed
<1> QED BY <1>1, <1>2, <1>3, HoleNext, InvAlways, PTL DEF Spec
=============================================================================
