---------------------------- MODULE Update_proofs ----------------------------
(***************************************************************************)
(* When nothing disturbs an upload (Faults = {}), the boot loader          *)
(* implements FirmwareUpdate, for every size of block, flash, file and     *)
(* segment and any number of connections and power cycles.                 *)
(*                                                                         *)
(* What the abstract specification calls stored is read off the flash      *)
(* (MostStored). Two files have no byte in common, so at most one of them  *)
(* has a beginning in the flash, and how much of it is there follows from  *)
(* the invariant behind BootComplete: as much as lies below flash_pos      *)
(* while the upload streams, and all of it once it is done.                *)
(***************************************************************************)
EXTENDS BootComplete_proofs, WellFoundedInduction

-----------------------------------------------------------------------------
\* How much of an upload a flash holds.

Uploads == 1 .. MaxAccepts + 1

\* n is how far the flash f begins with the file of upload u.
Begins(f, u, n) ==
    /\ n \in 0 .. Capacity
    /\ Holds(f, u, n)
    /\ n < Capacity => f[UserStart + n] # Byte(u, Preamble + n)

LEMMA LeastNat ==
    ASSUME NEW T \in SUBSET Nat, T # {}
    PROVE  \E x \in T : \A y \in T : x <= y
<1> DEFINE R == OpToRel(<, Nat)
<1>1. IsWellFoundedOn(R, Nat)
    BY NatLessThanWellFounded
<1>2. \A y, x \in Nat : <<y, x>> \in R <=> y < x
    BY DEF OpToRel
<1> HIDE DEF R
<1>3. PICK x \in T : \A y \in T : ~ (<<y, x>> \in R)
    BY <1>1, WFMin
<1>4. x \in Nat /\ \A y \in T : y \in Nat /\ ~(y < x)
    BY <1>2, <1>3
<1> QED BY <1>4

LEMMA CapacityType == Capacity \in Nat /\ Capacity >= BlockSize /\ Capacity > 0
BY FlashAssumption DEF Capacity

\* Two prefixes of the same file end at the same place.
LEMMA BeginsOnce ==
    ASSUME NEW f, NEW u, NEW n, NEW m, Begins(f, u, n), Begins(f, u, m)
    PROVE  n = m
<1>1. n \in Nat /\ m \in Nat /\ n <= Capacity /\ m <= Capacity
    BY CapacityType DEF Begins
<1>2. ASSUME n < m PROVE FALSE
    BY <1>1, <1>2, CapacityType DEF Begins, Holds
<1>3. ASSUME m < n PROVE FALSE
    BY <1>1, <1>3, CapacityType DEF Begins, Holds
<1> QED BY <1>1, <1>2, <1>3

LEMMA BeginsSomewhere == ASSUME NEW f, NEW u PROVE \E n \in 0 .. Capacity : Begins(f, u, n)
<1> DEFINE ends == {n \in 0 .. Capacity :
                       n < Capacity => f[UserStart + n] # Byte(u, Preamble + n)}
<1>1. ends \in SUBSET Nat /\ Capacity \in ends
    BY CapacityType
<1>2. PICK n \in ends : \A m \in ends : n <= m
    BY <1>1, LeastNat
<1>3. n \in 0 .. Capacity /\ (n < Capacity => f[UserStart + n] # Byte(u, Preamble + n))
    BY <1>2
<1>4. ASSUME NEW k \in 0 .. n - 1 PROVE f[UserStart + k] = Byte(u, Preamble + k)
    <2>1. k \in 0 .. Capacity /\ k < Capacity /\ ~(n <= k)
        BY <1>3, CapacityType
    <2>2. k \notin ends
        BY <1>2, <2>1
    <2> QED BY <2>1, <2>2
<1> QED BY <1>3, <1>4 DEF Begins, Holds

LEMMA PrefixIs == ASSUME NEW f, NEW u PROVE Begins(f, u, StoredPrefix(f, u))
<1>1. PICK n \in 0 .. Capacity : Begins(f, u, n)
    BY BeginsSomewhere
<1>2. StoredPrefix(f, u) = CHOOSE m \in 0 .. Capacity : Begins(f, u, m)
    BY DEF StoredPrefix, Begins
<1> QED BY <1>1, <1>2

LEMMA PrefixUnique == ASSUME NEW f, NEW u, NEW n, Begins(f, u, n) PROVE StoredPrefix(f, u) = n
BY PrefixIs, BeginsOnce

\* Of no more than one upload something is stored.
LEMMA OneIsStored ==
    ASSUME NEW f, NEW u \in Nat, NEW v \in Nat, StoredPrefix(f, u) > 0, StoredPrefix(f, v) > 0
    PROVE  u = v
<1>1. StoredPrefix(f, u) \in Nat /\ StoredPrefix(f, v) \in Nat
    BY PrefixIs, CapacityType DEF Begins
<1>2. f[UserStart + 0] = Byte(u, Preamble + 0) /\ f[UserStart + 0] = Byte(v, Preamble + 0)
    BY <1>1, PrefixIs DEF Begins, Holds
<1> QED BY <1>2 DEF Byte

\* The upload with the most stored exists, so MostStored is what is stored of it.
LEMMA MostStoredIs ==
    ASSUME NEW f, NEW u \in Uploads, \A v \in Uploads \ {u} : StoredPrefix(f, v) = 0
    PROVE  MostStored(f) = StoredPrefix(f, u)
<1>1. \A v \in Uploads : StoredPrefix(f, v) \in Nat
    BY PrefixIs, CapacityType DEF Begins
<1>2. \A v \in Uploads : StoredPrefix(f, v) <= StoredPrefix(f, u)
    BY <1>1
<1> DEFINE w == CHOOSE w \in Uploads :
                    \A v \in Uploads : StoredPrefix(f, v) <= StoredPrefix(f, w)
<1>3. w \in Uploads /\ \A v \in Uploads : StoredPrefix(f, v) <= StoredPrefix(f, w)
    BY <1>2
<1>4. MostStored(f) = StoredPrefix(f, w)
    BY DEF MostStored, Uploads
<1> HIDE DEF w
<1>5. StoredPrefix(f, u) <= StoredPrefix(f, w) /\ StoredPrefix(f, w) <= StoredPrefix(f, u)
    BY <1>2, <1>3
<1> QED BY <1>1, <1>3, <1>4, <1>5

LEMMA StoredOf ==
    ASSUME NEW f, NEW u \in Uploads, NEW n, Begins(f, u, n), n > 0
    PROVE  MostStored(f) = n
<1>1. StoredPrefix(f, u) = n
    BY PrefixUnique
<1>2. ASSUME NEW v \in Uploads, v # u PROVE StoredPrefix(f, v) = 0
    <2>1. u \in Nat /\ v \in Nat /\ StoredPrefix(f, v) \in Nat
        BY PrefixIs, CapacityType, LoaderAssumption DEF Uploads, Begins
    <2> QED BY <1>1, <1>2, <2>1, OneIsStored
<1> QED BY <1>1, <1>2, MostStoredIs

LEMMA NothingStored ==
    ASSUME NEW f, f[UserStart] = Blank
    PROVE  MostStored(f) = 0
<1>1. ASSUME NEW v \in Uploads PROVE StoredPrefix(f, v) = 0
    <2>1. v \in Nat /\ Preamble \in Nat
        BY LoaderAssumption, UploadAssumption DEF Uploads
    <2>2. f[UserStart + 0] # Byte(v, Preamble + 0)
        BY <2>1, FlashAssumption, CellAssumption DEF Byte
    <2>3. StoredPrefix(f, v) \in Nat
        BY PrefixIs, CapacityType DEF Begins
    <2> QED BY <2>2, <2>3, PrefixIs DEF Begins, Holds
<1>2. 1 \in Uploads
    BY LoaderAssumption DEF Uploads
<1> QED BY <1>1, <1>2, MostStoredIs

-----------------------------------------------------------------------------
\* Connections are numbered, and only a jump leaves an image behind.

IdInv ==
    /\ accepts <= MaxAccepts
    /\ \A c \in Conns : conn[c].up => conn[c].id \in 1 .. accepts
    /\ mode # "app" => image = NoImage
    /\ image.id = 0 => image.len = 0

\* No connection gets another number.
SameIds ==
    /\ accepts' = accepts
    /\ \A d \in Conns : conn'[d].up => conn[d].up /\ conn'[d].id = conn[d].id

LEMMA SameIdInv ==
    ASSUME IdInv, SameIds, UNCHANGED <<mode, image>>
    PROVE  IdInv'
BY DEF IdInv, SameIds

\* A handler of the web server, called while no POST is being finished, leaves the flash
\* alone and does not jump.
LEMMA ServerIds ==
    ASSUME Inv, IdInv, NEW c \in Conns, ConnNext(c)
    PROVE  UNCHANGED <<flash, mode, image>> /\ (SameIds \/ http_accept(c))
<1>0. conn \in [Conns -> ConnState] /\ NoConn.up = FALSE
    BY DEF Inv, TypeInv, TypeOK, LoaderTypeOK, NoConn
<1>1. ASSUME Ready, http_close_conn(c) PROVE UNCHANGED <<flash, mode, image>> /\ SameIds
    <2>1. conn' = [conn EXCEPT ![c] = NoConn] /\ UNCHANGED <<flashVars, mode, accepts, image>>
        BY <1>1, IdleFacts DEF http_close_conn
    <2> QED BY <1>0, <2>1 DEF SameIds, flashVars
<1>2. CASE http_accept(c)
    BY <1>2 DEF http_accept, flashVars
<1>3. CASE ClientCloses(c) \/ http_sent(c) \/ PollOut(c) \/ PollSends(c) \/ BadRequest(c)
    BY <1>1, <1>3 DEF ClientCloses, http_sent, PollOut, PollSends, BadRequest, Parses
<1>4. CASE http_err(c)
    <2>1. \A d \in Conns : conn'[d].up => conn[d].up /\ conn'[d].id = conn[d].id
        BY <1>0, <1>4 DEF http_err
    <2> QED BY <1>4, <2>1 DEF http_err, SameIds, flashVars
<1>5. CASE PollWaits(c)
    <2>1. \A d \in Conns : conn'[d].up = conn[d].up /\ conn'[d].id = conn[d].id
        BY <1>0, <1>5 DEF PollWaits, ConnState
    <2> QED BY <1>5, <2>1 DEF PollWaits, SameIds, flashVars
<1>6. CASE GetPage(c) \/ GetOther(c)
    <2>1. CASE http_close_conn(c)
        BY <1>1, <1>6, <2>1 DEF GetPage, GetOther, FirstRequest, Parses
    <2>2. CASE ~http_close_conn(c)
        <3>1. PICK r \in {"page", "404"} :
                 /\ conn' = [conn EXCEPT ![c].resp = r, ![c].retries = 0]
                 /\ UNCHANGED <<flashVars, mode, accepts, image>>
            BY <1>6, <2>2 DEF GetPage, GetOther
        <3>2. \A d \in Conns : conn'[d].up = conn[d].up /\ conn'[d].id = conn[d].id
            BY <1>0, <3>1 DEF ConnState
        <3> QED BY <3>1, <3>2 DEF SameIds, flashVars
    <2> QED BY <2>1, <2>2
<1>7. CASE \E n \in FileLens, len \in 0 .. MaxSeg : PostRequest(c, n, len)
    <2>1. PICK n \in FileLens, len \in 0 .. MaxSeg : PostRequest(c, n, len)
        BY <1>7
    <2>2. \A d \in Conns : conn'[d].up = conn[d].up /\ conn'[d].id = conn[d].id
        <3>1. CASE AcceptPost(c, n, len)
            BY <1>0, <3>1 DEF AcceptPost, ConnState
        <3>2. CASE RefusePost(c, n, len)
            BY <1>0, <3>2 DEF RefusePost, ConnState
        <3> QED BY <2>1, <3>1, <3>2 DEF PostRequest
    <2> QED BY <2>1, <2>2 DEF PostRequest, SameIds, flashVars
<1>8. CASE Receive(c)
    <2>1. PICK len \in 1 .. MaxSeg, head \in 1 .. MaxSeg : RecvPost(c, len, head)
        BY <1>8 DEF Receive
    <2>2. \A d \in Conns : conn'[d].up = conn[d].up /\ conn'[d].id = conn[d].id
        BY <1>0, <2>1 DEF RecvPost, ConnState
    <2> QED BY <2>1, <2>2 DEF RecvPost, SameIds, flashVars
<1> QED BY <1>2, <1>3, <1>4, <1>5, <1>6, <1>7, <1>8
        DEF ConnNext, Request, RecvAfterRefusal, http_poll

\* The connection that makes the loader jump is up, and its upload is done.
LEMMA JumpFacts ==
    ASSUME Inv, PostReturn, reboot
    PROVE  /\ rx.conn \in Conns /\ current_connection = rx.conn /\ Owner(rx.conn)
           /\ conn[rx.conn].up /\ conn[rx.conn].len \in FileLens
           /\ conn[rx.conn].len + Trailer <= curlen
<1>1. mode = "loader" /\ pc = "return"
    BY DEF PostReturn
<1>2. /\ curlen > 0 /\ rx.conn = current_connection /\ file_length <= curlen
      /\ current_connection \in Conns /\ Owner(current_connection)
    BY <1>1 DEF Inv, IndInv, Progress
<1>3. /\ conn[rx.conn].up /\ conn[rx.conn].len \in FileLens
      /\ file_length = conn[rx.conn].len + Trailer
    BY <1>1, <1>2 DEF Inv, IndInv, OwnerInv
<1> QED BY <1>2, <1>3

LEMMA ReturnIds ==
    ASSUME Inv, IdInv, PostReturn
    PROVE  \/ SameIds /\ UNCHANGED <<flash, mode, image>>
           \/ reboot /\ Jump(rx.conn)
<1>1. CASE ~PostOver
    BY <1>1 DEF PostReturn, SameIds, flashVars, loaderVars
<1>2. CASE PostOver /\ ~reboot
    <2>1. conn \in [Conns -> ConnState]
        BY DEF Inv, TypeInv, TypeOK, LoaderTypeOK
    <2>2. /\ conn' = [conn EXCEPT ![rx.conn].resp = "404", ![rx.conn].retries = 0]
          /\ UNCHANGED <<flashVars, mode, accepts, image>>
        BY <1>2 DEF PostReturn
    <2>3. \A d \in Conns : conn'[d].up = conn[d].up /\ conn'[d].id = conn[d].id
        BY <2>1, <2>2 DEF ConnState
    <2> QED BY <2>2, <2>3 DEF SameIds, flashVars
<1> QED BY <1>1, <1>2 DEF PostReturn

LEMMA IdNext == ASSUME Inv, IdInv, [Next]_vars PROVE IdInv'
<1>1. CASE ColdStart \/ EnterLoader
    BY <1>1 DEF ColdStart, EnterLoader, IdInv
<1>2. CASE PowerLoss
    <2>1. accepts' = 0 /\ image' = NoImage /\ \A d \in Conns : conn'[d] = NoConn
        BY <1>2 DEF PowerLoss
    <2> QED BY <2>1, LoaderAssumption DEF IdInv, NoConn, NoImage
<1>3. CASE Loop \/ Tail \/ Corrupt \/ UNCHANGED vars
    <2>1. SameIds /\ UNCHANGED <<mode, image>>
        BY <1>3 DEF Loop, Tail, Corrupt, vars, loaderVars, SameIds
    <2> QED BY <2>1, SameIdInv
<1>4. CASE PostReturn
    <2>1. CASE reboot /\ Jump(rx.conn)
        <3>1. conn[rx.conn].id \in 1 .. accepts /\ accepts \in Nat
            BY <1>4, <2>1, JumpFacts DEF IdInv, Inv, TypeInv, TypeOK, LoaderTypeOK
        <3>2. mode' = "app" /\ image'.id # 0 /\ accepts' = accepts /\ conn' = conn
            BY <2>1, <3>1 DEF Jump
        <3> QED BY <3>2 DEF IdInv
    <2> QED BY <1>4, <2>1, ReturnIds, SameIdInv
<1>5. ASSUME NEW c \in Conns, ConnNext(c) PROVE IdInv'
    <2>1. CASE http_accept(c)
        <3>1. /\ accepts' = accepts + 1 /\ accepts \in Nat /\ accepts' <= MaxAccepts
              /\ conn'[c].id = accepts' /\ \A d \in Conns \ {c} : conn'[d] = conn[d]
              /\ UNCHANGED <<mode, image>>
            BY <2>1, LoaderAssumption
               DEF http_accept, NoConn, Inv, TypeInv, TypeOK, LoaderTypeOK
        <3> QED BY <3>1 DEF IdInv
    <2> QED BY <1>5, <2>1, ServerIds, SameIdInv
<1> QED BY <1>1, <1>2, <1>3, <1>4, <1>5 DEF Next, Power, Handler

-----------------------------------------------------------------------------
\* How much is stored, while an upload streams and when it is done.

StoredInv ==
    mode = "loader" =>
        /\ ~reboot => MostStored(flash) = flash_pos - UserStart
        /\ reboot => MostStored(flash) \in curlen .. (flash_pos - UserStart) + BlockSize

\* Once file bytes were taken, they are those of one upload and fit into the flash.
LEMMA Uploading ==
    ASSUME Inv, IdInv, Quiet, mode = "loader", curlen > 0
    PROVE  /\ current_connection \in Conns /\ conn[current_connection].id \in Uploads
           /\ curlen \in Nat /\ flash_pos - UserStart \in Nat /\ flash_pos - UserStart <= curlen
           /\ curlen + BlockSize <= Capacity
<1> DEFINE c == current_connection
<1>1. c \in Conns /\ Owner(c) /\ (fwstate = "OCTET_STREAM" \/ reboot)
    BY DEF Inv, IndInv, Progress
<1>2. /\ conn[c].up /\ conn[c].len \in FileLens /\ conn[c].total = Content(conn[c].len)
      /\ conn[c].left = conn[c].total - conn[c].sent /\ conn[c].sent = Preamble + curlen
    BY <1>1 DEF Inv, IndInv, OwnerInv
<1>3. /\ conn[c].left \in Nat /\ conn[c].sent \in Nat /\ conn[c].len \in Nat /\ curlen \in Nat
      /\ accepts \in Nat /\ flash_pos \in Nat /\ flash_cnt \in Nat
    BY <1>1, ConnAt DEF Inv, TypeInv, TypeOK, LoaderTypeOK, UploadTypeOK
<1>4. curlen + BlockSize <= Capacity
    <2>1. conn[c].len + Trailer + BlockSize <= Capacity
        BY <1>2, LoaderAssumption DEF Quiet, Fits
    <2>2. curlen <= conn[c].len + Trailer
        BY <1>2, <1>3, UploadAssumption DEF Content
    <2> QED BY <1>3, <2>1, <2>2, UploadAssumption, FlashAssumption, CapacityType
<1>5. conn[c].id \in Uploads
    BY <1>1, <1>2, <1>3, LoaderAssumption DEF IdInv, Uploads
<1>6. flash_pos - UserStart \in Nat /\ flash_pos - UserStart <= curlen
    <2>1. pc = "stream" => rx.next - Preamble <= curlen /\ rx.next \in Nat
        BY <1>1, <1>2, <1>3, UploadAssumption
           DEF Inv, IndInv, RxInv, TypeInv, TypeOK, UploadTypeOK, Rx
    <2> QED BY <1>3, <2>1, UploadAssumption, FlashAssumption DEF Inv, IndInv, Position
<1> QED BY <1>1, <1>3, <1>4, <1>5, <1>6

LEMMA StoredFollows == Quiet => (Inv /\ IdInv /\ NothingAbove => StoredInv)
<1> SUFFICES ASSUME Quiet, Inv, IdInv, NothingAbove, mode = "loader"
             PROVE  /\ ~reboot => MostStored(flash) = flash_pos - UserStart
                    /\ reboot => MostStored(flash)
                                    \in curlen .. (flash_pos - UserStart) + BlockSize
    BY DEF StoredInv
<1>1. /\ \A x \in UserFlash : x >= FirstFree => flash[x] = Blank
      /\ UserStart \in Nat \ {0} /\ UserEnd \in Nat /\ BlockSize \in Nat \ {0}
      /\ Capacity = UserEnd + 1 - UserStart /\ Capacity \in Nat /\ Capacity > 0
      /\ flash_pos \in Nat /\ curlen \in Nat /\ reboot \in BOOLEAN
      /\ StoredEnd = flash_pos
    BY FlashAssumption, CapacityType, NotBehind
       DEF NothingAbove, Capacity, Inv, TypeInv, TypeOK, UploadTypeOK
<1>2. ASSUME FirstFree = UserStart PROVE MostStored(flash) = 0
    <2>1. UserStart \in UserFlash
        BY <1>1 DEF UserFlash
    <2> QED BY <1>1, <1>2, <2>1, NothingStored
<1>3. CASE ~reboot
    <2>1. CASE flash_pos = UserStart
        BY <1>1, <1>2, <1>3, <2>1 DEF FirstFree
    <2>2. CASE flash_pos # UserStart
        <3> DEFINE u == conn[current_connection].id
                   n == flash_pos - UserStart
        <3>1. curlen > 0
            BY <1>1, <2>2 DEF Inv, IndInv, Progress
        <3>2. u \in Uploads /\ n \in Nat /\ n > 0 /\ n \in 0 .. Capacity
            BY <1>1, <2>2, <3>1, Uploading
        <3>3. Holds(flash, u, n)
            BY <1>3, <3>1 DEF Inv, IndInv, Stored, Collecting, Holds
        <3>4. n < Capacity => flash[UserStart + n] # Byte(u, Preamble + n)
            <4> SUFFICES ASSUME n < Capacity PROVE flash[UserStart + n] # Byte(u, Preamble + n)
                OBVIOUS
            <4>1. UserStart + n \in UserFlash /\ UserStart + n = flash_pos
                BY <1>1, <3>2 DEF UserFlash
            <4>2. flash[UserStart + n] = Blank
                BY <1>1, <1>3, <4>1 DEF FirstFree
            <4>3. Byte(u, Preamble + n) \in Nat \X Nat
                BY <3>2, UploadAssumption, LoaderAssumption DEF Byte, Uploads
            <4> QED BY <4>2, <4>3, CellAssumption
        <3> HIDE DEF u, n
        <3>5. MostStored(flash) = n
            BY <3>2, <3>3, <3>4, StoredOf DEF Begins
        <3> QED BY <1>3, <3>5 DEF n
    <2> QED BY <2>1, <2>2
<1>4. CASE reboot
    <2> DEFINE u == conn[current_connection].id
               end == (flash_pos - UserStart) + BlockSize
    <2>1. curlen > 0
        BY <1>4 DEF Inv, IndInv, Progress
    <2>2. /\ u \in Uploads /\ curlen + BlockSize <= Capacity
          /\ end \in Nat /\ flash_pos - UserStart \in Nat
        BY <1>1, <2>1, Uploading
    <2>3. Holds(flash, u, curlen)
        BY <1>4 DEF Inv, IndInv, Stored, ImageInFlash
    <2>4. end < Capacity => flash[UserStart + end] # Byte(u, Preamble + end)
        <3> SUFFICES ASSUME end < Capacity PROVE flash[UserStart + end] # Byte(u, Preamble + end)
            OBVIOUS
        <3>1. UserStart + end \in UserFlash /\ UserStart + end = flash_pos + BlockSize
            BY <1>1, <2>2 DEF UserFlash
        <3>2. flash[UserStart + end] = Blank
            BY <1>1, <1>4, <3>1 DEF FirstFree
        <3>3. Byte(u, Preamble + end) \in Nat \X Nat
            BY <2>2, UploadAssumption, LoaderAssumption DEF Byte, Uploads
        <3> QED BY <3>2, <3>3, CellAssumption
    <2> HIDE DEF u, end
    <2>5. PICK n \in 0 .. Capacity : Begins(flash, u, n)
        BY BeginsSomewhere
    <2>6. curlen <= n
        BY <1>1, <2>2, <2>3, <2>5 DEF Begins, Holds
    <2>7. n <= end
        BY <1>1, <2>2, <2>4, <2>5 DEF Begins, Holds
    <2>8. MostStored(flash) = n
        BY <1>1, <2>1, <2>2, <2>5, <2>6, StoredOf
    <2> QED BY <1>1, <1>4, <2>2, <2>5, <2>6, <2>7, <2>8 DEF end
<1> QED BY <1>1, <1>3, <1>4

-----------------------------------------------------------------------------
\* The refinement, step by step.

UpdateInv == Inv /\ IdInv /\ StoredInv

\* Most steps do nothing FirmwareUpdate knows of.
LEMMA Stutters == ASSUME UNCHANGED <<flash, mode, image>> PROVE UNCHANGED Update!fuVars
BY DEF Update!fuVars, Running, StoredNow

LEMMA PowerMaps == ASSUME UpdateInv, UpdateInv', Quiet, Power PROVE Update!Next
<1>1. CASE ColdStart
    <2>1. mode = "off" /\ mode' = "app" /\ image = NoImage /\ image' = NoImage
        BY <1>1 DEF ColdStart, UpdateInv, IdInv
    <2>2. Running = "off" /\ Running' = "cold" /\ image'.len = 0
        BY <2>1 DEF Running, NoImage
    <2>3. StoredNow' = 0
        BY <2>2 DEF StoredNow
    <2> QED BY <2>2, <2>3 DEF Update!Next, Update!PowerUpCold
<1>2. CASE EnterLoader
    <2>1. mode = "off" /\ mode' = "loader" /\ image' = NoImage
        BY <1>2 DEF EnterLoader, UpdateInv, IdInv
    <2>2. Running = "off" /\ Running' = "loader" /\ image'.len = 0
        BY <2>1 DEF Running, NoImage
    <2>3. flash' = [x \in UserFlash |-> Blank]
        BY <1>2 DEF EnterLoader, Answers, Quiet
    <2>4. flash'[UserStart] = Blank
        BY <2>3, FlashAssumption DEF UserFlash
    <2>5. MostStored(flash') = 0
        BY <2>4, NothingStored
    <2>6. StoredNow' = 0
        BY <2>2, <2>5 DEF StoredNow
    <2> QED BY <2>2, <2>6 DEF Update!Next, Update!PowerUp
<1>3. CASE PowerLoss
    <2>1. mode # "off" /\ mode' = "off" /\ image' = NoImage
        BY <1>3 DEF PowerLoss
    <2>2. Running # "off" /\ Running' = "off" /\ image'.len = 0
        BY <2>1 DEF Running, NoImage
    <2>3. StoredNow' = 0
        BY <2>2 DEF StoredNow
    <2> QED BY <2>2, <2>3 DEF Update!Next, Update!PowerDown
<1> QED BY <1>1, <1>2, <1>3 DEF Power

\* In the loader, what is stored is what the flash holds.
LEMMA Loading == ASSUME mode = "loader" PROVE Running = "loader" /\ StoredNow = MostStored(flash)
BY DEF Running, StoredNow

LEMMA LoadingNext ==
    ASSUME mode' = "loader"
    PROVE  Running' = "loader" /\ StoredNow' = MostStored(flash)'
BY DEF Running, StoredNow

\* The flash changes by a block at most.
LEMMA StoreMaps ==
    ASSUME mode = "loader", mode' = "loader", image' = image,
           MostStored(flash)' - MostStored(flash) \in 1 .. BlockSize
    PROVE  Update!Next
BY Loading, LoadingNext DEF Update!Next, Update!Store

LEMMA LoopMaps ==
    ASSUME UpdateInv, UpdateInv', Quiet, Loop
    PROVE  Update!Next \/ UNCHANGED Update!fuVars
<1>1. mode = "loader" /\ mode' = "loader" /\ image' = image /\ pc = "stream" /\ reboot' = reboot
    BY DEF Loop, StreamLoop, loaderVars
<1>2. ~reboot /\ ~reboot'
    BY <1>1 DEF UpdateInv, Inv, IndInv, RxInv
<1>3. /\ MostStored(flash) = flash_pos - UserStart
      /\ MostStored(flash)' = flash_pos' - UserStart
    BY <1>1, <1>2 DEF UpdateInv, StoredInv
<1>4. CASE flash' = flash
    BY <1>1, <1>4, Stutters
<1>5. CASE flash' # flash
    <2>1. PICK iap \in IapOutcome :
             /\ WriteFlash(flash_pos, Collected(Taken), iap)
             /\ WriteOk(flash_pos, iap) => flash_pos' = flash_pos + BlockSize
        BY <1>5 DEF Loop, StreamLoop, FillBlock, WriteBlock, flashVars
    <2>2. byte_ctr' = 0
        BY DEF UpdateInv, Inv, IndInv, NothingPending
    <2>3. WriteOk(flash_pos, iap)
        BY <2>1, <2>2, FlashAssumption DEF WriteFlash
    <2>4. flash_pos' = flash_pos + BlockSize /\ flash_pos \in Nat
        BY <2>1, <2>3 DEF UpdateInv, Inv, TypeInv, TypeOK, UploadTypeOK
    <2>5. MostStored(flash)' - MostStored(flash) = BlockSize
        BY <1>3, <2>4, FlashAssumption
    <2> QED BY <1>1, <2>5, StoreMaps, FlashAssumption
<1> QED BY <1>4, <1>5

LEMMA TailMaps ==
    ASSUME UpdateInv, UpdateInv', Quiet, Tail
    PROVE  Update!Next \/ UNCHANGED Update!fuVars
<1>1. /\ mode = "loader" /\ mode' = "loader" /\ image' = image /\ pc = "tail"
      /\ UNCHANGED <<curlen, flash_pos, flash_cnt>>
    BY DEF Tail, StreamTail, loaderVars
<1>2. ~reboot /\ curlen > 0
    BY <1>1 DEF UpdateInv, Inv, IndInv, RxInv
<1>3. CASE flash' = flash
    BY <1>1, <1>3, Stutters
<1>4. CASE flash' # flash
    <2>1. reboot' /\ flash_cnt > 0
        BY <1>4 DEF Tail, StreamTail, WriteLast, flashVars
    <2>2. MostStored(flash) = flash_pos - UserStart
        BY <1>1, <1>2 DEF UpdateInv, StoredInv
    <2>3. MostStored(flash)' \in curlen .. (flash_pos - UserStart) + BlockSize
        BY <1>1, <2>1 DEF UpdateInv, StoredInv
    <2>4. curlen = (flash_pos - UserStart) + flash_cnt
        BY <1>1 DEF UpdateInv, Inv, IndInv, Position
    <2>5. flash_pos \in Nat /\ flash_cnt \in Nat /\ curlen \in Nat
        BY DEF UpdateInv, Inv, TypeInv, TypeOK, UploadTypeOK
    <2>6. MostStored(flash)' - MostStored(flash) \in 1 .. BlockSize
        BY <2>1, <2>2, <2>3, <2>4, <2>5, FlashAssumption
    <2> QED BY <1>1, <2>6, StoreMaps
<1> QED BY <1>3, <1>4

\* A jump hands over to a file that is stored to its end.
LEMMA ReturnMaps ==
    ASSUME UpdateInv, Quiet, PostReturn
    PROVE  Update!Next \/ UNCHANGED Update!fuVars
<1>1. CASE UNCHANGED <<flash, mode, image>>
    BY <1>1, Stutters
<1>2. CASE reboot /\ Jump(rx.conn)
    <2>1. mode = "loader" /\ conn[rx.conn].up /\ rx.conn \in Conns
          /\ conn[rx.conn].len \in FileLens /\ conn[rx.conn].len + Trailer <= curlen
        BY <1>2, JumpFacts DEF PostReturn, UpdateInv
    <2>2. mode' = "app" /\ flash' = flash
          /\ image' = [id |-> conn[rx.conn].id, len |-> conn[rx.conn].len]
        BY <1>2 DEF Jump, flashVars
    <2>3. conn[rx.conn].id \in 1 .. accepts /\ accepts \in Nat
        BY <2>1 DEF UpdateInv, IdInv, Inv, TypeInv, TypeOK, LoaderTypeOK
    <2>4. image'.id # 0 /\ image'.len = conn[rx.conn].len
        BY <2>2, <2>3
    <2>5. Running = "loader" /\ StoredNow = MostStored(flash)
        BY <2>1, Loading
    <2>6. Running' = "image" /\ StoredNow' = MostStored(flash)
        BY <2>2, <2>4 DEF Running, StoredNow
    <2>7. conn[rx.conn].len <= MostStored(flash)
        <3>1. MostStored(flash) \in curlen .. (flash_pos - UserStart) + BlockSize
            BY <1>2, <2>1 DEF UpdateInv, StoredInv
        <3>2. /\ curlen \in Nat /\ flash_pos \in Nat /\ conn[rx.conn].len \in Nat
              /\ Trailer \in Nat /\ UserStart \in Nat /\ BlockSize \in Nat
            BY <2>1, LoaderAssumption, UploadAssumption, FlashAssumption
               DEF UpdateInv, Inv, TypeInv, TypeOK, UploadTypeOK
        <3> QED BY <2>1, <3>1, <3>2
    <2> QED BY <2>1, <2>4, <2>5, <2>6, <2>7 DEF Update!Next, Update!HandOver
<1> QED BY <1>1, <1>2, ReturnIds DEF UpdateInv

LEMMA StepMaps ==
    ASSUME UpdateInv, UpdateInv', Quiet, [Next]_vars
    PROVE  Update!Next \/ UNCHANGED Update!fuVars
<1>1. CASE Power
    BY <1>1, PowerMaps
<1>2. CASE Loop
    BY <1>2, LoopMaps
<1>3. CASE Tail
    BY <1>3, TailMaps
<1>4. CASE PostReturn
    BY <1>4, ReturnMaps
<1>5. CASE Corrupt \/ UNCHANGED vars
    BY <1>5, NotBehind, Stutters DEF UpdateInv, vars, flashVars, loaderVars
<1>6. ASSUME NEW c \in Conns, ConnNext(c) PROVE UNCHANGED Update!fuVars
    BY <1>6, ServerIds, Stutters DEF UpdateInv
<1> QED BY <1>1, <1>2, <1>3, <1>4, <1>5, <1>6 DEF Next, Handler

\* THEOREM: when nothing disturbs an upload, the boot loader implements FirmwareUpdate:
\* it stores the file of one upload from its first byte on and in order, a block at a time,
\* never disturbs what it has stored, and jumps only to a file that is stored to its end
\* (httpd_post_receive_data, write_flash and httpd_post_finished).
THEOREM ImplementsFirmwareUpdate == Faults = {} => (Spec => ImplementsUpdate)
<1> SUFFICES ASSUME Quiet PROVE Spec => ImplementsUpdate
    BY DEF Quiet
<1>1. Init => IdInv
    BY LoaderAssumption DEF Init, IdInv, NoConn, NoImage
<1>2. Init => Update!Init
    <2> SUFFICES ASSUME Init PROVE Update!Init
        OBVIOUS
    <2>1. Running = "off" /\ image.len = 0
        BY DEF Init, Running, NoImage
    <2>2. StoredNow = 0
        BY <2>1 DEF StoredNow
    <2> QED BY <2>1, <2>2 DEF Update!Init
<1>3. Inv /\ IdInv /\ [Next]_vars => IdInv'
    BY IdNext
<1>4. Spec => []NothingAbove
    BY NothingIsAbove DEF Quiet
<1>5. Inv /\ IdInv /\ NothingAbove => UpdateInv
    BY StoredFollows DEF UpdateInv
<1>6. UpdateInv /\ UpdateInv' /\ [Next]_vars => [Update!Next]_(Update!fuVars)
    BY StepMaps
<1>7. Spec => []Inv
    BY InvAlways
<1> QED BY <1>1, <1>2, <1>3, <1>4, <1>5, <1>6, <1>7, PTL DEF Spec, ImplementsUpdate, Update!Spec
=============================================================================
